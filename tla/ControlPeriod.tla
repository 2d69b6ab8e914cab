--------------------------- MODULE ControlPeriod ---------------------------
(***************************************************************************)
(* How the control thread keeps its period: a cycle of fastLoop (or of     *)
(* initGyroBias) ends with ticks += LOOP_DELAY; chThdSleepUntil(ticks).    *)
(* The sleep is a difference of two unsigned tick counts that wrap around. *)
(* The timer itself is the one promised by TimerService: armed for n > 0   *)
(* ticks it fires at the n-th tick.                                        *)
(***************************************************************************)
EXTENDS Integers

CONSTANTS TimeMod,     \* systime_t counts modulo TimeMod (2^32)
          LOOP_DELAY,  \* ticks per cycle (US2ST(1000) = MS2ST(1) = 1)
          MaxElapsed   \* bound: the most ticks that a cycle takes

ASSUME PeriodAssumption ==
    /\ TimeMod \in Nat /\ LOOP_DELAY \in Nat \ {0} /\ MaxElapsed \in Nat
    /\ LOOP_DELAY + MaxElapsed < TimeMod - 1

VARIABLES systime,  \* vtlist.vt_systime
          ticks,    \* the deadline of the cycle
          state,    \* of the control thread: CURRENT, or SLEEPING in chThdSleepS
          timer,    \* ticks until its timer fires, 0 when it has none
          elapsed,  \* history: ticks since the cycle began
          lead      \* history: ticks until the next cycle should begin, were
                    \* it to begin LOOP_DELAY after the last one should have

vars == <<systime, ticks, state, timer, elapsed, lead>>

TIME_INFINITE == TimeMod - 1

\* Mutation: the tick counter does not wrap around.
PlusEndless(a, b) == a + b

\* Unsigned addition and subtraction of two tick counts.
Plus(a, b) == IF a + b < TimeMod THEN a + b ELSE a + b - TimeMod
Minus(a, b) == IF a >= b THEN a - b ELSE a - b + TimeMod

\* Mutations: a sleep relative to the present; a deadline that never moves.
NextDeadlineRelative(deadline, now) == Plus(now, LOOP_DELAY)
NextDeadlineStuck(deadline, now) == deadline

\* ticks += LOOP_DELAY
NextDeadline(deadline, now) == Plus(deadline, LOOP_DELAY)

----------------------------------------------------------------------------
\* ticks = chTimeNow(), at any point of the counter's range.
Init ==
    /\ systime \in 0..(TimeMod - 1)
    /\ ticks = systime
    /\ state = "CURRENT" /\ timer = 0
    /\ elapsed = 0 /\ lead = 0

\* chSchGoSleepTimeoutS: an infinite time arms no timer.
Sleep(time) ==
    /\ state' = "SLEEPING"
    /\ timer' = IF time = TIME_INFINITE THEN 0 ELSE time

\* chThdSleepUntil: the difference is unsigned, so only zero is "not > 0".
SleepUntil(deadline) ==
    LET time == Minus(deadline, systime)
    IN  IF time > 0 THEN Sleep(time) ELSE UNCHANGED <<state, timer>>

\* The end of a cycle.
EndCycle ==
    /\ state = "CURRENT"
    /\ ticks' = NextDeadline(ticks, systime)
    /\ SleepUntil(ticks')
    /\ elapsed' = 0
    /\ lead' = lead + LOOP_DELAY
    /\ UNCHANGED systime

\* A tick during a cycle.
TickAwake ==
    /\ state = "CURRENT" /\ elapsed < MaxElapsed
    /\ systime' = Plus(systime, 1)
    /\ elapsed' = elapsed + 1
    /\ lead' = lead - 1
    /\ UNCHANGED <<ticks, state, timer>>

\* A tick during the sleep; the highest-priority thread runs when it wakes.
\* (lead stands still in a sleep without a timer, which bounds the model.)
TickAsleep ==
    /\ state = "SLEEPING"
    /\ systime' = Plus(systime, 1)
    /\ timer' = IF timer = 0 THEN 0 ELSE timer - 1
    /\ state' = IF timer = 1 THEN "CURRENT" ELSE state
    /\ lead' = IF timer = 0 THEN lead ELSE lead - 1
    /\ UNCHANGED <<ticks, elapsed>>

Next == EndCycle \/ TickAwake \/ TickAsleep

\* The tick interrupt never stops, and a cycle blocks on nothing.
Spec == Init /\ [][Next]_vars /\ WF_vars(TickAsleep) /\ WF_vars(EndCycle)

----------------------------------------------------------------------------
TypeOK ==
    /\ systime \in 0..(TimeMod - 1)
    /\ ticks \in 0..(TimeMod - 1)
    /\ state \in {"CURRENT", "SLEEPING"}
    /\ timer \in 0..(TimeMod - 2)
    /\ elapsed \in 0..MaxElapsed
    /\ lead \in Int

\* As long as no cycle takes more than its period, the loop never drifts: a
\* cycle begins when it should, whatever the cycles before it took and
\* wherever the tick counter wraps around, and a sleep ends within the period
\* (fastLoop 104-140; initGyroBias 61-69; chthreads.c 306-312).
OnSchedule ==
    IF state = "SLEEPING"
    THEN timer = lead /\ lead \in 1..LOOP_DELAY
    ELSE lead + elapsed = 0

\* Why: the deadline is ahead of the clock by the sleep, or behind it by the
\* part of the cycle that is over.
Inv ==
    /\ TypeOK /\ OnSchedule
    /\ state = "SLEEPING" => ticks = Plus(systime, timer) /\ elapsed = 0
    /\ state = "CURRENT" => systime = Plus(ticks, elapsed) /\ timer = 0

\* The control thread runs again and again.
CyclesGoOn == []<>(state = "CURRENT")

\* chThdSleepUntil "suspends the invoking thread until the system time
\* arrives to the specified value": it does not sleep on when it has.
WakesOnArrival == state = "SLEEPING" => systime # ticks
============================================================================
