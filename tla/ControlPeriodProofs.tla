------------------------ MODULE ControlPeriodProofs ------------------------
(***************************************************************************)
(* The control loop keeps its period for every tick counter width, period  *)
(* and starting point, as long as no cycle takes more than its period.     *)
(***************************************************************************)
EXTENDS ControlPeriod, TLAPS

\* The invariant holds at the start of the loop.
LEMMA InitInv == Init => Inv
<1> SUFFICES ASSUME Init PROVE Inv
  OBVIOUS
<1>1. /\ systime \in 0..(TimeMod - 1) /\ ticks = systime /\ state = "CURRENT"
      /\ timer = 0 /\ elapsed = 0 /\ lead = 0
  BY DEF Init
<1>2. TypeOK
  BY <1>1, PeriodAssumption DEF TypeOK
<1>3. lead + elapsed = 0
  BY <1>1
<1>4. systime = Plus(ticks, elapsed)
  BY <1>1, PeriodAssumption DEF Plus
<1> QED BY <1>1, <1>2, <1>3, <1>4 DEF Inv, OnSchedule

\* The end of a cycle: the sleep is what is left of the period, perhaps none.
LEMMA EndCycleInv ==
    ASSUME MaxElapsed <= LOOP_DELAY, Inv, EndCycle
    PROVE  Inv'
<1> DEFINE left == LOOP_DELAY - elapsed
<1>1. /\ state = "CURRENT" /\ lead + elapsed = 0 /\ timer = 0 /\ systime = Plus(ticks, elapsed)
      /\ ticks' = Plus(ticks, LOOP_DELAY) /\ systime' = systime
      /\ elapsed' = 0 /\ lead' = lead + LOOP_DELAY
  BY DEF Inv, OnSchedule, EndCycle, NextDeadline
<1>2. /\ ticks \in 0..(TimeMod - 1) /\ elapsed \in 0..MaxElapsed
      /\ systime \in 0..(TimeMod - 1) /\ lead \in Int
  BY DEF Inv, TypeOK
<1>3. left \in 0..LOOP_DELAY /\ lead' = left
  BY <1>1, <1>2, PeriodAssumption
<1>4. /\ ticks' \in 0..(TimeMod - 1)
      /\ Minus(ticks', systime) = left
      /\ ticks' = Plus(systime, left)
  BY <1>1, <1>2, PeriodAssumption DEF Plus, Minus
<1>5. CASE left > 0
  <2>1. left # TIME_INFINITE /\ left \in 0..(TimeMod - 2)
    BY <1>3, PeriodAssumption DEF TIME_INFINITE
  <2>2. state' = "SLEEPING" /\ timer' = left
    BY <1>4, <1>5, <2>1 DEF EndCycle, NextDeadline, SleepUntil, Sleep
  <2> HIDE DEF left
  <2> QED BY <1>1, <1>2, <1>3, <1>4, <1>5, <2>1, <2>2, PeriodAssumption
          DEF Inv, TypeOK, OnSchedule
<1>6. CASE left = 0
  <2>1. state' = "CURRENT" /\ timer' = 0
    <3>1. Minus(ticks', systime) = 0
      BY <1>4, <1>6
    <3>2. SleepUntil(ticks')
      BY DEF EndCycle
    <3>3. UNCHANGED <<state, timer>>
      BY <3>1, <3>2 DEF SleepUntil
    <3>4. state \in {"CURRENT", "SLEEPING"}
      BY DEF Inv, TypeOK
    <3> QED BY <1>1, <3>3, <3>4
  <2>2. systime' = Plus(ticks', 0)
    BY <1>1, <1>2, <1>4, <1>6, PeriodAssumption DEF Plus
  <2> HIDE DEF left
  <2> QED BY <1>1, <1>2, <1>3, <1>4, <1>6, <2>1, <2>2, PeriodAssumption
          DEF Inv, TypeOK, OnSchedule
<1> QED BY <1>3, <1>5, <1>6, PeriodAssumption

\* A tick during a cycle.
LEMMA TickAwakeInv ==
    ASSUME Inv, TickAwake
    PROVE  Inv'
<1>1. /\ state = "CURRENT" /\ lead + elapsed = 0 /\ timer = 0 /\ systime = Plus(ticks, elapsed)
      /\ elapsed < MaxElapsed /\ systime' = Plus(systime, 1)
      /\ elapsed' = elapsed + 1 /\ lead' = lead - 1
      /\ ticks' = ticks /\ state' = state /\ timer' = timer
  BY DEF Inv, OnSchedule, TickAwake
<1>2. /\ ticks \in 0..(TimeMod - 1) /\ elapsed \in 0..MaxElapsed
      /\ systime \in 0..(TimeMod - 1) /\ state \in {"CURRENT", "SLEEPING"}
  BY DEF Inv, TypeOK
<1>3. systime' \in 0..(TimeMod - 1) /\ systime' = Plus(ticks, elapsed + 1)
  BY <1>1, <1>2, PeriodAssumption DEF Plus
<1> QED BY <1>1, <1>2, <1>3, PeriodAssumption DEF Inv, TypeOK, OnSchedule

\* A tick during the sleep, the last one of which wakes the thread.
LEMMA TickAsleepInv ==
    ASSUME Inv, TickAsleep
    PROVE  Inv'
<1>1. /\ state = "SLEEPING" /\ timer = lead /\ lead \in 1..LOOP_DELAY
      /\ ticks = Plus(systime, timer)
      /\ systime' = Plus(systime, 1) /\ timer' = timer - 1 /\ state' = IF timer = 1 THEN "CURRENT" ELSE state
      /\ lead' = lead - 1 /\ ticks' = ticks /\ elapsed' = elapsed
  BY PeriodAssumption DEF Inv, TypeOK, OnSchedule, TickAsleep
<1>2. /\ ticks \in 0..(TimeMod - 1) /\ elapsed \in 0..MaxElapsed
      /\ systime \in 0..(TimeMod - 1) /\ timer \in 0..(TimeMod - 2)
  BY DEF Inv, TypeOK
<1>3. systime' \in 0..(TimeMod - 1) /\ ticks' = Plus(systime', timer')
  BY <1>1, <1>2, PeriodAssumption DEF Plus
<1>4. elapsed = 0
  BY <1>1 DEF Inv
<1>5. CASE timer = 1
  <2>1. state' = "CURRENT" /\ timer' = 0 /\ lead' = 0
    BY <1>1, <1>5
  <2>2. systime' = Plus(ticks', 0)
    BY <1>1, <1>2, <1>3, <2>1, PeriodAssumption DEF Plus
  <2> QED BY <1>1, <1>2, <1>3, <1>4, <2>1, <2>2, PeriodAssumption
          DEF Inv, TypeOK, OnSchedule
<1>6. CASE timer # 1
  <2>1. state' = "SLEEPING" /\ timer' \in 1..LOOP_DELAY /\ timer' = lead'
    BY <1>1, <1>6, PeriodAssumption
  <2> QED BY <1>1, <1>2, <1>3, <1>4, <2>1, PeriodAssumption DEF Inv, TypeOK, OnSchedule
<1> QED BY <1>5, <1>6

----------------------------------------------------------------------------
\* The invariant holds for as long as cycles fit their period.
LEMMA Invariance ==
    ASSUME MaxElapsed <= LOOP_DELAY
    PROVE  Spec => []Inv
<1>1. Init => Inv
  BY InitInv
<1>2. Inv /\ [Next]_vars => Inv'
  <2> SUFFICES ASSUME Inv, [Next]_vars PROVE Inv'
    OBVIOUS
  <2>1. CASE EndCycle
    BY <2>1, EndCycleInv
  <2>2. CASE TickAwake
    BY <2>2, TickAwakeInv
  <2>3. CASE TickAsleep
    BY <2>3, TickAsleepInv
  <2>4. CASE UNCHANGED vars
    BY <2>4 DEF vars, Inv, TypeOK, OnSchedule
  <2> QED BY <2>1, <2>2, <2>3, <2>4 DEF Next
<1> QED BY <1>1, <1>2, PTL DEF Spec

\* The control loop never drifts and never oversleeps while no cycle takes more
\* than its period (fastLoop 104-140, chThdSleepUntil), whatever the width of
\* the tick counter and wherever it wraps around.
THEOREM Scheduled ==
    ASSUME MaxElapsed <= LOOP_DELAY
    PROVE  Spec => []OnSchedule
<1>1. Inv => OnSchedule
  BY DEF Inv
<1> QED BY <1>1, Invariance, PTL

\* Tick counts stay in the range of systime_t.
THEOREM TypeCorrect ==
    ASSUME MaxElapsed <= LOOP_DELAY
    PROVE  Spec => []TypeOK
<1>1. Inv => TypeOK
  BY DEF Inv
<1> QED BY <1>1, Invariance, PTL

\* A cycle that takes one tick too many is the last one: its sleep is the
\* infinite one, which has no timer (chThdSleepUntil 309, chschd.c 187).
THEOREM OverrunSleepsForever ==
    ASSUME TypeOK, EndCycle, systime = Plus(NextDeadline(ticks, systime), 1)
    PROVE  state' = "SLEEPING" /\ timer' = 0
<1>1. /\ ticks \in 0..(TimeMod - 1) /\ systime \in 0..(TimeMod - 1)
      /\ ticks' = Plus(ticks, LOOP_DELAY) /\ systime = Plus(ticks', 1)
      /\ SleepUntil(ticks')
  BY DEF TypeOK, EndCycle, NextDeadline
<1>2. Minus(ticks', systime) = TIME_INFINITE /\ TIME_INFINITE > 0
  BY <1>1, PeriodAssumption DEF Plus, Minus, TIME_INFINITE
<1>3. Sleep(TIME_INFINITE)
  BY <1>1, <1>2 DEF SleepUntil
<1> QED BY <1>3 DEF Sleep
============================================================================
