--------------------------- MODULE VirtualTimers ---------------------------
(***************************************************************************)
(* The delta list of virtual timers (chvt.c, chvt.h): each element holds   *)
(* the ticks between the timer before it and itself.  The list ends in its *)
(* header, whose vt_time is the greatest systime_t, so that every search   *)
(* stops there.  Arming and disarming happen under the system lock and the *)
(* tick in an interrupt, so each is one step.                              *)
(***************************************************************************)
EXTENDS Integers, SequencesExt

CONSTANTS Timers,   \* the VirtualTimer structures, one per waiting thread
          TimeMod   \* systime_t counts modulo TimeMod (2^32)

ASSUME TimeModAssumption == TimeMod \in Nat /\ TimeMod > 2

VARIABLES vtlist,     \* the armed timers in list order: [timer, vt_time]
          vt_systime, \* ticks since the start, modulo TimeMod
          vt_func,    \* timer -> its callback is not NULL
          asked,      \* history: the delay passed for a timer that is armed, else 0
          fired       \* history: timers that fired and have not been armed since

timerVars == <<vtlist, vt_systime, vt_func, asked, fired>>

\* TIME_IMMEDIATE (0) is not allowed; TIME_INFINITE is an ordinary delay here.
Delays == 1..(TimeMod - 1)

Minus(a, b) == (a - b) % TimeMod
Plus(a, b) == (a + b) % TimeMod

\* Ticks from now to the k-th timer of list l.
Deadline(l, k) ==
    LET sum[n \in 0..Len(l)] == IF n = 0 THEN 0 ELSE sum[n - 1] + l[n].vt_time
    IN  sum[k]

\* The place at which the search of chVTSetI stops: the first timer whose
\* delta is not below what is left of the delay, or the header.
Place(l, time) ==
    CHOOSE p \in 1..(Len(l) + 1) :
        /\ p <= Len(l) => l[p].vt_time >= time - Deadline(l, p - 1)
        /\ \A q \in 1..(p - 1) : l[q].vt_time < time - Deadline(l, q - 1)

\* Mutation: the search does not take the deltas it passes off the delay.
InsertedUnreduced(l, t, time) ==
    LET p == Place(l, time)
        delta == time - Deadline(l, p - 1)
    IN  InsertAt([k \in DOMAIN l |->
                     IF k = p THEN [l[k] EXCEPT !.vt_time = Minus(@, delta)] ELSE l[k]],
                 p, [timer |-> t, vt_time |-> time])

\* Linking in front of place p takes the new delta off the timer that was there.
Inserted(l, t, time) ==
    LET p == Place(l, time)
        delta == time - Deadline(l, p - 1)
    IN  InsertAt([k \in DOMAIN l |->
                     IF k = p THEN [l[k] EXCEPT !.vt_time = Minus(@, delta)] ELSE l[k]],
                 p, [timer |-> t, vt_time |-> delta])

\* Unlinking place p gives its delta to the timer behind it.
Removed(l, p) ==
    RemoveAt([k \in DOMAIN l |->
                 IF k = p + 1 THEN [l[k] EXCEPT !.vt_time = Plus(@, l[p].vt_time)] ELSE l[k]],
             p)

\* The list after the head's delta has been decremented.
Aged(l) ==
    IF l = <<>> THEN l ELSE [l EXCEPT ![1].vt_time = Minus(@, 1)]

\* Mutation: at most one timer per tick.
DueOne(l) == IF l # <<>> /\ l[1].vt_time = 0 THEN 1 ELSE 0

\* The number of timers at the head of l whose delta is zero.
Due(l) ==
    CHOOSE n \in 0..Len(l) :
        /\ n < Len(l) => l[n + 1].vt_time # 0
        /\ \A k \in 1..n : l[k].vt_time = 0

----------------------------------------------------------------------------
TimersInit ==
    /\ vtlist = <<>> /\ vt_systime = 0
    /\ vt_func = [t \in Timers |-> FALSE]
    /\ asked = [t \in Timers |-> 0]
    /\ fired = {}

\* chVTSetI, from a thread that is about to sleep: its timer is not armed.
SetTimer(t, time) ==
    /\ ~vt_func[t]
    /\ vtlist' = Inserted(vtlist, t, time)
    /\ vt_func' = [vt_func EXCEPT ![t] = TRUE]
    /\ asked' = [asked EXCEPT ![t] = time]
    /\ fired' = fired \ {t}
    /\ UNCHANGED vt_systime

\* chVTResetI, from a thread that woke before its timer.
ResetTimer(t) ==
    /\ vt_func[t]
    /\ \E p \in DOMAIN vtlist : vtlist[p].timer = t /\ vtlist' = Removed(vtlist, p)
    /\ vt_func' = [vt_func EXCEPT ![t] = FALSE]
    /\ asked' = [asked EXCEPT ![t] = 0]
    /\ UNCHANGED <<vt_systime, fired>>

\* chVTDoTickI: the head ages, every timer that is due is unlinked and called.
TimersTick ==
    LET aged == Aged(vtlist)
        n == Due(aged)
        due == {aged[k].timer : k \in 1..n}
    IN  /\ vt_systime' = Plus(vt_systime, 1)
        /\ vtlist' = SubSeq(aged, n + 1, Len(aged))
        /\ vt_func' = [t \in Timers |-> vt_func[t] /\ t \notin due]
        /\ asked' = [t \in Timers |-> IF t \in due THEN 0 ELSE asked[t]]
        /\ fired' = fired \cup due

TimersNext ==
    \/ TimersTick
    \/ \E t \in Timers : ResetTimer(t) \/ \E time \in Delays : SetTimer(t, time)

TimersSpec == TimersInit /\ [][TimersNext]_timerVars

----------------------------------------------------------------------------
(* Properties                                                              *)

\* The list is the set of armed timers, each once; the head is never already
\* due (the next tick would take its delta through zero to the greatest time
\* and hold up every timer), and no delay has wrapped around (chvt.c 86-96,
\* chvt.h chVTDoTickI).
ListWellFormed ==
    /\ {vtlist[k].timer : k \in DOMAIN vtlist} = {t \in Timers : vt_func[t]}
    /\ \A j, k \in DOMAIN vtlist : vtlist[j].timer = vtlist[k].timer => j = k
    /\ vtlist # <<>> => Head(vtlist).vt_time # 0 /\ Deadline(vtlist, Len(vtlist)) < TimeMod

\* Every timer fires when the system time has advanced by the delay passed to
\* chVTSetI: the deltas up to a timer, added up, are that delay when it is
\* linked, at whatever place of the list, and one less with every tick, whatever
\* is armed, reset or fires around it (chvt.c 86-96, 115-118, chvt.h 133-146).
remaining ==
    [t \in Timers |->
        LET place == {k \in DOMAIN vtlist : vtlist[k].timer = t}
        IN  IF place = {} THEN 0 ELSE Deadline(vtlist, CHOOSE k \in place : TRUE)]

Service == INSTANCE TimerService WITH now <- vt_systime
ImplementsTimerService == Service!Spec

============================================================================
