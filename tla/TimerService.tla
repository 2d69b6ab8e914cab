---------------------------- MODULE TimerService ---------------------------
(***************************************************************************)
(* What the virtual timers of the kernel promise (the comments of          *)
(* chVTSetI, chVTResetI and chVTIsArmedI): an armed timer fires when the   *)
(* system time has advanced by the delay that the caller asked for, no     *)
(* sooner, no later, no matter what the other timers do; a timer that is   *)
(* reset does not fire.                                                    *)
(***************************************************************************)
EXTENDS Naturals

CONSTANTS Timers,   \* the timers of the system, one per waiting thread
          Delays,   \* the delays they are armed with
          TimeMod   \* the system time counts modulo TimeMod

VARIABLES now,        \* the system time
          asked,      \* the delay that an armed timer was armed with, else 0
          remaining,  \* ticks until a timer fires, 0 when it is not armed
          fired       \* timers that fired and have not been armed since

Init ==
    /\ now = 0 /\ fired = {}
    /\ asked = [t \in Timers |-> 0]
    /\ remaining = [t \in Timers |-> 0]

\* A caller asks for delay d: so long, exactly, will the timer take.
Arm(t, d) ==
    /\ remaining[t] = 0
    /\ asked' = [asked EXCEPT ![t] = d]
    /\ remaining' = [remaining EXCEPT ![t] = d]
    /\ fired' = fired \ {t}
    /\ UNCHANGED now

Disarm(t) ==
    /\ remaining[t] # 0
    /\ asked' = [asked EXCEPT ![t] = 0]
    /\ remaining' = [remaining EXCEPT ![t] = 0]
    /\ UNCHANGED <<now, fired>>

\* The system time advances, and with it every timer that is armed.
Tick ==
    /\ now' = (now + 1) % TimeMod
    /\ remaining' = [t \in Timers |-> IF remaining[t] = 0 THEN 0 ELSE remaining[t] - 1]
    /\ asked' = [t \in Timers |-> IF remaining[t] = 1 THEN 0 ELSE asked[t]]
    /\ fired' = fired \cup {t \in Timers : remaining[t] = 1}

Next == Tick \/ \E t \in Timers : Disarm(t) \/ \E d \in Delays : Arm(t, d)

Spec == Init /\ [][Next]_<<now, asked, remaining, fired>>
============================================================================
