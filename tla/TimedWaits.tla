----------------------------- MODULE TimedWaits ----------------------------
(***************************************************************************)
(* Waiting with a time limit (chSchGoSleepTimeoutS and its callback wakeup *)
(* in chschd.c) as chThdSleep and the readers of an input queue use it     *)
(* (qwait, chIQGetTimeout, chIQPutI in chqueues.c), on the timers of       *)
(* VirtualTimers and under the scheduler.  The timer of a wait is on the   *)
(* stack of the thread that waits.                                         *)
(***************************************************************************)
EXTENDS VirtualTimers, Scheduler

CONSTANTS Prio,      \* thread -> priority
          Timeouts,  \* the times threads wait for
          Capacity   \* the size of the input queue

TIME_INFINITE == TimeMod - 1

ASSUME WaitAssumption ==
    /\ Timers = Threads \ {Idle}   \* each has one, on its stack
    /\ Capacity \in Nat \ {0} /\ Timeouts \subseteq Delays
    /\ Prio \in [Threads -> Nat] /\ \A t \in Timers : Prio[t] > Prio[Idle]

VARIABLES sched,     \* the scheduler's state
          isr,       \* in an interrupt, before the epilogue of the outermost one
          count,     \* the bytes in the queue
          q_waiting, \* the threads that wait for one
          pc,        \* thread -> "run", or the wait it is in, or "loop" after it
          time,      \* thread -> the time limit of its call, outside one TIME_INFINITE
          rdymsg     \* thread -> how its last wait ended

vars == <<timerVars, sched, isr, count, q_waiting, pc, time, rdymsg>>

me == sched.currp

\* A thread has the kernel lock from its switching in to the end of its loop.
Locked == me # Idle /\ pc[me] # "run"
Runs(place) == ~isr /\ me # Idle /\ pc[me] = place

Init ==
    /\ TimersInit
    /\ \E order \in SetToSeqs(Threads) : Ordered(order, Prio) /\ sched = Started(order, Prio)
    /\ isr = FALSE /\ count = 0 /\ q_waiting = <<>>
    /\ pc = [t \in Timers |-> "run"]
    /\ time = [t \in Timers |-> TIME_INFINITE]
    /\ rdymsg = [t \in Timers |-> "OK"]

\* chSchGoSleepTimeoutS up to the switch.
GoSleepTimeout(newstate, n) ==
    /\ IF n = TIME_INFINITE THEN UNCHANGED timerVars ELSE SetTimer(me, n)
    /\ sched' = GoSleepS(sched, newstate)
    /\ pc' = [pc EXCEPT ![me] = "wait"]
    /\ time' = [time EXCEPT ![me] = n]

Sleep(n) ==
    /\ Runs("run") /\ n # TIME_INFINITE
    /\ GoSleepTimeout("SLEEPING", n)
    /\ UNCHANGED <<isr, count, q_waiting, rdymsg>>

\* chIQGetTimeout from the test of its loop on: a byte, or a wait for one.
GetFrom(place, n) ==
    /\ Runs(place)
    /\ IF count > 0
       THEN /\ count' = count - 1
            /\ pc' = [pc EXCEPT ![me] = "run"]
            /\ time' = [time EXCEPT ![me] = TIME_INFINITE]
            /\ UNCHANGED <<timerVars, sched, q_waiting>>
       ELSE /\ q_waiting' = Append(q_waiting, me)
            /\ GoSleepTimeout("WTQUEUE", n)
            /\ UNCHANGED count
    /\ UNCHANGED <<isr, rdymsg>>

Get(n) == GetFrom("run", n)
GetAgain == me # Idle /\ GetFrom("loop", time[me])

\* Mutation: the timer is left armed.
ResumeArmed ==
    /\ Runs("wait")
    /\ pc' = [pc EXCEPT ![me] = IF rdymsg[me] = "OK" THEN "loop" ELSE "run"]
    /\ UNCHANGED <<timerVars, sched, isr, count, q_waiting, time, rdymsg>>

\* chSchGoSleepTimeoutS after the switch: a timer that is still armed is
\* disarmed.  Only a reader that has been given a byte looks for it.
Resume ==
    /\ Runs("wait")
    /\ IF vt_func[me] THEN ResetTimer(me) ELSE UNCHANGED timerVars
    /\ IF rdymsg[me] = "OK"
       THEN pc' = [pc EXCEPT ![me] = "loop"] /\ UNCHANGED time
       ELSE /\ pc' = [pc EXCEPT ![me] = "run"]
            /\ time' = [time EXCEPT ![me] = TIME_INFINITE]
    /\ UNCHANGED <<sched, isr, count, q_waiting, rdymsg>>

\* Mutation: only the first byte of an empty queue is signalled.
PutFirst ==
    /\ ~Locked
    /\ isr' = TRUE
    /\ count' = IF count < Capacity THEN count + 1 ELSE count
    /\ IF count = 0 /\ q_waiting # <<>>
       THEN /\ sched' = ReadyI(sched, Head(q_waiting))
            /\ rdymsg' = [rdymsg EXCEPT ![Head(q_waiting)] = "OK"]
            /\ q_waiting' = Tail(q_waiting)
       ELSE UNCHANGED <<sched, rdymsg, q_waiting>>
    /\ UNCHANGED <<timerVars, pc, time>>

\* chIQPutI.
Put ==
    /\ ~Locked
    /\ isr' = TRUE
    /\ count' = IF count < Capacity THEN count + 1 ELSE count
    /\ IF count < Capacity /\ q_waiting # <<>>
       THEN /\ sched' = ReadyI(sched, Head(q_waiting))
            /\ rdymsg' = [rdymsg EXCEPT ![Head(q_waiting)] = "OK"]
            /\ q_waiting' = Tail(q_waiting)
       ELSE UNCHANGED <<sched, rdymsg, q_waiting>>
    /\ UNCHANGED <<timerVars, pc, time>>

\* Mutation: whoever the timer belongs to.
WakeupAnyway(s, t) ==
    IF s.k.p_state[t] = "READY" THEN [s EXCEPT !.msg[t] = "TIMEOUT"]
    ELSE [k |-> ReadyI(s.k, t), q |-> RemoveFirst(s.q, t), msg |-> [s.msg EXCEPT ![t] = "TIMEOUT"]]

\* Mutation: threads that are in no queue are not readied.
WakeupQueued(s, t) ==
    IF s.k.p_state[t] # "WTQUEUE" THEN s
    ELSE [k |-> ReadyI(s.k, t), q |-> RemoveFirst(s.q, t), msg |-> [s.msg EXCEPT ![t] = "TIMEOUT"]]

\* wakeup: nothing if the thread has been readied already.
Wakeup(s, t) ==
    IF s.k.p_state[t] = "READY" THEN s
    ELSE [k |-> ReadyI(s.k, t), q |-> RemoveFirst(s.q, t), msg |-> [s.msg EXCEPT ![t] = "TIMEOUT"]]

\* The callbacks of the first n timers of l, one after the other, from s on.
Called(l, n, s) ==
    LET after[k \in 0..n] == IF k = 0 THEN s ELSE Wakeup(after[k - 1], l[k].timer)
    IN  after[n]

\* chSysTimerHandlerI with the callbacks of the timers that are due.
Tick ==
    /\ ~Locked
    /\ TimersTick
    /\ LET s == Called(vtlist, Due(Aged(vtlist)),
                       [k |-> QuantumTick(sched), q |-> q_waiting, msg |-> rdymsg])
       IN  sched' = s.k /\ q_waiting' = s.q /\ rdymsg' = s.msg
    /\ isr' = TRUE
    /\ UNCHANGED <<count, pc, time>>

Epilogue ==
    /\ isr /\ isr' = FALSE
    /\ sched' = IrqEpilogue(sched)
    /\ UNCHANGED <<timerVars, count, q_waiting, pc, time, rdymsg>>

Next ==
    \/ \E n \in Timeouts : Sleep(n) \/ Get(n)
    \/ GetAgain \/ Resume \/ Put \/ Tick \/ Epilogue

\* The timer interrupt never stops, and a thread does not stop under the lock.
Fairness == []<><<Tick>>_vars /\ WF_vars(Epilogue) /\ WF_vars(Resume) /\ WF_vars(GetAgain)

Spec == Init /\ [][Next]_vars /\ Fairness

----------------------------------------------------------------------------
(* Properties                                                              *)

OnTheWay == {t \in Timers : pc[t] \in {"wait", "loop"} /\ t \notin ToSet(q_waiting)
                               /\ sched.p_state[t] # "SLEEPING" /\ rdymsg[t] = "OK"}

\* No byte is left behind: while readers wait, every byte in the queue has a
\* reader of its own that has been readied for it, also when the reader's time
\* ran out before it could run, or another reader took the byte first
\* (chqueues.c 151, chschd.c wakeup).
NoLostWakeup == q_waiting # <<>> => count <= Cardinality(OnTheWay)

\* A timer is armed exactly while its thread is inside the wait it belongs to:
\* one that outlived the wait would be a pointer into a stack frame that is
\* gone, one that is missing a thread that sleeps for ever (chschd.c 190-192).
TimerMatchesWait ==
    \A t \in Timers :
        /\ vt_func[t] => pc[t] = "wait"
        /\ sched.p_state[t] \in {"SLEEPING", "WTQUEUE"} =>
              pc[t] = "wait" /\ (vt_func[t] <=> time[t] # TIME_INFINITE)

\* How a wait ended is decided once: a byte that comes after the time is up,
\* or a time that is up after the byte came, does not change it before the
\* thread has run.
VerdictStands ==
    [][\A t \in Timers :
          sched.p_state[t] = "READY" /\ sched'.p_state[t] = "READY" => rdymsg'[t] = rdymsg[t]]_vars

\* Every wait with a time limit ends.
WaitsEnd == \A t \in Timers : vt_func[t] ~> sched.p_state[t] \in {"READY", "CURRENT"}
============================================================================
