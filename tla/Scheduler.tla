----------------------------- MODULE Scheduler -----------------------------
(***************************************************************************)
(* The scheduler of the kernel (chschd.c, chinline.h) as operators on the  *)
(* state k it works on:                                                    *)
(*   rlist      the ready list, best first, without the running thread     *)
(*   currp      the running thread                                         *)
(*   r_preempt  ticks left of the running thread's quantum                 *)
(*   p_prio     thread -> its present priority, p_realprio its own          *)
(*   p_state    thread -> its state                                        *)
(* Every operator is a critical region of the kernel.                      *)
(***************************************************************************)
EXTENDS Naturals, SequencesExt

CONSTANTS Threads, Idle,   \* the threads of the system, the idle thread among them
          Quantum          \* CH_TIME_QUANTUM

ASSUME ThreadsAssumption == IsFiniteSet(Threads) /\ Idle \in Threads
ASSUME QuantumAssumption == Quantum \in Nat \ {0}

\* The start: the threads in the order of the ready list, the first one runs.
Started(order, prio) ==
    [rlist |-> Tail(order), currp |-> Head(order), r_preempt |-> Quantum,
     p_prio |-> prio, p_realprio |-> prio,
     p_state |-> [t \in Threads |-> IF t = Head(order) THEN "CURRENT" ELSE "READY"]]

\* prio_insert and the loop of chSchReadyI: in front of the first thread with
\* a lower priority, so behind its equals.
PrioInsert(q, t, prio) ==
    LET p == SelectInSeq(q, LAMBDA u : prio[u] < prio[t])
    IN  IF p = 0 THEN Append(q, t) ELSE InsertAt(q, p, t)

\* chSchReadyI.
ReadyI(k, t) ==
    [k EXCEPT !.p_state[t] = "READY", !.rlist = PrioInsert(@, t, k.p_prio)]

\* The head of the ready list becomes the running thread.
Switched(k) ==
    [k EXCEPT !.currp = Head(k.rlist), !.rlist = Tail(@), !.r_preempt = Quantum,
              !.p_state[Head(k.rlist)] = "CURRENT"]

\* chSchGoSleepS.
GoSleepS(k, newstate) == Switched([k EXCEPT !.p_state[k.currp] = newstate])

\* chSchDoReschedule: the old thread goes behind its equals.
DoReschedule(k) == ReadyI(Switched(k), k.currp)

\* Mutation: the woken thread waits for the next reschedule.
WakeupSLazy(k, t) == ReadyI(k, t)

\* chSchWakeupS.
WakeupS(k, t) ==
    IF k.p_prio[t] <= k.p_prio[k.currp]
    THEN ReadyI(k, t)
    ELSE [ReadyI(k, k.currp) EXCEPT !.currp = t, !.r_preempt = Quantum,
                                    !.p_state[t] = "CURRENT"]

FirstPrio(k) == k.p_prio[Head(k.rlist)]

\* The ready list is empty only while the idle thread runs.
AnyReady(k) == k.rlist # <<>>

\* Mutation: equals never take turns.
PreemptionByPriority(k) == AnyReady(k) /\ FirstPrio(k) > k.p_prio[k.currp]

\* chSchIsPreemptionRequired.
IsPreemptionRequired(k) ==
    /\ AnyReady(k)
    /\ IF k.r_preempt > 0 THEN FirstPrio(k) > k.p_prio[k.currp]
                          ELSE FirstPrio(k) >= k.p_prio[k.currp]

\* The end of the outermost interrupt (_port_irq_epilogue).
IrqEpilogue(k) == IF IsPreemptionRequired(k) THEN DoReschedule(k) ELSE k

\* The part of chSysTimerHandlerI that concerns the scheduler.
QuantumTick(k) == [k EXCEPT !.r_preempt = IF @ > 0 THEN @ - 1 ELSE 0]

\* The highest priority runs; the ready list is in order.
HighestRuns(k) == \A i \in DOMAIN k.rlist : k.p_prio[k.rlist[i]] <= k.p_prio[k.currp]
Ordered(q, prio) == \A i, j \in DOMAIN q : i < j => prio[q[i]] >= prio[q[j]]
============================================================================
