------------------------------ MODULE SpiBus -------------------------------
(***************************************************************************)
(* Threads that share SPI buses: the mutex of each bus with priority       *)
(* inheritance (chmtx.c), the exchange that suspends its thread until the  *)
(* DMA interrupt (spi.c, spi.h), under the scheduler.  What the threads do *)
(* with a bus is what A4960.cpp and ADS1259.cpp do: acquire, exchange any  *)
(* number of times, release.  A thread that computes takes no step.        *)
(***************************************************************************)
EXTENDS Scheduler

CONSTANTS None,
          Buses,        \* numbers: a thread acquires buses in this order
          Uses,         \* thread -> the buses it uses
          ABSPRIO,      \* the highest priority there is
          RealPrios     \* the assignments of priorities to threads to be considered

ASSUME BusAssumption ==
    /\ None \notin Threads /\ Buses \subseteq Nat /\ None \notin Buses
    /\ Uses \in [Threads -> SUBSET Buses]
    /\ ABSPRIO \in Nat /\ RealPrios \subseteq [Threads -> 0..ABSPRIO]
    /\ \A p \in RealPrios, t \in Threads \ {Idle} : p[t] > p[Idle]

VARIABLES sched,       \* the scheduler's state
          isr,         \* in an interrupt, before the epilogue of the outermost one
          m_owner,     \* bus -> thread or None
          m_queue,     \* bus -> threads that wait for its mutex
          p_mtxlist,   \* thread -> the mutexes it owns, the last one first
          wtobj,       \* thread -> the mutex it waits for
          mp, tp,      \* chMtxLockS: the mutex to be taken (None outside), its loop's thread
          spi          \* bus -> state and thread of the driver

vars == <<sched, isr, m_owner, m_queue, p_mtxlist, wtobj, mp, tp, spi>>

me == sched.currp

\* chMtxLockS has the kernel lock: no interrupt falls into it.
Unlocked == mp = None
Running == Unlocked /\ ~isr /\ me # Idle

\* Mutation: the new owner does not list the mutex.
HandOverUnlisted(b) ==
    /\ m_owner' = [m_owner EXCEPT ![b] = IF m_queue[b] = <<>> THEN None ELSE Head(m_queue[b])]
    /\ m_queue' = [m_queue EXCEPT ![b] = IF @ = <<>> THEN @ ELSE Tail(@)]
    /\ p_mtxlist' = [p_mtxlist EXCEPT ![me] = Tail(@)]

\* Handing mutex b to the head of its queue, or to nobody.
HandOver(b) ==
    LET next == IF m_queue[b] = <<>> THEN None ELSE Head(m_queue[b])
    IN  /\ m_owner' = [m_owner EXCEPT ![b] = next]
        /\ m_queue' = [m_queue EXCEPT ![b] = IF @ = <<>> THEN @ ELSE Tail(@)]
        /\ p_mtxlist' = [t \in Threads |->
                            IF t = me THEN Tail(p_mtxlist[t])
                            ELSE IF t = next THEN <<b>> \o p_mtxlist[t]
                            ELSE p_mtxlist[t]]

\* Mutation: waiters of other mutexes are forgotten.
NewPrioOwn == sched.p_realprio[me]

\* The priority that remains to the running thread: its own or that of the
\* best waiter of a mutex it still owns.
NewPrio ==
    Max({sched.p_realprio[me]} \cup
        {sched.p_prio[Head(m_queue[b])] : b \in {c \in ToSet(Tail(p_mtxlist[me])) : m_queue[c] # <<>>}})

----------------------------------------------------------------------------
\* Every thread has been made ready; the best one runs.
Init ==
    \E prio \in RealPrios, order \in SetToSeqs(Threads) :
        /\ Ordered(order, prio) /\ sched = Started(order, prio)
        /\ isr = FALSE
        /\ m_owner = [b \in Buses |-> None]
        /\ m_queue = [b \in Buses |-> <<>>]
        /\ p_mtxlist = [t \in Threads |-> <<>>]
        /\ wtobj = [t \in Threads |-> None]
        /\ mp = None /\ tp = None
        /\ spi = [b \in Buses |-> [state |-> "READY", thread |-> None]]

\* spiAcquireBus of a bus that is free (chMtxLockS, the else branch).
AcquireFree(b) ==
    /\ Running /\ m_owner[b] = None
    /\ b \in Uses[me] /\ \A c \in ToSet(p_mtxlist[me]) : c < b
    /\ m_owner' = [m_owner EXCEPT ![b] = me]
    /\ p_mtxlist' = [p_mtxlist EXCEPT ![me] = <<b>> \o @]
    /\ UNCHANGED <<sched, isr, m_queue, wtobj, mp, tp, spi>>

\* spiAcquireBus of a bus that is taken: chMtxLockS looks at its owner.
AcquireTaken(b) ==
    /\ Running /\ m_owner[b] # None
    /\ b \in Uses[me] /\ \A c \in ToSet(p_mtxlist[me]) : c < b
    /\ mp' = b /\ tp' = m_owner[b]
    /\ UNCHANGED <<sched, isr, m_owner, m_queue, p_mtxlist, wtobj, spi>>

\* The condition of its loop.
Inherits == tp # None /\ sched.p_prio[tp] < sched.p_prio[me]

\* Mutation: the owner keeps its priority.
InheritNot ==
    /\ ~Unlocked /\ Inherits
    /\ tp' = None
    /\ UNCHANGED <<sched, isr, m_owner, m_queue, p_mtxlist, wtobj, mp, spi>>

\* Mutation: the owner keeps its place in the queue it is in.
InheritInPlace ==
    /\ ~Unlocked /\ Inherits
    /\ sched' = [sched EXCEPT !.p_prio[tp] = sched.p_prio[me]]
    /\ tp' = IF sched.p_state[tp] = "WTMTX" THEN m_owner[wtobj[tp]] ELSE None
    /\ UNCHANGED <<isr, m_owner, m_queue, p_mtxlist, wtobj, mp, spi>>

\* One round of the loop: thread tp gets the priority of the running thread
\* and its place in the queue it is in; if that is the queue of a mutex, the
\* owner of that is next.
Inherit ==
    /\ ~Unlocked /\ Inherits
    /\ LET prio == [sched.p_prio EXCEPT ![tp] = sched.p_prio[me]]
           Requeued(q) == PrioInsert(RemoveFirst(q, tp), tp, prio)
           waits == sched.p_state[tp] = "WTMTX"
           ready == sched.p_state[tp] = "READY"
       IN  /\ sched' = [sched EXCEPT !.p_prio = prio, !.rlist = IF ready THEN Requeued(@) ELSE @]
           /\ m_queue' = IF waits THEN [m_queue EXCEPT ![wtobj[tp]] = Requeued(@)] ELSE m_queue
           /\ tp' = IF waits THEN m_owner[wtobj[tp]] ELSE None
    /\ UNCHANGED <<isr, m_owner, p_mtxlist, wtobj, mp, spi>>

\* Behind the loop: the running thread sleeps on the mutex.
SleepOnMutex ==
    /\ ~Unlocked /\ ~Inherits
    /\ m_queue' = [m_queue EXCEPT ![mp] = PrioInsert(@, me, sched.p_prio)]
    /\ wtobj' = [wtobj EXCEPT ![me] = mp]
    /\ sched' = GoSleepS(sched, "WTMTX")
    /\ mp' = None /\ tp' = None
    /\ UNCHANGED <<isr, m_owner, p_mtxlist, spi>>

\* spiReleaseBus (chMtxUnlock): whatever the argument, the last mutex taken.
ReleaseBus(b) ==
    /\ Running /\ p_mtxlist[me] # <<>> /\ b = Head(p_mtxlist[me])
    /\ HandOver(b)
    /\ sched' = IF m_queue[b] = <<>> THEN sched
                ELSE WakeupS([sched EXCEPT !.p_prio[me] = NewPrio], Head(m_queue[b]))
    /\ UNCHANGED <<isr, wtobj, mp, tp, spi>>

\* spiExchange, spiSend, spiReceive, spiIgnore: the driver starts the DMA and
\* the thread is suspended.
Exchange(b) ==
    /\ Running /\ m_owner[b] = me
    /\ spi' = [spi EXCEPT ![b] = [state |-> "ACTIVE", thread |-> me]]
    /\ sched' = GoSleepS(sched, "SUSPENDED")
    /\ UNCHANGED <<isr, m_owner, m_queue, p_mtxlist, wtobj, mp, tp>>

\* Mutation: the driver's reference to the thread stays.
DmaDoneKeeping(b) ==
    /\ Unlocked /\ spi[b].state = "ACTIVE"
    /\ spi' = [spi EXCEPT ![b].state = "READY"]
    /\ sched' = IF spi[b].thread = None THEN sched ELSE ReadyI(sched, spi[b].thread)
    /\ isr' = TRUE
    /\ UNCHANGED <<m_owner, m_queue, p_mtxlist, wtobj, mp, tp>>

\* The DMA interrupt at the end of an exchange (_spi_isr_code).
DmaDone(b) ==
    /\ Unlocked /\ spi[b].state = "ACTIVE"
    /\ spi' = [spi EXCEPT ![b] = [state |-> "READY", thread |-> None]]
    /\ sched' = IF spi[b].thread = None THEN sched ELSE ReadyI(sched, spi[b].thread)
    /\ isr' = TRUE
    /\ UNCHANGED <<m_owner, m_queue, p_mtxlist, wtobj, mp, tp>>

\* A thread waits for something else, a point in time or a byte; the start of
\* the converter does so between acquire and release.
Pause ==
    /\ Running
    /\ sched' = GoSleepS(sched, "SLEEPING")
    /\ UNCHANGED <<isr, m_owner, m_queue, p_mtxlist, wtobj, mp, tp, spi>>

\* An interrupt ends such a wait.
Resume(t) ==
    /\ Unlocked /\ sched.p_state[t] = "SLEEPING"
    /\ sched' = ReadyI(sched, t)
    /\ isr' = TRUE
    /\ UNCHANGED <<m_owner, m_queue, p_mtxlist, wtobj, mp, tp, spi>>

Tick ==
    /\ Unlocked
    /\ sched' = QuantumTick(sched)
    /\ isr' = TRUE
    /\ UNCHANGED <<m_owner, m_queue, p_mtxlist, wtobj, mp, tp, spi>>

\* Interrupts nest and chain; the last one to end looks for a better thread.
Epilogue ==
    /\ isr
    /\ isr' = FALSE
    /\ sched' = IrqEpilogue(sched)
    /\ UNCHANGED <<m_owner, m_queue, p_mtxlist, wtobj, mp, tp, spi>>

Next ==
    \/ \E b \in Buses : AcquireFree(b) \/ AcquireTaken(b) \/ ReleaseBus(b) \/ Exchange(b) \/ DmaDone(b)
    \/ Inherit \/ SleepOnMutex
    \/ \E t \in Threads : Resume(t)
    \/ Pause \/ Tick \/ Epilogue

\* Interrupts are served, the timer does not stop, and a thread that has a bus
\* pauses for a time only; if it is given the processor again and again it
\* releases the bus in the end.
Fairness ==
    /\ []<><<Tick>>_vars
    /\ WF_vars(Epilogue) /\ WF_vars(Inherit) /\ WF_vars(SleepOnMutex)
    /\ \A b \in Buses : []<>(spi[b].state = "READY") /\ SF_vars(ReleaseBus(b))
    /\ \A t \in Threads : []<>(p_mtxlist[t] = <<>> \/ sched.p_state[t] # "SLEEPING")

Spec == Init /\ [][Next]_vars /\ Fairness

----------------------------------------------------------------------------
(* Properties                                                              *)

\* No two tables of the kernel disagree: a mutex is in its owner's list and in
\* no other, a thread is queued for one mutex exactly when it waits for it, it
\* is in the ready list exactly when it is ready (chmtx.c 121-187, 257-303).
TypeOK ==
    /\ sched.r_preempt \in 0..Quantum
    /\ \A t \in Threads : sched.p_prio[t] >= sched.p_realprio[t] /\ IsInjective(p_mtxlist[t])
    /\ ToSet(sched.rlist) = {t \in Threads : sched.p_state[t] = "READY"}
    /\ {t \in Threads : sched.p_state[t] = "CURRENT"} = {me}
    /\ \A t \in Threads, b \in Buses :
          /\ b \in ToSet(p_mtxlist[t]) <=> m_owner[b] = t
          /\ t \in ToSet(m_queue[b]) <=> sched.p_state[t] = "WTMTX" /\ wtobj[t] = b
    /\ \A b \in Buses : m_owner[b] = None => m_queue[b] = <<>>

\* Outside interrupts the running thread has the highest priority of all that
\* could run, whichever critical region has just raised, lowered, readied or
\* put to sleep a thread (chschd.c, chSchWakeupS and _port_irq_epilogue).
CurrentIsHighest == ~isr => HighestRuns(sched)

\* The ready list and the queues of the mutexes are in the order of priority,
\* also after a priority has changed under a thread that is in one of them
\* (chmtx.c 139-169).
QueuesOrdered ==
    /\ Ordered(sched.rlist, sched.p_prio)
    /\ \A b \in Buses : Ordered(m_queue[b], sched.p_prio)

\* A thread has the highest of its own priority and those of the threads that
\* wait for its mutexes, hence through chains of mutexes: never less
\* (inversion), and never a boost that has outlived its cause.
InheritsExactly ==
    Unlocked => \A t \in Threads :
        sched.p_prio[t] = Max({sched.p_realprio[t]} \cup
            {sched.p_prio[u] : u \in UNION {ToSet(m_queue[b]) : b \in ToSet(p_mtxlist[t])}})

\* An exchange under way belongs to the thread that has the bus and is
\* suspended for it; so no other thread can select a second chip, and the
\* assertions of spiExchange hold (spi.c 333, spi.h 240).
ExchangeIsOwners ==
    \A b \in Buses :
        /\ spi[b].state = "ACTIVE" <=> spi[b].thread # None
        /\ spi[b].thread # None =>
              spi[b].thread = m_owner[b] /\ sched.p_state[m_owner[b]] = "SUSPENDED"

Highest(prio) == {t \in Threads : \A u \in Threads : prio[u] <= prio[t]}
Urgent == UNION {Highest(p) : p \in RealPrios}
IsUrgent(t) == t \in Highest(sched.p_realprio)

\* A thread of the highest priority gets every bus it waits for, although
\* threads of lower priority than its own, and of higher than the owner's, may
\* compute for ever: no unbounded priority inversion (chmtx.c 129-171).
UrgentGetsBus ==
    \A t \in Urgent, b \in Buses :
        (IsUrgent(t) /\ t \in ToSet(m_queue[b])) ~> m_owner[b] = t

\* Threads of the highest priority take turns, also when none of them ever
\* blocks (CH_TIME_QUANTUM, chsys.c 133, chSchIsPreemptionRequired).
UrgentTakeTurns ==
    \A t \in Urgent : (IsUrgent(t) /\ sched.p_state[t] = "READY") ~> me = t
============================================================================
