---------------------------- MODULE SpiBusProofs ---------------------------
(***************************************************************************)
(* Priority inheritance, for every set of threads and of buses and all     *)
(* priorities: the best thread runs, the lists of the kernel agree and are *)
(* in order, and every priority is exactly what is inherited.              *)
(***************************************************************************)
EXTENDS SpiBus, SchedulerProofs

----------------------------------------------------------------------------
(* The invariant                                                           *)

\* The threads in the queue of mutex b.
Waiting(b) == {t \in Threads : Stop(sched, t) = "WTMTX" /\ wtobj[t] = b}

\* u waits for a mutex of t, or is about to.
WaitsFor(u, t) ==
    \/ \E b \in Buses : m_owner[b] = t /\ u \in Waiting(b)
    \/ ~Unlocked /\ u = me /\ m_owner[mp] = t

Bounded(t) == \A u \in Threads : WaitsFor(u, t) => sched.p_prio[u] <= sched.p_prio[t]
Earned(t) ==
    \/ sched.p_prio[t] = sched.p_realprio[t]
    \/ \E u \in Threads : WaitsFor(u, t) /\ sched.p_prio[u] = sched.p_prio[t]

Types ==
    /\ isr \in BOOLEAN
    /\ m_owner \in [Buses -> Threads \cup {None}]
    /\ m_queue \in [Buses -> Seq(Threads)]
    /\ p_mtxlist \in [Threads -> Seq(Buses)]
    /\ wtobj \in [Threads -> Buses \cup {None}]
    /\ mp \in Buses \cup {None}
    /\ tp \in Threads \cup {None}
    /\ spi \in [Buses -> [state : {"READY", "ACTIVE"}, thread : Threads \cup {None}]]

\* The kernel lock is held by chMtxLockS only.
LockHeld ==
    /\ Unlocked => tp = None
    /\ ~Unlocked => ~isr /\ me # Idle /\ m_owner[mp] # None /\ m_owner[mp] # me

Lists ==
    /\ \A b \in Buses : Queue(Threads, m_queue[b], Waiting(b), sched.p_prio)
    /\ \A b \in Buses : m_owner[b] = None => Waiting(b) = {}
    /\ \A t \in Threads : Stop(sched, t) = "WTMTX" => wtobj[t] # None
    /\ \A t \in Threads : IsInjective(p_mtxlist[t]) /\ ToSet(p_mtxlist[t]) = {b \in Buses : m_owner[b] = t}

\* Every priority is inherited exactly, but for the thread that the loop of
\* chMtxLockS will look at next.
Priorities ==
    /\ \A t \in Threads : sched.p_realprio[t] <= sched.p_prio[t] /\ sched.p_prio[t] <= ABSPRIO
    /\ \A t \in Threads : t # tp => Bounded(t) /\ Earned(t)
    /\ tp # None =>
          /\ \A u \in Threads : WaitsFor(u, tp) => \/ sched.p_prio[u] <= sched.p_prio[tp]
                                                  \/ sched.p_prio[u] <= sched.p_prio[me]
          /\ Earned(tp) \/ sched.p_prio[tp] < sched.p_prio[me]
          /\ \E u \in Threads : WaitsFor(u, tp) /\ sched.p_prio[u] = sched.p_prio[me]

Exchanges ==
    /\ \A b \in Buses :
          /\ spi[b].state = "ACTIVE" <=> spi[b].thread # None
          /\ spi[b].thread # None =>
                spi[b].thread = m_owner[b] /\ Stop(sched, spi[b].thread) = "SUSPENDED"
    /\ \A b, c \in Buses : spi[b].thread # None /\ spi[b].thread = spi[c].thread => b = c

BusInv ==
    /\ Types /\ SchedInv(sched) /\ (~isr => HighestReady(sched))
    /\ LockHeld /\ Lists /\ Priorities /\ Exchanges

----------------------------------------------------------------------------
(* Lists of mutexes                                                        *)

LEMMA ListPush ==
    ASSUME NEW T, NEW q \in Seq(T), NEW t \in T, IsInjective(q), t \notin ToSet(q)
    PROVE  <<t>> \o q \in Seq(T) /\ IsInjective(<<t>> \o q) /\ ToSet(<<t>> \o q) = ToSet(q) \cup {t}
<1> DEFINE r == <<t>> \o q
<1>1. <<t>> \in Seq(T) /\ Len(<<t>>) = 1 /\ <<t>>[1] = t /\ Len(q) \in Nat
  OBVIOUS
<1>2. /\ r \in Seq(T) /\ Len(r) = 1 + Len(q)
      /\ \A i \in 1..(1 + Len(q)) : r[i] = IF i <= 1 THEN t ELSE q[i - 1]
  BY <1>1, ConcatProperties
<1> HIDE DEF r
<1>3. Inserts(q, t, 1, r) /\ 1 \in 1..(Len(q) + 1)
  BY <1>1, <1>2 DEF Inserts
<1>4. ToSet(r) = ToSet(q) \cup {t} /\ IsInjective(r)
  BY <1>2, <1>3, InsertedMembers, InsertedInjective
<1> QED
  BY <1>2, <1>4 DEF r

LEMMA ListPop ==
    ASSUME NEW T, NEW q \in Seq(T), IsInjective(q), q # <<>>
    PROVE  /\ Head(q) \in ToSet(q) /\ Tail(q) \in Seq(T)
           /\ IsInjective(Tail(q)) /\ ToSet(Tail(q)) = ToSet(q) \ {Head(q)}
<1>1. Len(q) \in Nat \ {0} /\ Head(q) = q[1] /\ 1 \in 1..Len(q)
  BY EmptySeq
<1> DEFINE r == Tail(q)
<1>2. /\ r \in Seq(T) /\ Len(r) = Len(q) - 1
      /\ \A i \in 1..(Len(q) - 1) : r[i] = q[i + 1]
  BY HeadTailProperties
<1> HIDE DEF r
<1>3. Removes(q, 1, r)
  BY <1>1, <1>2 DEF Removes
<1>4. ToSet(r) = ToSet(q) \ {q[1]} /\ IsInjective(r)
  BY <1>1, <1>2, <1>3, RemovedMembers, RemovedInjective
<1>5. Head(q) \in ToSet(q)
  <2>1. DOMAIN q = 1..Len(q)
    OBVIOUS
  <2> QED
    BY <1>1, <2>1 DEF ToSet
<1> QED
  BY <1>1, <1>2, <1>4, <1>5 DEF r

----------------------------------------------------------------------------
(* Steps that leave the mutexes alone                                      *)

LEMMA OutsideKeeps ==
    ASSUME BusInv, Unlocked, UNCHANGED <<m_owner, m_queue, p_mtxlist, wtobj, mp, tp>>,
           SchedInv(sched'), SamePrio(sched, sched'),
           \A u \in Threads : Stop(sched', u) = "WTMTX" <=> Stop(sched, u) = "WTMTX"
    PROVE  LockHeld' /\ Lists' /\ Priorities'
<1>1. tp = None /\ tp' = None /\ Unlocked'
  BY DEF BusInv, LockHeld, Unlocked
<1>2. LockHeld'
  BY <1>1 DEF LockHeld
<1>3. \A b : Waiting(b)' = Waiting(b)
  BY DEF Waiting
<1>4. \A u, t : WaitsFor(u, t)' <=> WaitsFor(u, t)
  BY <1>1, <1>3 DEF WaitsFor
<1>5. sched'.p_prio = sched.p_prio /\ sched'.p_realprio = sched.p_realprio
  BY DEF SamePrio
<1>6. Lists'
  BY <1>3, <1>5 DEF BusInv, Lists
<1>7. \A t : (Bounded(t)' <=> Bounded(t)) /\ (Earned(t)' <=> Earned(t))
  BY <1>4, <1>5 DEF Bounded, Earned
<1>8. Priorities'
  BY <1>1, <1>5, <1>7 DEF BusInv, Priorities
<1> QED
  BY <1>2, <1>6, <1>8

LEMMA ExchangesKept ==
    ASSUME Exchanges, UNCHANGED <<m_owner, spi>>, Types,
           \A u \in Threads : Stop(sched, u) = "SUSPENDED" => Stop(sched', u) = "SUSPENDED"
    PROVE  Exchanges'
BY DEF Exchanges, Types

LEMMA TickStep == BusInv /\ Tick => BusInv'
<1> SUFFICES ASSUME BusInv, Tick PROVE BusInv'
  OBVIOUS
<1>1. SchedInv(sched') /\ SamePrio(sched, sched') /\ \A u \in Threads : Stop(sched', u) = Stop(sched, u)
  BY TickKeeps DEF BusInv, Tick
<1>2. LockHeld' /\ Lists' /\ Priorities'
  BY <1>1, OutsideKeeps DEF Tick
<1>3. Exchanges'
  BY <1>1, ExchangesKept DEF BusInv, Tick
<1>4. Types' /\ isr'
  BY DEF BusInv, Types, Tick
<1> QED
  BY <1>1, <1>2, <1>3, <1>4 DEF BusInv

LEMMA EpilogueStep == BusInv /\ Epilogue => BusInv'
<1> SUFFICES ASSUME BusInv, Epilogue PROVE BusInv'
  OBVIOUS
<1>1. /\ SchedInv(sched') /\ SamePrio(sched, sched') /\ HighestReady(sched')
      /\ \A u \in Threads : Stop(sched', u) = Stop(sched, u)
  BY EpilogueKeeps DEF BusInv, Epilogue
<1>2. Unlocked
  BY DEF BusInv, LockHeld, Epilogue
<1>3. LockHeld' /\ Lists' /\ Priorities'
  BY <1>1, <1>2, OutsideKeeps DEF Epilogue
<1>4. Exchanges'
  BY <1>1, ExchangesKept DEF BusInv, Epilogue
<1>5. Types'
  BY DEF BusInv, Types, Epilogue
<1> QED
  BY <1>1, <1>3, <1>4, <1>5 DEF BusInv

LEMMA PauseStep == BusInv /\ Pause => BusInv'
<1> SUFFICES ASSUME BusInv, Pause PROVE BusInv'
  OBVIOUS
<1>1. /\ SchedInv(sched') /\ SamePrio(sched, sched') /\ HighestReady(sched')
      /\ Stop(sched', me) = "SLEEPING"
      /\ \A u \in Threads \ {me} : Stop(sched', u) = Stop(sched, u)
  <2>1. "SLEEPING" \in Stopped
    BY DEF Stopped
  <2> QED
    BY <2>1, GoSleepKeeps DEF BusInv, Pause, Running, me
<1>2. Stop(sched, me) = "runs"
  BY CurrentRuns DEF BusInv, me
<1>3. LockHeld' /\ Lists' /\ Priorities'
  BY <1>1, <1>2, OutsideKeeps DEF Pause, Running
<1>4. Exchanges'
  BY <1>1, <1>2, ExchangesKept DEF BusInv, Pause
<1>5. Types'
  BY DEF BusInv, Types, Pause
<1> QED
  BY <1>1, <1>3, <1>4, <1>5 DEF BusInv

LEMMA ResumeStep == ASSUME NEW t \in Threads PROVE BusInv /\ Resume(t) => BusInv'
<1> SUFFICES ASSUME BusInv, Resume(t) PROVE BusInv'
  OBVIOUS
<1>1. sched.p_state[t] \in Stopped /\ Stop(sched, t) = "SLEEPING"
  BY DEF Resume, Stopped, Stop
<1>2. /\ SchedInv(sched') /\ SamePrio(sched, sched')
      /\ Stop(sched', t) = "runs"
      /\ \A u \in Threads \ {t} : Stop(sched', u) = Stop(sched, u)
  BY <1>1, ReadyIKeeps DEF BusInv, Resume
<1>3. LockHeld' /\ Lists' /\ Priorities'
  BY <1>1, <1>2, OutsideKeeps DEF Resume
<1>4. Exchanges'
  BY <1>1, <1>2, ExchangesKept DEF BusInv, Resume
<1>5. Types' /\ isr'
  BY DEF BusInv, Types, Resume
<1> QED
  BY <1>2, <1>3, <1>4, <1>5 DEF BusInv

LEMMA ExchangeStep == ASSUME NEW b \in Buses PROVE BusInv /\ Exchange(b) => BusInv'
<1> SUFFICES ASSUME BusInv, Exchange(b) PROVE BusInv'
  OBVIOUS
<1>1. /\ SchedInv(sched') /\ SamePrio(sched, sched') /\ HighestReady(sched')
      /\ Stop(sched', me) = "SUSPENDED"
      /\ \A u \in Threads \ {me} : Stop(sched', u) = Stop(sched, u)
  <2>1. "SUSPENDED" \in Stopped
    BY DEF Stopped
  <2> QED
    BY <2>1, GoSleepKeeps DEF BusInv, Exchange, Running, me
<1>2. Stop(sched, me) = "runs" /\ me \in Threads
  BY CurrentRuns DEF BusInv, me
<1>3. LockHeld' /\ Lists' /\ Priorities'
  BY <1>1, <1>2, OutsideKeeps DEF Exchange, Running
<1>4. spi' = [spi EXCEPT ![b] = [state |-> "ACTIVE", thread |-> me]] /\ m_owner' = m_owner /\ m_owner[b] = me
  BY DEF Exchange
<1>5. Types'
  BY <1>2, <1>4 DEF BusInv, Types, Exchange
<1>6. ASSUME NEW c \in Buses, spi[c].thread = me
      PROVE  FALSE
  <2>1. me # None
    BY <1>2, BusAssumption
  <2>2. Stop(sched, spi[c].thread) = "SUSPENDED"
    BY <1>6, <2>1 DEF BusInv, Exchanges
  <2> QED
    BY <1>2, <1>6, <2>2
<1>7. Exchanges'
  <2>1. \A c \in Buses : spi'[c] = IF c = b THEN [state |-> "ACTIVE", thread |-> me] ELSE spi[c]
    BY <1>4 DEF BusInv, Types
  <2>2. \A c \in Buses : spi[c].thread \in Threads \cup {None}
    BY DEF BusInv, Types
  <2> QED
    BY <1>1, <1>2, <1>4, <1>6, <2>1, <2>2, BusAssumption DEF BusInv, Exchanges
<1> QED
  BY <1>1, <1>3, <1>5, <1>7 DEF BusInv

LEMMA DmaDoneStep == ASSUME NEW b \in Buses PROVE BusInv /\ DmaDone(b) => BusInv'
<1> SUFFICES ASSUME BusInv, DmaDone(b) PROVE BusInv'
  OBVIOUS
<1> DEFINE t == spi[b].thread
<1>1. t \in Threads /\ Stop(sched, t) = "SUSPENDED" /\ t # None
  BY BusAssumption DEF BusInv, DmaDone, Exchanges, Types
<1>2. sched.p_state[t] \in Stopped
  BY <1>1 DEF Stop, Stopped
<1>3. /\ SchedInv(sched') /\ SamePrio(sched, sched')
      /\ Stop(sched', t) = "runs"
      /\ \A u \in Threads \ {t} : Stop(sched', u) = Stop(sched, u)
  <2>1. sched' = ReadyI(sched, t)
    BY <1>1 DEF DmaDone
  <2> HIDE DEF t
  <2> QED
    BY <1>1, <1>2, <2>1, ReadyIKeeps DEF BusInv
<1>4. LockHeld' /\ Lists' /\ Priorities'
  BY <1>1, <1>3, OutsideKeeps DEF DmaDone
<1>5. spi' = [spi EXCEPT ![b] = [state |-> "READY", thread |-> None]] /\ m_owner' = m_owner
  BY DEF DmaDone
<1>6. Types' /\ isr'
  BY <1>5 DEF BusInv, Types, DmaDone
<1>7. Exchanges'
  <2>1. \A c \in Buses : spi'[c] = IF c = b THEN [state |-> "READY", thread |-> None] ELSE spi[c]
    BY <1>5 DEF BusInv, Types
  <2>2. \A c \in Buses : spi[c].thread \in Threads \cup {None}
    BY DEF BusInv, Types
  <2>3. \A c \in Buses \ {b} : spi[c].thread # t
    BY <1>1 DEF BusInv, Exchanges
  <2> QED
    BY <1>1, <1>3, <1>5, <2>1, <2>2, <2>3, BusAssumption DEF BusInv, Exchanges
<1> QED
  BY <1>3, <1>4, <1>6, <1>7 DEF BusInv

----------------------------------------------------------------------------
(* Taking a mutex                                                          *)

LEMMA AcquireFreeStep == ASSUME NEW b \in Buses PROVE BusInv /\ AcquireFree(b) => BusInv'
<1> SUFFICES ASSUME BusInv, AcquireFree(b) PROVE BusInv'
  OBVIOUS
<1>1. me \in Threads /\ me # None
  BY CurrentRuns, BusAssumption DEF BusInv, me
<1>2. /\ m_owner' = [m_owner EXCEPT ![b] = me] /\ m_owner[b] = None
      /\ p_mtxlist' = [p_mtxlist EXCEPT ![me] = <<b>> \o p_mtxlist[me]]
      /\ \A c \in ToSet(p_mtxlist[me]) : c < b
      /\ UNCHANGED <<sched, isr, m_queue, wtobj, mp, tp, spi>>
      /\ Unlocked
  BY DEF AcquireFree, Running
<1>3. Types
  BY DEF BusInv
<1>4. \A c \in Buses : m_owner'[c] = IF c = b THEN me ELSE m_owner[c]
  BY <1>2, <1>3 DEF Types
<1>5. Unlocked' /\ tp = None /\ tp' = None
  BY <1>2 DEF BusInv, LockHeld, Unlocked
<1>6. p_mtxlist[me] \in Seq(Buses) /\ IsInjective(p_mtxlist[me]) /\ b \notin ToSet(p_mtxlist[me])
  BY <1>1, <1>2, <1>3, BusAssumption DEF BusInv, Types, Lists
<1> DEFINE l == <<b>> \o p_mtxlist[me]
<1>7. l \in Seq(Buses) /\ IsInjective(l) /\ ToSet(l) = ToSet(p_mtxlist[me]) \cup {b}
  BY <1>6, ListPush
<1> HIDE DEF l
<1>8. \A t \in Threads : p_mtxlist'[t] = IF t = me THEN l ELSE p_mtxlist[t]
  BY <1>1, <1>2, <1>3 DEF Types, l
<1>9. Types'
  <2>1. m_owner' \in [Buses -> Threads \cup {None}]
    BY <1>1, <1>2, <1>3 DEF Types
  <2>2. p_mtxlist' \in [Threads -> Seq(Buses)]
    BY <1>2, <1>3, <1>7 DEF Types, l
  <2> QED
    BY <1>2, <1>3, <2>1, <2>2 DEF Types
<1>10. Waiting(b) = {} /\ \A c : Waiting(c)' = Waiting(c)
  BY <1>2 DEF BusInv, Lists, Waiting
<1>11. ASSUME NEW u \in Threads, NEW t \in Threads
       PROVE  WaitsFor(u, t)' <=> WaitsFor(u, t)
  BY <1>2, <1>4, <1>5, <1>10 DEF WaitsFor
<1>12. \A t \in Threads : (Bounded(t)' <=> Bounded(t)) /\ (Earned(t)' <=> Earned(t))
  BY <1>2, <1>11 DEF Bounded, Earned
<1>13. Priorities'
  BY <1>2, <1>5, <1>12 DEF BusInv, Priorities
<1>14. Lists'
  <2>1. ASSUME NEW t \in Threads
        PROVE  IsInjective(p_mtxlist'[t]) /\ ToSet(p_mtxlist'[t]) = {c \in Buses : m_owner'[c] = t}
    <3>1. IsInjective(p_mtxlist[t]) /\ ToSet(p_mtxlist[t]) = {c \in Buses : m_owner[c] = t}
      BY DEF BusInv, Lists
    <3>2. CASE t = me
      BY <1>1, <1>2, <1>4, <1>7, <1>8, <3>1, <3>2
    <3>3. CASE t # me
      <4>1. t # None
        BY BusAssumption
      <4> QED
        BY <1>2, <1>4, <1>8, <3>1, <3>3, <4>1
    <3> QED
      BY <3>2, <3>3
  <2>2. \A c \in Buses : m_owner'[c] = None => Waiting(c)' = {}
    BY <1>1, <1>4, <1>10 DEF BusInv, Lists
  <2>3. \A c \in Buses : Queue(Threads, m_queue'[c], Waiting(c)', sched'.p_prio)
    BY <1>2, <1>10 DEF BusInv, Lists
  <2> QED
    BY <1>2, <2>1, <2>2, <2>3 DEF BusInv, Lists
<1>15. Exchanges'
  BY <1>2, <1>4 DEF BusInv, Exchanges
<1>16. LockHeld' /\ SchedInv(sched') /\ (~isr' => HighestReady(sched'))
  BY <1>2, <1>5 DEF BusInv, LockHeld
<1> QED
  BY <1>9, <1>13, <1>14, <1>15, <1>16 DEF BusInv

LEMMA AcquireTakenStep == ASSUME NEW b \in Buses PROVE BusInv /\ AcquireTaken(b) => BusInv'
<1> SUFFICES ASSUME BusInv, AcquireTaken(b) PROVE BusInv'
  OBVIOUS
<1>1. me \in Threads /\ me # None /\ Stop(sched, me) = "runs"
  BY CurrentRuns, BusAssumption DEF BusInv, me
<1>2. /\ m_owner[b] # None /\ mp' = b /\ tp' = m_owner[b]
      /\ \A c \in ToSet(p_mtxlist[me]) : c < b
      /\ UNCHANGED <<sched, isr, m_owner, m_queue, p_mtxlist, wtobj, spi>>
      /\ Unlocked /\ ~isr /\ me # Idle
  BY DEF AcquireTaken, Running
<1>3. m_owner[b] \in Threads
  BY <1>2 DEF BusInv, Types
<1>4. m_owner[b] # me
  <2>1. b \notin ToSet(p_mtxlist[me])
    BY <1>2, BusAssumption
  <2> QED
    BY <1>1, <2>1 DEF BusInv, Lists
<1>5. tp = None /\ ~Unlocked' /\ me' = me
  BY <1>2, BusAssumption DEF BusInv, LockHeld, Unlocked, me
<1>6. LockHeld'
  BY <1>2, <1>4, <1>5 DEF LockHeld
<1>7. Types'
  BY <1>2, <1>3 DEF BusInv, Types
<1>8. \A c : Waiting(c)' = Waiting(c)
  BY <1>2 DEF Waiting
<1>9. Lists'
  BY <1>2, <1>8 DEF BusInv, Lists
<1>10. Exchanges'
  BY <1>2 DEF BusInv, Exchanges
<1>11. ASSUME NEW u \in Threads, NEW t \in Threads
       PROVE  WaitsFor(u, t)' <=> WaitsFor(u, t) \/ (u = me /\ t = m_owner[b])
  BY <1>2, <1>5, <1>8 DEF WaitsFor
<1>12. Priorities'
  <2>1. sched' = sched /\ sched.p_prio \in [Threads -> Nat] /\ \A t \in Threads : Bounded(t) /\ Earned(t)
    BY <1>2, <1>5, BusAssumption, CurrentRuns DEF BusInv, Priorities
  <2>2. ASSUME NEW t \in Threads, t # m_owner[b]
        PROVE  Bounded(t)' /\ Earned(t)'
    <3>1. \A u \in Threads : WaitsFor(u, t)' <=> WaitsFor(u, t)
      BY <1>2, <1>11, <2>2
    <3> QED
      BY <2>1, <3>1 DEF Bounded, Earned
  <2>3. \A u \in Threads : WaitsFor(u, m_owner[b])' => \/ sched.p_prio[u] <= sched.p_prio[m_owner[b]]
                                                       \/ sched.p_prio[u] <= sched.p_prio[me]
    BY <1>1, <1>2, <1>3, <1>11, <2>1 DEF Bounded
  <2>4. Earned(m_owner[b])'
    BY <1>2, <1>3, <1>11, <2>1 DEF Earned
  <2> QED
    BY <1>1, <1>2, <1>3, <1>5, <1>11, <2>1, <2>2, <2>3, <2>4 DEF Priorities, BusInv
<1> QED
  BY <1>2, <1>6, <1>7, <1>9, <1>10, <1>12 DEF BusInv

LEMMA SleepOnMutexStep == BusInv /\ SleepOnMutex => BusInv'
<1> SUFFICES ASSUME BusInv, SleepOnMutex PROVE BusInv'
  OBVIOUS
<1>1. me \in Threads /\ Stop(sched, me) = "runs" /\ sched.p_prio \in [Threads -> Nat]
  BY CurrentRuns DEF BusInv, me
<1>2. /\ ~Unlocked /\ ~Inherits /\ mp \in Buses /\ mp # None /\ m_owner[mp] # None
      /\ m_queue' = [m_queue EXCEPT ![mp] = PrioInsert(m_queue[mp], me, sched.p_prio)]
      /\ wtobj' = [wtobj EXCEPT ![me] = mp]
      /\ UNCHANGED <<isr, m_owner, p_mtxlist, spi>>
      /\ mp' = None /\ tp' = None /\ Unlocked'
  BY DEF BusInv, LockHeld, Types, SleepOnMutex, Unlocked
<1>3. /\ SchedInv(sched') /\ SamePrio(sched, sched') /\ HighestReady(sched')
      /\ Stop(sched', me) = "WTMTX"
      /\ \A u \in Threads \ {me} : Stop(sched', u) = Stop(sched, u)
  <2>1. "WTMTX" \in Stopped
    BY DEF Stopped
  <2> QED
    BY <1>2, <2>1, GoSleepKeeps DEF BusInv, LockHeld, SleepOnMutex, me
<1>4. sched'.p_prio = sched.p_prio /\ sched'.p_realprio = sched.p_realprio
  BY <1>3 DEF SamePrio
<1>5. \A u \in Threads : wtobj'[u] = IF u = me THEN mp ELSE wtobj[u]
  BY <1>2 DEF BusInv, Types
<1>6. \A c \in Buses : /\ Waiting(c)' = Waiting(c) \cup (IF c = mp THEN {me} ELSE {})
                       /\ me \notin Waiting(c)
  BY <1>1, <1>3, <1>5 DEF Waiting
<1>7. ASSUME NEW u \in Threads, NEW t \in Threads
      PROVE  WaitsFor(u, t)' <=> WaitsFor(u, t)
  BY <1>2, <1>6 DEF WaitsFor
<1>8. Priorities'
  <2>1. \A t \in Threads : (Bounded(t)' <=> Bounded(t)) /\ (Earned(t)' <=> Earned(t))
    BY <1>4, <1>7 DEF Bounded, Earned
  <2>2. CASE tp # None
    <3>1. tp \in Threads /\ ~(sched.p_prio[tp] < sched.p_prio[me])
      BY <1>2, <2>2 DEF Inherits, BusInv, Types
    <3>2. Earned(tp)
      BY <2>2, <3>1 DEF BusInv, Priorities
    <3>3. Bounded(tp)
      <4>1. ASSUME NEW u \in Threads, WaitsFor(u, tp)
            PROVE  sched.p_prio[u] <= sched.p_prio[tp]
        <5>1. sched.p_prio[u] \in Nat /\ sched.p_prio[tp] \in Nat /\ sched.p_prio[me] \in Nat
          BY <1>1, <3>1
        <5>2. sched.p_prio[u] <= sched.p_prio[tp] \/ sched.p_prio[u] <= sched.p_prio[me]
          BY <2>2, <4>1 DEF BusInv, Priorities
        <5> QED
          BY <3>1, <5>1, <5>2
      <4> QED
        BY <4>1 DEF Bounded
    <3> QED
      BY <1>2, <1>4, <2>1, <3>2, <3>3 DEF BusInv, Priorities
  <2>3. CASE tp = None
    BY <1>2, <1>4, <2>1, <2>3, BusAssumption DEF BusInv, Priorities
  <2> QED
    BY <2>2, <2>3
<1>9. Lists'
  <2>1. ASSUME NEW c \in Buses
        PROVE  Queue(Threads, m_queue'[c], Waiting(c)', sched'.p_prio)
    <3>1. Queue(Threads, m_queue[c], Waiting(c), sched.p_prio)
      BY DEF BusInv, Lists
    <3>2. CASE c = mp
      <4>1. me \in Threads \ Waiting(c)
        BY <1>1, <1>6
      <4>2. Queue(Threads, PrioInsert(m_queue[c], me, sched.p_prio), Waiting(c) \cup {me}, sched.p_prio)
        BY <1>1, <3>1, <4>1, QueueInsert
      <4>3. m_queue'[c] = PrioInsert(m_queue[c], me, sched.p_prio)
        BY <1>2, <3>2 DEF BusInv, Types
      <4> QED
        BY <1>4, <1>6, <3>2, <4>2, <4>3
    <3>3. CASE c # mp
      BY <1>2, <1>4, <1>6, <3>1, <3>3 DEF BusInv, Types
    <3> QED
      BY <3>2, <3>3
  <2>2. \A c \in Buses : m_owner'[c] = None => Waiting(c)' = {}
    BY <1>2, <1>6 DEF BusInv, Lists
  <2>3. \A t \in Threads : Stop(sched', t) = "WTMTX" => wtobj'[t] # None
    BY <1>2, <1>3, <1>5 DEF BusInv, Lists
  <2> QED
    BY <1>2, <2>1, <2>2, <2>3 DEF BusInv, Lists
<1>10. Exchanges'
  BY <1>1, <1>2, <1>3, ExchangesKept DEF BusInv
<1>11. Types'
  <2>1. \A c \in Buses : m_queue'[c] \in Seq(Threads)
    BY <1>9 DEF Lists, Queue
  <2>2. m_queue' = [c \in Buses |-> m_queue'[c]]
    BY <1>2 DEF BusInv, Types
  <2>3. m_queue' \in [Buses -> Seq(Threads)]
    BY <2>1, <2>2
  <2> QED
    BY <1>1, <1>2, <2>3 DEF BusInv, Types
<1>12. LockHeld'
  BY <1>2 DEF LockHeld
<1> QED
  BY <1>3, <1>8, <1>9, <1>10, <1>11, <1>12 DEF BusInv

----------------------------------------------------------------------------
(* One round of the loop of chMtxLockS                                     *)

Requeue(q, t, prio) == PrioInsert(RemoveFirst(q, t), t, prio)

LEMMA QueueRequeue ==
    ASSUME NEW T, NEW q, NEW S \in SUBSET T, NEW prio, NEW new \in [T -> Nat], NEW t \in S,
           Queue(T, q, S, prio), \A u \in S \ {t} : new[u] = prio[u]
    PROVE  Queue(T, Requeue(q, t, new), S, new)
<1>1. Queue(T, RemoveFirst(q, t), S \ {t}, prio)
  BY QueueRemove
<1>2. Queue(T, RemoveFirst(q, t), S \ {t}, new)
  BY <1>1, QueueSame
<1>3. t \in T \ (S \ {t}) /\ (S \ {t}) \cup {t} = S
  OBVIOUS
<1>4. Queue(T, PrioInsert(RemoveFirst(q, t), t, new), (S \ {t}) \cup {t}, new)
  BY <1>2, <1>3, QueueInsert
<1> QED
  BY <1>3, <1>4 DEF Requeue

\* k with the priority of t changed and l for its ready list.
Raised(k, t, p, l) == [k EXCEPT !.p_prio = [k.p_prio EXCEPT ![t] = p], !.rlist = l]

LEMMA RaiseKeeps ==
    ASSUME NEW k, NEW t \in Threads \ {k.currp}, NEW p, SchedInv(k), HighestReady(k),
           p = k.p_prio[k.currp], NEW l,
           l = IF k.p_state[t] = "READY" THEN Requeue(k.rlist, t, [k.p_prio EXCEPT ![t] = p])
               ELSE k.rlist
    PROVE  LET n == Raised(k, t, p, l)
           IN  /\ SchedInv(n) /\ HighestReady(n)
               /\ n.currp = k.currp /\ n.p_realprio = k.p_realprio
               /\ n.p_prio = [k.p_prio EXCEPT ![t] = p]
               /\ \A u \in Threads : Stop(n, u) = Stop(k, u)
<1>1. /\ k.currp \in Threads /\ k.currp \notin Ready(k)
      /\ k.p_prio \in [Threads -> Nat] /\ k.p_prio[k.currp] \in Nat
      /\ Queue(Threads, k.rlist, Ready(k), k.p_prio)
      /\ k \in SchedType
  BY CurrentRuns
<1> DEFINE prio == [k.p_prio EXCEPT ![t] = p]
           n == Raised(k, t, p, l)
<1>2. prio \in [Threads -> Nat] /\ \A u \in Threads : prio[u] = IF u = t THEN p ELSE k.p_prio[u]
  BY <1>1
<1>3. Queue(Threads, l, Ready(k), prio)
  <2> HIDE DEF prio
  <2>1. CASE k.p_state[t] = "READY"
    <3>1. t \in Ready(k) /\ Ready(k) \in SUBSET Threads /\ l = Requeue(k.rlist, t, prio)
      BY <2>1 DEF Ready, prio
    <3>2. \A u \in Ready(k) \ {t} : prio[u] = k.p_prio[u]
      BY <1>2 DEF Ready
    <3> QED
      BY <1>1, <1>2, <3>1, <3>2, QueueRequeue
  <2>2. CASE k.p_state[t] # "READY"
    <3>1. \A u \in Ready(k) : prio[u] = k.p_prio[u]
      BY <1>2, <2>2 DEF Ready
    <3> QED
      BY <1>1, <2>2, <3>1, QueueSame
  <2> QED
    BY <2>1, <2>2
<1>4. /\ n \in SchedType /\ n.rlist = l /\ n.currp = k.currp /\ n.p_prio = prio
      /\ n.p_realprio = k.p_realprio /\ n.p_state = k.p_state
  <2>1. l \in Seq(Threads)
    BY <1>3 DEF Queue
  <2> QED
    BY <1>1, <1>2, <2>1 DEF SchedType, Raised
<1> HIDE DEF n, prio
<1>5. Ready(n) = Ready(k) /\ \A u \in Threads : Stop(n, u) = Stop(k, u)
  BY <1>4 DEF Ready, Stop
<1>6. SchedInv(n)
  BY <1>3, <1>4, <1>5 DEF SchedInv
<1>7. HighestReady(n)
  BY <1>1, <1>2, <1>4, <1>5 DEF HighestReady, Ready
<1> QED
  BY <1>4, <1>5, <1>6, <1>7 DEF n, prio

\* The thread the loop looks at next.
NextOwner == IF sched.p_state[tp] = "WTMTX" THEN m_owner[wtobj[tp]] ELSE None

LEMMA InheritSched ==
    ASSUME BusInv, Inherit
    PROVE  /\ tp \in Threads \ {me} /\ sched.p_prio[tp] < sched.p_prio[me]
           /\ me \in Threads /\ sched.p_prio \in [Threads -> Nat]
           /\ SchedInv(sched') /\ HighestReady(sched') /\ me' = me
           /\ sched'.p_realprio = sched.p_realprio
           /\ sched'.p_prio = [sched.p_prio EXCEPT ![tp] = sched.p_prio[me]]
           /\ \A u \in Threads : Stop(sched', u) = Stop(sched, u)
           /\ tp' = NextOwner /\ NextOwner \in Threads \cup {None}
           /\ UNCHANGED <<isr, m_owner, p_mtxlist, wtobj, mp, spi>> /\ ~Unlocked /\ ~isr
           /\ sched.p_state[tp] = "WTMTX" => wtobj[tp] \in Buses
           /\ sched.p_state[tp] = "WTMTX" <=> Stop(sched, tp) = "WTMTX"
<1>1. me \in Threads /\ sched.p_prio \in [Threads -> Nat]
  BY CurrentRuns DEF BusInv, me
<1>2. ~Unlocked /\ tp # None /\ sched.p_prio[tp] < sched.p_prio[me]
      /\ UNCHANGED <<isr, m_owner, p_mtxlist, wtobj, mp, spi>> /\ tp' = NextOwner
  BY DEF Inherit, Inherits, NextOwner
<1>3. tp \in Threads \ {me} /\ ~isr /\ HighestReady(sched)
  BY <1>1, <1>2 DEF BusInv, Types, LockHeld
<1> DEFINE l == IF sched.p_state[tp] = "READY"
                THEN Requeue(sched.rlist, tp, [sched.p_prio EXCEPT ![tp] = sched.p_prio[me]])
                ELSE sched.rlist
<1>4. sched' = Raised(sched, tp, sched.p_prio[me], l)
  BY DEF Inherit, Raised, Requeue
<1> HIDE DEF l
<1>5. /\ SchedInv(sched') /\ HighestReady(sched') /\ me' = me
      /\ sched'.p_realprio = sched.p_realprio
      /\ sched'.p_prio = [sched.p_prio EXCEPT ![tp] = sched.p_prio[me]]
      /\ \A u \in Threads : Stop(sched', u) = Stop(sched, u)
  <2>1. tp \in Threads \ {sched.currp} /\ SchedInv(sched) /\ sched.p_prio[me] = sched.p_prio[sched.currp]
    BY <1>3 DEF BusInv, me
  <2> QED
    BY <1>3, <1>4, <2>1, RaiseKeeps DEF l, me
<1>6. sched.p_state[tp] = "WTMTX" <=> Stop(sched, tp) = "WTMTX"
  BY DEF Stop, Stopped
<1>7. sched.p_state[tp] = "WTMTX" => wtobj[tp] \in Buses
  BY <1>3, <1>6 DEF BusInv, Lists, Types
<1>8. NextOwner \in Threads \cup {None}
  BY <1>7 DEF BusInv, Types, NextOwner
<1> QED
  BY <1>1, <1>2, <1>3, <1>5, <1>6, <1>7, <1>8

LEMMA InheritQueues == BusInv /\ Inherit => Lists' /\ m_queue' \in [Buses -> Seq(Threads)]
<1> SUFFICES ASSUME BusInv, Inherit PROVE Lists' /\ m_queue' \in [Buses -> Seq(Threads)]
  OBVIOUS
<1>1. /\ tp \in Threads /\ sched.p_prio \in [Threads -> Nat] /\ sched.p_prio[me] \in Nat
      /\ sched'.p_prio = [sched.p_prio EXCEPT ![tp] = sched.p_prio[me]]
      /\ \A u \in Threads : Stop(sched', u) = Stop(sched, u)
      /\ UNCHANGED <<m_owner, p_mtxlist, wtobj>>
      /\ sched.p_state[tp] = "WTMTX" => wtobj[tp] \in Buses
      /\ sched.p_state[tp] = "WTMTX" <=> Stop(sched, tp) = "WTMTX"
  BY InheritSched
<1> DEFINE prio == [sched.p_prio EXCEPT ![tp] = sched.p_prio[me]]
<1>2. prio \in [Threads -> Nat] /\ \A u \in Threads : u # tp => prio[u] = sched.p_prio[u]
  BY <1>1
<1>3. m_queue' = IF sched.p_state[tp] = "WTMTX"
                 THEN [m_queue EXCEPT ![wtobj[tp]] = Requeue(m_queue[wtobj[tp]], tp, prio)] ELSE m_queue
  BY DEF Inherit, Requeue
<1> HIDE DEF prio
<1>4. \A c : Waiting(c)' = Waiting(c)
  BY <1>1 DEF Waiting
<1>5. m_queue \in [Buses -> Seq(Threads)]
  BY DEF BusInv, Types
<1>6. ASSUME NEW c \in Buses
      PROVE  Queue(Threads, m_queue'[c], Waiting(c), prio)
  <2>1. Queue(Threads, m_queue[c], Waiting(c), sched.p_prio) /\ Waiting(c) \in SUBSET Threads
    BY DEF BusInv, Lists, Waiting
  <2>2. CASE tp \in Waiting(c)
    <3>1. m_queue'[c] = Requeue(m_queue[c], tp, prio)
      BY <1>1, <1>3, <1>5, <2>2 DEF Waiting
    <3>2. \A u \in Waiting(c) \ {tp} : prio[u] = sched.p_prio[u]
      BY <1>2, <2>1
    <3> QED
      BY <1>2, <2>1, <2>2, <3>1, <3>2, QueueRequeue
  <2>3. CASE tp \notin Waiting(c)
    <3>1. m_queue'[c] = m_queue[c]
      BY <1>1, <1>3, <1>5, <2>3 DEF Waiting
    <3>2. \A u \in Waiting(c) : prio[u] = sched.p_prio[u]
      BY <1>2, <2>1, <2>3
    <3> QED
      BY <2>1, <3>1, <3>2, QueueSame
  <2> QED
    BY <2>2, <2>3
<1>7. \A c \in Buses : Queue(Threads, m_queue'[c], Waiting(c)', sched'.p_prio)
  BY <1>1, <1>4, <1>6 DEF prio
<1>8. Lists'
  BY <1>1, <1>4, <1>7 DEF BusInv, Lists
<1>9. m_queue' \in [Buses -> Seq(Threads)]
  <2>1. m_queue' = [c \in Buses |-> m_queue'[c]]
    BY <1>1, <1>3, <1>5
  <2>2. \A c \in Buses : m_queue'[c] \in Seq(Threads)
    BY <1>6 DEF Queue
  <2> QED
    BY <2>1, <2>2
<1> QED
  BY <1>8, <1>9

LEMMA InheritStep == BusInv /\ Inherit => BusInv'
<1> SUFFICES ASSUME BusInv, Inherit PROVE BusInv'
  OBVIOUS
<1>1. /\ tp \in Threads \ {me} /\ sched.p_prio[tp] < sched.p_prio[me]
      /\ me \in Threads /\ sched.p_prio \in [Threads -> Nat]
      /\ SchedInv(sched') /\ HighestReady(sched') /\ me' = me
      /\ sched'.p_realprio = sched.p_realprio
      /\ sched'.p_prio = [sched.p_prio EXCEPT ![tp] = sched.p_prio[me]]
      /\ \A u \in Threads : Stop(sched', u) = Stop(sched, u)
      /\ tp' = NextOwner /\ NextOwner \in Threads \cup {None}
      /\ UNCHANGED <<isr, m_owner, p_mtxlist, wtobj, mp, spi>> /\ ~Unlocked /\ ~isr
      /\ sched.p_state[tp] = "WTMTX" => wtobj[tp] \in Buses
      /\ sched.p_state[tp] = "WTMTX" <=> Stop(sched, tp) = "WTMTX"
  BY InheritSched
<1>2. Lists' /\ m_queue' \in [Buses -> Seq(Threads)]
  BY InheritQueues
<1>3. Types'
  BY <1>1, <1>2 DEF BusInv, Types
<1>4. LockHeld'
  BY <1>1 DEF BusInv, LockHeld, Unlocked
<1>5. Exchanges'
  BY <1>1, ExchangesKept DEF BusInv
<1> DEFINE prio == sched.p_prio
           new == sched'.p_prio
<1>6. /\ \A u \in Threads : prio[u] \in Nat
      /\ \A u \in Threads : new[u] = IF u = tp THEN prio[me] ELSE prio[u]
  BY <1>1
<1>7. \A c : Waiting(c)' = Waiting(c)
  BY <1>1 DEF Waiting
<1>8. ASSUME NEW u \in Threads, NEW t \in Threads
      PROVE  WaitsFor(u, t)' <=> WaitsFor(u, t)
  BY <1>1, <1>7 DEF WaitsFor, Unlocked
<1>9. ASSUME NEW t \in Threads
      PROVE  WaitsFor(tp, t) <=> NextOwner = t
  BY <1>1, BusAssumption DEF WaitsFor, Waiting, NextOwner
<1>10. /\ \A t \in Threads : sched.p_realprio[t] <= prio[t] /\ prio[t] <= ABSPRIO
       /\ \A t \in Threads : t # tp => Bounded(t) /\ Earned(t)
       /\ \A u \in Threads : WaitsFor(u, tp) => prio[u] <= prio[tp] \/ prio[u] <= prio[me]
       /\ \E u \in Threads : WaitsFor(u, tp) /\ prio[u] = prio[me]
       /\ \A t \in Threads : sched.p_realprio[t] \in Nat
  BY <1>1, BusAssumption, CurrentRuns, SchedFields DEF BusInv, Priorities
<1> HIDE DEF new
<1>11. \A t \in Threads : sched.p_realprio[t] <= new[t] /\ new[t] <= ABSPRIO
  BY <1>1, <1>6, <1>10, BusAssumption
<1>12. ASSUME NEW u \in Threads, WaitsFor(u, tp)
       PROVE  new[u] <= prio[me]
  BY <1>1, <1>6, <1>10, <1>12
<1>13. ASSUME NEW t \in Threads, t # NextOwner
       PROVE  Bounded(t)' /\ Earned(t)'
  <2>1. ~WaitsFor(tp, t)
    BY <1>9, <1>13
  <2>2. CASE t = tp
    <3>1. \A u \in Threads : WaitsFor(u, t) => new[u] <= new[t]
      BY <1>6, <1>12, <2>2
    <3>2. \E u \in Threads : WaitsFor(u, t) /\ new[u] = new[t]
      BY <1>6, <1>10, <2>2
    <3> QED
      BY <1>8, <3>1, <3>2 DEF Bounded, Earned, new
  <2>3. CASE t # tp
    <3>1. Bounded(t) /\ Earned(t)
      BY <1>10, <2>3
    <3>2. \A u \in Threads : WaitsFor(u, t) => new[u] = prio[u]
      BY <1>6, <2>1
    <3>3. new[t] = prio[t]
      BY <1>6, <2>3
    <3>4. \A u \in Threads : WaitsFor(u, t)' => new[u] <= new[t]
      BY <1>8, <3>1, <3>2, <3>3 DEF Bounded
    <3>5. new[t] = sched.p_realprio[t] \/ \E u \in Threads : WaitsFor(u, t)' /\ new[u] = new[t]
      BY <1>8, <3>1, <3>2, <3>3 DEF Earned
    <3> QED
      BY <1>1, <3>4, <3>5 DEF Bounded, Earned, new
  <2> QED
    BY <2>2, <2>3
<1>14. ASSUME NextOwner # None
       PROVE  /\ \A u \in Threads : WaitsFor(u, NextOwner) => \/ new[u] <= new[NextOwner]
                                                              \/ new[u] <= new[me]
              /\ \/ new[NextOwner] = sched.p_realprio[NextOwner]
                 \/ \E u \in Threads : WaitsFor(u, NextOwner) /\ new[u] = new[NextOwner]
                 \/ new[NextOwner] < new[me]
              /\ \E u \in Threads : WaitsFor(u, NextOwner) /\ new[u] = new[me]
  <2> DEFINE x == NextOwner
  <2>1. x \in Threads /\ WaitsFor(tp, x) /\ new[tp] = new[me] /\ new[me] = prio[me]
    BY <1>1, <1>6, <1>9, <1>14
  <2> HIDE DEF x
  <2>2. CASE x = tp
    BY <1>6, <1>10, <1>12, <2>1, <2>2 DEF x
  <2>3. CASE x # tp
    <3>1. Bounded(x) /\ Earned(x) /\ new[x] = prio[x]
      BY <1>6, <1>10, <2>1, <2>3
    <3>2. ASSUME NEW u \in Threads, WaitsFor(u, x)
          PROVE  new[u] <= new[x] \/ new[u] <= new[me]
      <4>1. CASE u = tp
        BY <1>1, <1>6, <2>1, <4>1
      <4>2. CASE u # tp
        BY <1>6, <3>1, <3>2, <4>2 DEF Bounded
      <4> QED
        BY <4>1, <4>2
    <3>3. \/ new[x] = sched.p_realprio[x]
          \/ \E u \in Threads : WaitsFor(u, x) /\ new[u] = new[x]
          \/ new[x] < new[me]
      <4>1. CASE prio[x] = sched.p_realprio[x]
        BY <3>1, <4>1
      <4>2. ASSUME NEW u \in Threads, WaitsFor(u, x), prio[u] = prio[x]
            PROVE  (\E v \in Threads : WaitsFor(v, x) /\ new[v] = new[x]) \/ new[x] < new[me]
        <5>1. CASE u = tp
          BY <1>1, <2>1, <3>1, <4>2, <5>1
        <5>2. CASE u # tp
          BY <1>6, <3>1, <4>2, <5>2
        <5> QED
          BY <5>1, <5>2
      <4> QED
        BY <3>1, <4>1, <4>2 DEF Earned
    <3>4. \E u \in Threads : WaitsFor(u, x) /\ new[u] = new[me]
      BY <1>1, <2>1
    <3>5. \A u \in Threads : WaitsFor(u, x) => new[u] <= new[x] \/ new[u] <= new[me]
      BY <3>2
    <3> QED
      BY <3>3, <3>4, <3>5 DEF x
  <2> QED
    BY <2>2, <2>3
<1>15. Priorities'
  <2>1. tp' # None =>
          /\ \A u \in Threads : WaitsFor(u, tp)' => new[u] <= new[tp'] \/ new[u] <= new[me]
          /\ Earned(tp)' \/ new[tp'] < new[me]
          /\ \E u \in Threads : WaitsFor(u, tp)' /\ new[u] = new[me]
    <3> SUFFICES ASSUME tp' # None
                 PROVE  /\ \A u \in Threads : WaitsFor(u, tp)' => new[u] <= new[tp'] \/ new[u] <= new[me]
                        /\ Earned(tp)' \/ new[tp'] < new[me]
                        /\ \E u \in Threads : WaitsFor(u, tp)' /\ new[u] = new[me]
      OBVIOUS
    <3>1. tp' = NextOwner /\ NextOwner \in Threads
      BY <1>1
    <3>2. \A u \in Threads : WaitsFor(u, tp)' <=> WaitsFor(u, NextOwner)
      BY <1>1, <1>7, <3>1 DEF WaitsFor, Unlocked
    <3>3. Earned(tp)' <=> \/ new[NextOwner] = sched.p_realprio[NextOwner]
                          \/ \E u \in Threads : WaitsFor(u, NextOwner) /\ new[u] = new[NextOwner]
      BY <1>1, <3>1, <3>2 DEF Earned, new
    <3> QED
      BY <1>14, <3>1, <3>2, <3>3
  <2>2. \A t \in Threads : t # tp' => Bounded(t)' /\ Earned(t)'
    BY <1>1, <1>13
  <2> QED
    BY <1>1, <1>11, <2>1, <2>2 DEF Priorities, new
<1> QED
  BY <1>1, <1>2, <1>3, <1>4, <1>5, <1>15 DEF BusInv

----------------------------------------------------------------------------
(* Releasing a mutex                                                       *)

\* Mutex b is taken from the front of the list of me and h is its next owner.
Passes(b, h) ==
    /\ p_mtxlist[me] # <<>> /\ b = Head(p_mtxlist[me])
    /\ m_owner' = [m_owner EXCEPT ![b] = h]
    /\ p_mtxlist' = [t \in Threads |-> IF t = me THEN Tail(p_mtxlist[t])
                                       ELSE IF t = h THEN <<b>> \o p_mtxlist[t]
                                       ELSE p_mtxlist[t]]

LEMMA HandOverLists ==
    ASSUME BusInv, NEW b \in Buses, NEW h \in Threads \cup {None}, h # me, Passes(b, h)
    PROVE  /\ m_owner[b] = me
           /\ ToSet(Tail(p_mtxlist[me])) = {c \in Buses : m_owner[c] = me} \ {b}
           /\ p_mtxlist' \in [Threads -> Seq(Buses)] /\ m_owner' \in [Buses -> Threads \cup {None}]
           /\ \A c \in Buses : m_owner'[c] = IF c = b THEN h ELSE m_owner[c]
           /\ \A t \in Threads : /\ IsInjective(p_mtxlist'[t])
                                 /\ ToSet(p_mtxlist'[t]) = {c \in Buses : m_owner'[c] = t}
<1>1. me \in Threads
  BY CurrentRuns DEF BusInv, me
<1>2. m_owner \in [Buses -> Threads \cup {None}] /\ p_mtxlist \in [Threads -> Seq(Buses)]
  BY DEF BusInv, Types
<1>3. \A t \in Threads : /\ p_mtxlist[t] \in Seq(Buses) /\ IsInjective(p_mtxlist[t])
                         /\ ToSet(p_mtxlist[t]) = {c \in Buses : m_owner[c] = t}
  BY <1>2 DEF BusInv, Lists
<1>4. /\ b \in ToSet(p_mtxlist[me]) /\ Tail(p_mtxlist[me]) \in Seq(Buses)
      /\ IsInjective(Tail(p_mtxlist[me])) /\ ToSet(Tail(p_mtxlist[me])) = ToSet(p_mtxlist[me]) \ {b}
  BY <1>1, <1>3, ListPop DEF Passes
<1>5. m_owner[b] = me
  BY <1>1, <1>3, <1>4
<1>6. \A c \in Buses : m_owner'[c] = IF c = b THEN h ELSE m_owner[c]
  BY <1>2 DEF Passes
<1>7. ASSUME NEW t \in Threads
      PROVE  /\ p_mtxlist'[t] \in Seq(Buses) /\ IsInjective(p_mtxlist'[t])
             /\ ToSet(p_mtxlist'[t]) = {c \in Buses : m_owner'[c] = t}
  <2>1. CASE t = me
    <3>1. p_mtxlist'[t] = Tail(p_mtxlist[me])
      BY <2>1 DEF Passes
    <3> QED
      BY <1>1, <1>3, <1>4, <1>5, <1>6, <2>1, <3>1
  <2>2. CASE t # me /\ t = h
    <3>1. b \notin ToSet(p_mtxlist[t])
      BY <1>3, <1>5, <2>2
    <3> DEFINE l == <<b>> \o p_mtxlist[t]
    <3>2. l \in Seq(Buses) /\ IsInjective(l) /\ ToSet(l) = ToSet(p_mtxlist[t]) \cup {b}
      BY <1>3, <3>1, ListPush
    <3>3. p_mtxlist'[t] = l
      BY <2>2 DEF Passes
    <3>4. {c \in Buses : m_owner'[c] = t} = {c \in Buses : m_owner[c] = t} \cup {b}
      BY <1>5, <1>6, <2>2
    <3> HIDE DEF l
    <3> QED
      BY <1>3, <3>2, <3>3, <3>4
  <2>3. CASE t # me /\ t # h
    <3>1. p_mtxlist'[t] = p_mtxlist[t]
      BY <2>3 DEF Passes
    <3> QED
      BY <1>3, <1>5, <1>6, <2>3, <3>1
  <2> QED
    BY <2>1, <2>2, <2>3
<1>8. p_mtxlist' \in [Threads -> Seq(Buses)]
  <2>1. p_mtxlist' = [t \in Threads |-> p_mtxlist'[t]]
    BY DEF Passes
  <2> QED
    BY <1>7, <2>1
<1>9. ToSet(Tail(p_mtxlist[me])) = {c \in Buses : m_owner[c] = me} \ {b}
  BY <1>1, <1>3, <1>4
<1>10. m_owner' \in [Buses -> Threads \cup {None}]
  BY <1>2 DEF Passes
<1> QED
  BY <1>5, <1>6, <1>7, <1>8, <1>9, <1>10

LEMMA OwnsNoExchange ==
    ASSUME BusInv, NEW b \in Buses, m_owner[b] = me
    PROVE  spi[b].thread = None
BY CurrentRuns DEF BusInv, Exchanges, me

LEMMA ReleaseFreeStep ==
    ASSUME NEW b \in Buses, m_queue[b] = <<>>
    PROVE  BusInv /\ ReleaseBus(b) => BusInv'
<1> SUFFICES ASSUME BusInv, ReleaseBus(b) PROVE BusInv'
  OBVIOUS
<1>1. /\ UNCHANGED <<sched, isr, wtobj, mp, tp, spi>> /\ Unlocked
      /\ Passes(b, None)
      /\ m_queue' = [m_queue EXCEPT ![b] = IF @ = <<>> THEN @ ELSE Tail(@)]
  BY DEF ReleaseBus, HandOver, Running, Passes
<1>2. me \in Threads /\ me # None
  BY CurrentRuns, BusAssumption DEF BusInv, me
<1>3. m_queue \in [Buses -> Seq(Threads)]
  BY DEF BusInv, Types
<1>4. m_queue' = m_queue
  BY <1>1, <1>3
<1>5. /\ m_owner[b] = me
      /\ p_mtxlist' \in [Threads -> Seq(Buses)] /\ m_owner' \in [Buses -> Threads \cup {None}]
      /\ \A c \in Buses : m_owner'[c] = IF c = b THEN None ELSE m_owner[c]
      /\ \A t \in Threads : /\ IsInjective(p_mtxlist'[t])
                            /\ ToSet(p_mtxlist'[t]) = {c \in Buses : m_owner'[c] = t}
  BY <1>1, <1>2, HandOverLists
<1>6. Types'
  BY <1>1, <1>4, <1>5 DEF BusInv, Types
<1>7. Unlocked' /\ tp = None /\ tp' = None
  BY <1>1 DEF BusInv, LockHeld, Unlocked
<1>8. Waiting(b) = {} /\ \A c : Waiting(c)' = Waiting(c)
  <2>1. Queue(Threads, m_queue[b], Waiting(b), sched.p_prio)
    BY DEF BusInv, Lists
  <2>2. Waiting(b) = {}
    BY <2>1, QueueEmpty
  <2> QED
    BY <1>1, <2>2 DEF Waiting
<1>9. ASSUME NEW u \in Threads, NEW t \in Threads
      PROVE  WaitsFor(u, t)' <=> WaitsFor(u, t)
  <2>1. t # None
    BY BusAssumption
  <2> QED
    BY <1>1, <1>5, <1>7, <1>8, <2>1 DEF WaitsFor
<1>10. \A t \in Threads : (Bounded(t)' <=> Bounded(t)) /\ (Earned(t)' <=> Earned(t))
  BY <1>1, <1>9 DEF Bounded, Earned
<1>11. Priorities'
  BY <1>1, <1>7, <1>10 DEF BusInv, Priorities
<1>12. Lists'
  BY <1>1, <1>4, <1>5, <1>8 DEF BusInv, Lists
<1>13. Exchanges'
  <2>1. spi[b].thread = None
    BY <1>5, OwnsNoExchange
  <2> QED
    BY <1>1, <1>5, <2>1 DEF BusInv, Exchanges
<1>14. LockHeld' /\ SchedInv(sched') /\ (~isr' => HighestReady(sched'))
  BY <1>1, <1>7 DEF BusInv, LockHeld
<1> QED
  BY <1>6, <1>11, <1>12, <1>13, <1>14 DEF BusInv

\* Those that wait for a mutex the running thread keeps.
Kept(b, u) == \E c \in Buses \ {b} : m_owner[c] = me /\ u \in Waiting(c)

LEMMA NewPrioIsInherited ==
    ASSUME BusInv, Unlocked, NEW b \in Buses,
           ToSet(Tail(p_mtxlist[me])) = {c \in Buses : m_owner[c] = me} \ {b}
    PROVE  /\ NewPrio \in Nat /\ NewPrio <= sched.p_prio[me] /\ sched.p_realprio[me] <= NewPrio
           /\ \A u \in Threads : Kept(b, u) => sched.p_prio[u] <= NewPrio
           /\ \/ NewPrio = sched.p_realprio[me]
              \/ \E u \in Threads : Kept(b, u) /\ sched.p_prio[u] = NewPrio
<1> DEFINE C == {c \in ToSet(Tail(p_mtxlist[me])) : m_queue[c] # <<>>}
           S == {sched.p_realprio[me]} \cup {sched.p_prio[Head(m_queue[c])] : c \in C}
<1>1. /\ me \in Threads /\ sched.p_prio \in [Threads -> Nat] /\ sched.p_realprio \in [Threads -> Nat]
      /\ sched.p_realprio[me] <= sched.p_prio[me] /\ sched.p_prio[me] <= ABSPRIO
  BY CurrentRuns, SchedFields DEF BusInv, Priorities, me
<1>2. Bounded(me)
  BY <1>1, BusAssumption DEF BusInv, LockHeld, Priorities
<1>3. ASSUME NEW c \in Buses \ {b}, m_owner[c] = me
      PROVE  /\ m_queue[c] # <<>> => /\ Head(m_queue[c]) \in Waiting(c)
                                     /\ \A u \in Waiting(c) : sched.p_prio[u] <= sched.p_prio[Head(m_queue[c])]
             /\ m_queue[c] = <<>> => Waiting(c) = {}
  <2>1. Queue(Threads, m_queue[c], Waiting(c), sched.p_prio)
    BY DEF BusInv, Lists
  <2>2. m_queue[c] = <<>> <=> Waiting(c) = {}
    BY <2>1, QueueEmpty
  <2> QED
    BY <1>1, <2>1, <2>2, QueueTail
<1>4. \A u : Kept(b, u) => u \in Threads /\ sched.p_prio[u] <= sched.p_prio[me]
  BY <1>2 DEF Kept, Bounded, WaitsFor, Waiting
<1>5. C = {c \in Buses \ {b} : m_owner[c] = me /\ m_queue[c] # <<>>}
  OBVIOUS
<1> HIDE DEF C
<1>6. \A c \in C : Head(m_queue[c]) \in Threads /\ Kept(b, Head(m_queue[c]))
  BY <1>3, <1>5 DEF Kept, Waiting
<1>7. sched.p_prio[me] \in Nat /\ S \subseteq 0..sched.p_prio[me] /\ S # {}
  <2>1. ASSUME NEW c \in C
        PROVE  sched.p_prio[Head(m_queue[c])] \in 0..sched.p_prio[me]
    BY <1>1, <1>4, <1>6
  <2>2. sched.p_realprio[me] \in 0..sched.p_prio[me]
    BY <1>1
  <2> QED
    BY <1>1, <2>1, <2>2
<1>8. NewPrio = Max(S)
  BY DEF NewPrio, C
<1>9. \A c \in C : sched.p_prio[Head(m_queue[c])] \in S
  OBVIOUS
<1>10. sched.p_realprio[me] \in S
  OBVIOUS
<1>11. \A x \in S : x = sched.p_realprio[me] \/ \E c \in C : x = sched.p_prio[Head(m_queue[c])]
  OBVIOUS
<1> HIDE DEF S
<1>12. NewPrio \in S /\ \A x \in S : NewPrio >= x
  BY <1>7, <1>8, MaxIsGreatest
<1>13. NewPrio \in Nat /\ NewPrio <= sched.p_prio[me] /\ sched.p_realprio[me] <= NewPrio
  BY <1>1, <1>7, <1>10, <1>12
<1>14. ASSUME NEW u \in Threads, Kept(b, u)
       PROVE  sched.p_prio[u] <= NewPrio
  <2>1. PICK c \in Buses \ {b} : m_owner[c] = me /\ u \in Waiting(c)
    BY <1>14 DEF Kept
  <2>2. c \in C /\ sched.p_prio[u] <= sched.p_prio[Head(m_queue[c])]
    BY <1>3, <1>5, <2>1
  <2>3. sched.p_prio[Head(m_queue[c])] \in S /\ sched.p_prio[Head(m_queue[c])] \in Nat /\ sched.p_prio[u] \in Nat
    BY <1>1, <1>6, <1>9, <2>2
  <2>4. sched.p_prio[Head(m_queue[c])] <= NewPrio
    BY <1>12, <1>13, <2>3
  <2> QED
    BY <1>13, <2>2, <2>3, <2>4
<1>15. \/ NewPrio = sched.p_realprio[me]
       \/ \E u \in Threads : Kept(b, u) /\ sched.p_prio[u] = NewPrio
  BY <1>6, <1>11, <1>12
<1> QED
  BY <1>13, <1>14, <1>15

\* What has become of the scheduler's state when h has been woken.
LEMMA ReleaseSched ==
    ASSUME BusInv, NEW b \in Buses, m_queue[b] # <<>>, ReleaseBus(b)
    PROVE  LET h == Head(m_queue[b])
           IN  /\ h \in Waiting(b) /\ h \in Threads \ {me} /\ Passes(b, h)
               /\ \A u \in Waiting(b) : sched.p_prio[u] <= sched.p_prio[h]
               /\ Queue(Threads, Tail(m_queue[b]), Waiting(b) \ {h}, sched.p_prio)
               /\ SchedInv(sched') /\ HighestReady(sched')
               /\ sched'.p_realprio = sched.p_realprio
               /\ sched'.p_prio = [sched.p_prio EXCEPT ![me] = NewPrio]
               /\ Stop(sched', h) = "runs"
               /\ \A u \in Threads \ {h} : Stop(sched', u) = Stop(sched, u)
<1> DEFINE h == Head(m_queue[b])
           k == [sched EXCEPT !.p_prio[me] = NewPrio]
<1>1. /\ Unlocked /\ ~isr /\ sched' = WakeupS(k, h) /\ Passes(b, h)
  BY DEF ReleaseBus, HandOver, Running, Passes
<1>2. /\ me \in Threads /\ me \notin Ready(sched) /\ Stop(sched, me) = "runs"
      /\ sched.p_prio \in [Threads -> Nat]
      /\ Queue(Threads, sched.rlist, Ready(sched), sched.p_prio)
      /\ sched \in SchedType
      /\ \A u \in Ready(sched) : u \in Threads /\ sched.p_prio[u] <= sched.p_prio[me]
  BY <1>1, CurrentRuns DEF BusInv, me, HighestReady
<1>3. /\ h \in Waiting(b) /\ \A u \in Waiting(b) : sched.p_prio[u] <= sched.p_prio[h]
      /\ Queue(Threads, Tail(m_queue[b]), Waiting(b) \ {h}, sched.p_prio)
  <2>1. Queue(Threads, m_queue[b], Waiting(b), sched.p_prio)
    BY DEF BusInv, Lists
  <2> QED
    BY <1>2, <2>1, QueueTail
<1> HIDE DEF h
<1>4. h \in Threads \ {me} /\ Stop(sched, h) = "WTMTX"
  BY <1>2, <1>3 DEF Waiting
<1>5. m_owner[b] = me /\ ToSet(Tail(p_mtxlist[me])) = {c \in Buses : m_owner[c] = me} \ {b}
  <2>1. h \in Threads \cup {None} /\ h # me
    BY <1>4
  <2> QED
    BY <1>1, <2>1, HandOverLists
<1>6. /\ NewPrio \in Nat /\ NewPrio <= sched.p_prio[me] /\ sched.p_realprio[me] <= NewPrio
      /\ \A u \in Threads : Kept(b, u) => sched.p_prio[u] <= NewPrio
  BY <1>1, <1>5, NewPrioIsInherited
<1> DEFINE prio == [sched.p_prio EXCEPT ![me] = NewPrio]
<1>7. prio \in [Threads -> Nat] /\ \A u \in Threads : prio[u] = IF u = me THEN NewPrio ELSE sched.p_prio[u]
  BY <1>2, <1>6
<1>8. /\ k \in SchedType /\ k.rlist = sched.rlist /\ k.currp = me /\ k.p_prio = prio
      /\ k.p_realprio = sched.p_realprio /\ k.p_state = sched.p_state
  BY <1>2, <1>7 DEF SchedType, me
<1> HIDE DEF k, prio
<1>9. Ready(k) = Ready(sched) /\ \A u \in Threads : Stop(k, u) = Stop(sched, u)
  BY <1>8 DEF Ready, Stop
<1>10. SchedInv(k)
  <2>1. \A u \in Ready(sched) : prio[u] = sched.p_prio[u]
    BY <1>2, <1>7
  <2>2. Queue(Threads, sched.rlist, Ready(sched), prio)
    BY <1>2, <2>1, QueueSame
  <2> QED
    BY <1>8, <1>9, <2>2 DEF SchedInv, BusInv, me
<1>11. k.p_state[h] \in Stopped
  BY <1>4, <1>8 DEF Stop
<1>12. \A u \in Ready(k) : k.p_prio[u] <= k.p_prio[k.currp] \/ k.p_prio[u] <= k.p_prio[h]
  <2>1. sched.p_prio[me] <= NewPrio \/ sched.p_prio[me] <= sched.p_prio[h]
    <3>1. Earned(me)
      BY <1>1, <1>2, BusAssumption DEF BusInv, LockHeld, Priorities
    <3>2. CASE sched.p_prio[me] = sched.p_realprio[me]
      BY <1>6, <3>2
    <3>3. ASSUME NEW w \in Threads, WaitsFor(w, me), sched.p_prio[w] = sched.p_prio[me]
          PROVE  sched.p_prio[me] <= NewPrio \/ sched.p_prio[me] <= sched.p_prio[h]
      <4>1. PICK c \in Buses : m_owner[c] = me /\ w \in Waiting(c)
        BY <1>1, <3>3 DEF WaitsFor
      <4>2. CASE c = b
        BY <1>3, <3>3, <4>1, <4>2
      <4>3. CASE c # b
        BY <1>6, <3>3, <4>1, <4>3 DEF Kept
      <4> QED
        BY <4>2, <4>3
    <3> QED
      BY <3>1, <3>2, <3>3 DEF Earned
  <2>2. sched.p_prio[me] \in Nat /\ sched.p_prio[h] \in Nat /\ NewPrio \in Nat
    BY <1>2, <1>4, <1>6
  <2>3. ASSUME NEW u \in Ready(sched)
        PROVE  sched.p_prio[u] <= NewPrio \/ sched.p_prio[u] <= sched.p_prio[h]
    <3>1. sched.p_prio[u] \in Nat /\ sched.p_prio[u] <= sched.p_prio[me]
      BY <1>2
    <3> QED
      BY <2>1, <2>2, <3>1
  <2> QED
    BY <1>2, <1>4, <1>7, <1>8, <1>9, <2>3
<1> DEFINE n == WakeupS(k, h)
<1>13. /\ SchedInv(n) /\ SamePrio(k, n) /\ HighestReady(n)
       /\ Stop(n, h) = "runs"
       /\ \A u \in Threads \ {h} : Stop(n, u) = Stop(k, u)
  BY <1>4, <1>10, <1>11, <1>12, WakeupKeeps
<1>14. sched' = n
  BY <1>1
<1> HIDE DEF n
<1> QED
  BY <1>1, <1>3, <1>4, <1>8, <1>9, <1>13, <1>14 DEF SamePrio, h, prio

LEMMA ReleaseTakenStep ==
    ASSUME NEW b \in Buses, m_queue[b] # <<>>
    PROVE  BusInv /\ ReleaseBus(b) => BusInv'
<1> SUFFICES ASSUME BusInv, ReleaseBus(b) PROVE BusInv'
  OBVIOUS
<1> DEFINE h == Head(m_queue[b])
<1>1. /\ h \in Waiting(b) /\ h \in Threads \ {me} /\ Passes(b, h)
      /\ \A u \in Waiting(b) : sched.p_prio[u] <= sched.p_prio[h]
      /\ Queue(Threads, Tail(m_queue[b]), Waiting(b) \ {h}, sched.p_prio)
      /\ SchedInv(sched') /\ HighestReady(sched')
      /\ sched'.p_realprio = sched.p_realprio
      /\ sched'.p_prio = [sched.p_prio EXCEPT ![me] = NewPrio]
      /\ Stop(sched', h) = "runs"
      /\ \A u \in Threads \ {h} : Stop(sched', u) = Stop(sched, u)
  BY ReleaseSched
<1>2. /\ UNCHANGED <<isr, wtobj, mp, tp, spi>> /\ Unlocked
      /\ m_queue' = [m_queue EXCEPT ![b] = Tail(m_queue[b])]
  BY DEF ReleaseBus, HandOver, Running
<1> HIDE DEF h
<1>3. /\ me \in Threads /\ Stop(sched, me) = "runs" /\ sched.p_prio \in [Threads -> Nat]
      /\ \A t \in Threads : t # None
  BY CurrentRuns, BusAssumption DEF BusInv, me
<1>4. /\ m_owner[b] = me
      /\ ToSet(Tail(p_mtxlist[me])) = {c \in Buses : m_owner[c] = me} \ {b}
      /\ p_mtxlist' \in [Threads -> Seq(Buses)] /\ m_owner' \in [Buses -> Threads \cup {None}]
      /\ \A c \in Buses : m_owner'[c] = IF c = b THEN h ELSE m_owner[c]
      /\ \A t \in Threads : /\ IsInjective(p_mtxlist'[t])
                            /\ ToSet(p_mtxlist'[t]) = {c \in Buses : m_owner'[c] = t}
  BY <1>1, HandOverLists
<1>5. /\ NewPrio \in Nat /\ NewPrio <= sched.p_prio[me] /\ sched.p_realprio[me] <= NewPrio
      /\ \A u \in Threads : Kept(b, u) => sched.p_prio[u] <= NewPrio
      /\ \/ NewPrio = sched.p_realprio[me]
         \/ \E u \in Threads : Kept(b, u) /\ sched.p_prio[u] = NewPrio
  BY <1>2, <1>4, NewPrioIsInherited
<1>6. Unlocked' /\ tp = None /\ tp' = None
  BY <1>2 DEF BusInv, LockHeld, Unlocked
<1> DEFINE prio == sched.p_prio
           new == sched'.p_prio
<1>7. \A u \in Threads : new[u] = IF u = me THEN NewPrio ELSE prio[u]
  BY <1>1, <1>3
<1>8. \A c \in Buses : /\ Waiting(c)' = IF c = b THEN Waiting(c) \ {h} ELSE Waiting(c)
                       /\ me \notin Waiting(c) /\ (c # b => h \notin Waiting(c))
                       /\ Waiting(c) \subseteq Threads
  BY <1>1, <1>2, <1>3 DEF Waiting
<1> HIDE DEF new
<1>9. ASSUME NEW u \in Threads, NEW t \in Threads \ {me, h}
      PROVE  WaitsFor(u, t)' <=> WaitsFor(u, t)
  BY <1>2, <1>4, <1>6, <1>8 DEF WaitsFor
<1>10. ASSUME NEW u \in Threads, NEW t \in Threads, t = me
       PROVE  WaitsFor(u, t)' <=> Kept(b, u)
  BY <1>1, <1>4, <1>6, <1>8, <1>10 DEF WaitsFor, Kept
<1>11. ASSUME NEW u \in Threads, NEW t \in Threads, t = h
       PROVE  WaitsFor(u, t)' <=> WaitsFor(u, t) \/ u \in Waiting(b) \ {h}
  BY <1>1, <1>2, <1>4, <1>6, <1>8, <1>11 DEF WaitsFor
<1>12. \A u \in Threads, t \in Threads : WaitsFor(u, t)' \/ WaitsFor(u, t) => u # me
  BY <1>2, <1>6, <1>8 DEF WaitsFor
<1>13. \A u \in Threads, t \in Threads : WaitsFor(u, t)' \/ WaitsFor(u, t) => new[u] = prio[u]
  BY <1>7, <1>12
<1>14. \A t \in Threads : Bounded(t) /\ Earned(t)
  BY <1>3, <1>6 DEF BusInv, Priorities
<1>15. ASSUME NEW t \in Threads
       PROVE  /\ \A u \in Threads : WaitsFor(u, t)' => new[u] <= new[t]
              /\ \/ new[t] = sched.p_realprio[t]
                 \/ \E u \in Threads : WaitsFor(u, t)' /\ new[u] = new[t]
  <2>1. CASE t = me
    <3>1. new[t] = NewPrio /\ \A u \in Threads : WaitsFor(u, t)' <=> Kept(b, u)
      BY <1>7, <1>10, <2>1
    <3>2. \A u \in Threads : Kept(b, u) => new[u] = prio[u]
      BY <1>13, <2>1, <3>1
    <3> QED
      BY <1>5, <2>1, <3>1, <3>2
  <2>2. CASE t = h
    <3>1. new[t] = prio[t] /\ \A u \in Threads : WaitsFor(u, t)' <=> WaitsFor(u, t) \/ u \in Waiting(b) \ {h}
      BY <1>1, <1>7, <1>11, <2>2
    <3>2. \A u \in Threads : WaitsFor(u, t)' => new[u] = prio[u] /\ prio[u] <= prio[t]
      BY <1>1, <1>13, <1>14, <2>2, <3>1 DEF Bounded
    <3>3. \A u \in Threads : WaitsFor(u, t) => WaitsFor(u, t)' /\ new[u] = prio[u]
      BY <1>13, <3>1
    <3> QED
      BY <1>14, <3>1, <3>2, <3>3 DEF Earned
  <2>3. CASE t \notin {me, h}
    <3>1. new[t] = prio[t] /\ \A u \in Threads : WaitsFor(u, t)' <=> WaitsFor(u, t)
      BY <1>7, <1>9, <2>3
    <3>2. \A u \in Threads : WaitsFor(u, t)' => new[u] = prio[u] /\ prio[u] <= prio[t]
      BY <1>13, <1>14, <3>1 DEF Bounded
    <3>3. \A u \in Threads : WaitsFor(u, t) => WaitsFor(u, t)' /\ new[u] = prio[u]
      BY <1>13, <3>1
    <3> QED
      BY <1>14, <3>1, <3>2, <3>3 DEF Earned
  <2> QED
    BY <2>1, <2>2, <2>3
<1>16. Priorities'
  <2>1. \A t \in Threads : Bounded(t)' /\ Earned(t)'
    BY <1>1, <1>15 DEF Bounded, Earned, new
  <2>2. ASSUME NEW t \in Threads
        PROVE  sched.p_realprio[t] <= new[t] /\ new[t] <= ABSPRIO
    <3>1. sched.p_realprio[t] <= prio[t] /\ prio[t] <= ABSPRIO /\ prio[me] <= ABSPRIO
      BY <1>3 DEF BusInv, Priorities
    <3>2. prio[me] \in Nat
      BY <1>3
    <3> QED
      BY <1>5, <1>7, <3>1, <3>2, BusAssumption
  <2> QED
    BY <1>1, <1>6, <2>1, <2>2 DEF Priorities, new
<1>17. Lists'
  <2>1. ASSUME NEW c \in Buses
        PROVE  Queue(Threads, m_queue'[c], Waiting(c)', new)
    <3>1. Queue(Threads, m_queue[c], Waiting(c), prio)
      BY DEF BusInv, Lists
    <3>2. m_queue'[c] = IF c = b THEN Tail(m_queue[c]) ELSE m_queue[c]
      BY <1>2 DEF BusInv, Types
    <3>3. Queue(Threads, m_queue'[c], Waiting(c)', prio)
      BY <1>1, <1>8, <3>1, <3>2
    <3>4. \A u \in Waiting(c)' : new[u] = prio[u]
      BY <1>7, <1>8
    <3> DEFINE S == Waiting(c)'
               q == m_queue'[c]
    <3> HIDE DEF S, q
    <3>5. Queue(Threads, q, S, new)
      BY <3>3, <3>4, QueueSame DEF S, q
    <3> QED
      BY <3>5 DEF S, q
  <2>2. ASSUME NEW c \in Buses, m_owner'[c] = None
        PROVE  Waiting(c)' = {}
    <3>1. c # b /\ m_owner[c] = None
      BY <1>1, <1>3, <1>4, <2>2
    <3>2. Waiting(c)' = Waiting(c)
      BY <1>8, <3>1
    <3> QED
      BY <3>1, <3>2 DEF BusInv, Lists
  <2>3. \A t \in Threads : Stop(sched', t) = "WTMTX" => wtobj'[t] # None
    BY <1>1, <1>2 DEF BusInv, Lists
  <2> QED
    BY <1>4, <2>1, <2>2, <2>3 DEF Lists, new
<1>18. Exchanges'
  <2>1. spi[b].thread = None
    BY <1>4, OwnsNoExchange
  <2>2. Stop(sched, h) = "WTMTX"
    BY <1>1 DEF Waiting
  <2>3. \A c \in Buses : spi[c].thread \in Threads \cup {None}
    BY DEF BusInv, Types
  <2> QED
    BY <1>1, <1>2, <1>4, <2>1, <2>2, <2>3 DEF BusInv, Exchanges
<1>19. Types'
  <2>1. \A c \in Buses : m_queue'[c] \in Seq(Threads)
    BY <1>17 DEF Lists, Queue
  <2>2. m_queue' = [c \in Buses |-> m_queue'[c]]
    BY <1>2 DEF BusInv, Types
  <2>3. m_queue' \in [Buses -> Seq(Threads)]
    BY <2>1, <2>2
  <2> QED
    BY <1>2, <1>4, <2>3 DEF BusInv, Types
<1>20. LockHeld' /\ (~isr' => HighestReady(sched'))
  BY <1>1, <1>6 DEF LockHeld
<1> QED
  BY <1>1, <1>16, <1>17, <1>18, <1>19, <1>20 DEF BusInv

----------------------------------------------------------------------------
(* The start, and the invariant                                            *)

LEMMA InitStep == Init => BusInv
<1> SUFFICES ASSUME Init PROVE BusInv
  OBVIOUS
<1>1. PICK prio \in RealPrios, order \in SetToSeqs(Threads) :
        Ordered(order, prio) /\ sched = Started(order, prio)
  BY DEF Init
<1>2. /\ isr = FALSE
      /\ m_owner = [b \in Buses |-> None]
      /\ m_queue = [b \in Buses |-> <<>>]
      /\ p_mtxlist = [t \in Threads |-> <<>>]
      /\ wtobj = [t \in Threads |-> None]
      /\ mp = None /\ tp = None
      /\ spi = [b \in Buses |-> [state |-> "READY", thread |-> None]]
  BY DEF Init
<1>3. prio \in [Threads -> Nat] /\ \A t \in Threads : prio[t] <= ABSPRIO
  BY BusAssumption
<1>4. /\ SchedInv(sched) /\ HighestReady(sched)
      /\ sched.p_prio = prio /\ sched.p_realprio = prio
      /\ \A t \in Threads : Stop(sched, t) = "runs"
  BY <1>1, <1>3, StartedKeeps
<1>5. Types
  <2>1. <<>> \in Seq(Threads) /\ <<>> \in Seq(Buses)
    OBVIOUS
  <2>2. m_queue \in [Buses -> Seq(Threads)] /\ p_mtxlist \in [Threads -> Seq(Buses)]
    BY <1>2, <2>1
  <2>3. spi \in [Buses -> [state : {"READY", "ACTIVE"}, thread : Threads \cup {None}]]
    BY <1>2
  <2>4. m_owner \in [Buses -> Threads \cup {None}] /\ wtobj \in [Threads -> Buses \cup {None}]
    BY <1>2
  <2> QED
    BY <1>2, <2>2, <2>3, <2>4 DEF Types
<1>6. Unlocked /\ \A b : Waiting(b) = {}
  BY <1>2, <1>4 DEF Waiting, Unlocked
<1>7. \A u, t : ~WaitsFor(u, t)
  BY <1>6 DEF WaitsFor
<1>8. Priorities
  <2>1. \A t \in Threads : Bounded(t) /\ Earned(t)
    BY <1>4, <1>7 DEF Bounded, Earned
  <2> QED
    BY <1>2, <1>3, <1>4, <2>1 DEF Priorities
<1>9. Lists
  <2>1. Queue(Threads, <<>>, {}, sched.p_prio)
    BY DEF Queue, IsInjective, ToSet, Ordered
  <2>2. IsInjective(<<>>) /\ ToSet(<<>>) = {}
    BY DEF IsInjective, ToSet
  <2>3. \A b \in Buses : m_owner[b] = None /\ m_queue[b] = <<>>
    BY <1>2
  <2>4. ASSUME NEW t \in Threads
        PROVE  IsInjective(p_mtxlist[t]) /\ ToSet(p_mtxlist[t]) = {b \in Buses : m_owner[b] = t}
    <3>1. p_mtxlist[t] = <<>> /\ t # None
      BY <1>2, BusAssumption
    <3> QED
      BY <2>2, <2>3, <3>1
  <2>5. \A t \in Threads : Stop(sched, t) # "WTMTX"
    BY <1>4
  <2> QED
    BY <1>6, <2>1, <2>3, <2>4, <2>5 DEF Lists
<1>10. Exchanges /\ LockHeld
  BY <1>2, <1>6 DEF Exchanges, LockHeld
<1> QED
  BY <1>4, <1>5, <1>8, <1>9, <1>10 DEF BusInv

LEMMA NextStep == BusInv /\ [Next]_vars => BusInv'
<1> SUFFICES ASSUME BusInv, [Next]_vars PROVE BusInv'
  OBVIOUS
<1>1. ASSUME NEW b \in Buses, AcquireFree(b) \/ AcquireTaken(b) \/ ReleaseBus(b) \/ Exchange(b) \/ DmaDone(b)
      PROVE  BusInv'
  <2>1. CASE AcquireFree(b)
    BY <2>1, AcquireFreeStep
  <2>2. CASE AcquireTaken(b)
    BY <2>2, AcquireTakenStep
  <2>3. CASE ReleaseBus(b)
    BY <2>3, ReleaseFreeStep, ReleaseTakenStep
  <2>4. CASE Exchange(b)
    BY <2>4, ExchangeStep
  <2>5. CASE DmaDone(b)
    BY <2>5, DmaDoneStep
  <2> QED
    BY <1>1, <2>1, <2>2, <2>3, <2>4, <2>5
<1>2. CASE Inherit \/ SleepOnMutex
  BY <1>2, InheritStep, SleepOnMutexStep
<1>3. ASSUME NEW t \in Threads, Resume(t)
      PROVE  BusInv'
  BY <1>3, ResumeStep
<1>4. CASE Pause \/ Tick \/ Epilogue
  BY <1>4, PauseStep, TickStep, EpilogueStep
<1>5. CASE UNCHANGED vars
  <2>1. UNCHANGED <<sched, isr, m_owner, m_queue, p_mtxlist, wtobj, mp, tp, spi>>
    BY <1>5 DEF vars
  <2>2. \A b : Waiting(b)' = Waiting(b)
    BY <2>1 DEF Waiting
  <2>3. Unlocked' <=> Unlocked
    BY <2>1 DEF Unlocked
  <2>4. me' = me
    BY <2>1 DEF me
  <2>5. \A u, t : WaitsFor(u, t)' <=> WaitsFor(u, t)
    BY <2>1, <2>2, <2>3, <2>4 DEF WaitsFor
  <2>6. \A t : (Bounded(t)' <=> Bounded(t)) /\ (Earned(t)' <=> Earned(t))
    BY <2>1, <2>5 DEF Bounded, Earned
  <2>7. Priorities'
    BY <2>1, <2>4, <2>5, <2>6 DEF BusInv, Priorities
  <2>8. Lists'
    BY <2>1, <2>2 DEF BusInv, Lists
  <2>9. Types' /\ LockHeld' /\ Exchanges'
    BY <2>1, <2>3, <2>4 DEF BusInv, Types, LockHeld, Exchanges
  <2> QED
    BY <2>1, <2>7, <2>8, <2>9 DEF BusInv
<1> QED
  BY <1>1, <1>2, <1>3, <1>4, <1>5 DEF Next

LEMMA Invariant == Spec => []BusInv
BY InitStep, NextStep, PTL DEF Spec

----------------------------------------------------------------------------
(* Theorems                                                                *)

\* The tables of the kernel agree: who owns a mutex, who is queued for it,
\* who is ready (chmtx.c, chschd.c).
THEOREM TypeCorrect == Spec => []TypeOK
<1>1. BusInv => TypeOK
  <2> SUFFICES ASSUME BusInv PROVE TypeOK
    OBVIOUS
  <2>1. /\ sched \in SchedType /\ me \in Threads
        /\ Queue(Threads, sched.rlist, Ready(sched), sched.p_prio)
    BY CurrentRuns DEF BusInv, me
  <2>2. sched.p_prio \in [Threads -> Nat] /\ sched.p_realprio \in [Threads -> Nat] /\ sched.r_preempt \in 0..Quantum
    BY <2>1, SchedFields
  <2>3. \A t \in Threads : sched.p_prio[t] >= sched.p_realprio[t] /\ IsInjective(p_mtxlist[t])
    BY <2>2 DEF BusInv, Priorities, Lists
  <2>4. ToSet(sched.rlist) = {t \in Threads : sched.p_state[t] = "READY"}
    BY <2>1 DEF Queue, Ready
  <2>5. {t \in Threads : sched.p_state[t] = "CURRENT"} = {me}
    BY <2>1 DEF BusInv, SchedInv, me
  <2>6. \A t \in Threads, b \in Buses : b \in ToSet(p_mtxlist[t]) <=> m_owner[b] = t
    BY DEF BusInv, Lists
  <2>7. ASSUME NEW b \in Buses
        PROVE  /\ \A t \in Threads : t \in ToSet(m_queue[b]) <=> sched.p_state[t] = "WTMTX" /\ wtobj[t] = b
               /\ m_owner[b] = None => m_queue[b] = <<>>
    <3>1. Queue(Threads, m_queue[b], Waiting(b), sched.p_prio) /\ (m_owner[b] = None => Waiting(b) = {})
      BY DEF BusInv, Lists
    <3>2. ToSet(m_queue[b]) = Waiting(b)
      BY <3>1 DEF Queue
    <3>3. m_queue[b] = <<>> <=> Waiting(b) = {}
      BY <3>1, QueueEmpty
    <3>4. \A t \in Threads : Stop(sched, t) = "WTMTX" <=> sched.p_state[t] = "WTMTX"
      BY DEF Stop, Stopped
    <3> QED
      BY <3>1, <3>2, <3>3, <3>4 DEF Waiting
  <2> QED
    BY <2>2, <2>3, <2>4, <2>5, <2>6, <2>7 DEF TypeOK
<1> QED
  BY <1>1, Invariant, PTL

\* Whatever raises, lowers, readies or stops a thread, the one that runs is
\* the best that could (chSchWakeupS, _port_irq_epilogue).
THEOREM HighestPriorityRuns == Spec => []CurrentIsHighest
<1>1. BusInv => CurrentIsHighest
  BY HighestIsReady DEF BusInv, CurrentIsHighest
<1> QED
  BY <1>1, Invariant, PTL

\* The loop of chMtxLockS, the wake-ups and the releases leave every list in
\* the order of priority (chmtx.c 129-171, prio_insert).
THEOREM QueuesInOrder == Spec => []QueuesOrdered
<1>1. BusInv => QueuesOrdered
  BY DEF BusInv, SchedInv, Lists, Queue, QueuesOrdered
<1> QED
  BY <1>1, Invariant, PTL

\* Through any number of mutexes and chains of any length every priority is
\* exactly the one that is inherited (chMtxLockS, chMtxUnlock).
THEOREM InheritanceExact == Spec => []InheritsExactly
<1>1. BusInv => InheritsExactly
  <2> SUFFICES ASSUME BusInv, Unlocked, NEW t \in Threads
               PROVE  sched.p_prio[t] = Max({sched.p_realprio[t]} \cup
                        {sched.p_prio[u] : u \in UNION {ToSet(m_queue[b]) : b \in ToSet(p_mtxlist[t])}})
    BY DEF InheritsExactly
  <2> DEFINE U == UNION {ToSet(m_queue[b]) : b \in ToSet(p_mtxlist[t])}
             S == {sched.p_realprio[t]} \cup {sched.p_prio[u] : u \in U}
  <2>1. /\ sched.p_prio \in [Threads -> Nat] /\ sched.p_realprio \in [Threads -> Nat]
        /\ sched.p_realprio[t] <= sched.p_prio[t] /\ Bounded(t) /\ Earned(t)
    BY CurrentRuns, SchedFields, BusAssumption DEF BusInv, LockHeld, Priorities
  <2>2. U = {u \in Threads : WaitsFor(u, t)}
    <3>1. ToSet(p_mtxlist[t]) = {b \in Buses : m_owner[b] = t}
      BY DEF BusInv, Lists
    <3>2. \A b \in Buses : ToSet(m_queue[b]) = Waiting(b) /\ Waiting(b) \subseteq Threads
      BY DEF BusInv, Lists, Queue, Waiting
    <3>3. U = UNION {Waiting(b) : b \in {c \in Buses : m_owner[c] = t}}
      BY <3>1, <3>2
    <3> HIDE DEF U
    <3> QED
      BY <3>2, <3>3 DEF WaitsFor
  <2> HIDE DEF U
  <2>3. /\ \A u \in U : sched.p_prio[u] \in Nat /\ sched.p_prio[u] <= sched.p_prio[t]
        /\ sched.p_prio[t] = sched.p_realprio[t] \/ \E u \in U : sched.p_prio[u] = sched.p_prio[t]
    BY <2>1, <2>2 DEF Bounded, Earned
  <2>4. sched.p_prio[t] \in S /\ \A x \in S : x \in Nat /\ x <= sched.p_prio[t]
    BY <2>1, <2>3
  <2> HIDE DEF S
  <2>5. sched.p_prio[t] \in Nat /\ S \subseteq 0..sched.p_prio[t] /\ S # {}
    BY <2>1, <2>4
  <2>6. Max(S) \in S /\ \A x \in S : Max(S) >= x
    BY <2>5, MaxIsGreatest
  <2>7. sched.p_prio[t] = Max(S)
    BY <2>1, <2>4, <2>6
  <2> QED
    BY <2>7 DEF S, U
<1> QED
  BY <1>1, Invariant, PTL

\* An exchange belongs to the owner of the bus, who is suspended for it
\* (spi.h, _spi_wait_s and _spi_isr_code).
THEOREM ExchangesOwned == Spec => []ExchangeIsOwners
<1>1. BusInv => ExchangeIsOwners
  BY DEF BusInv, Exchanges, ExchangeIsOwners, Stop
<1> QED
  BY <1>1, Invariant, PTL
=============================================================================
