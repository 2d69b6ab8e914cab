-------------------------- MODULE TimedWaitsProofs -------------------------
(***************************************************************************)
(* Timed waits for every set of threads, all delays and any length of the  *)
(* tick's loop: the delta list is well formed and implements TimerService, *)
(* a timer is armed exactly during its wait, no byte's wake-up is lost and *)
(* no verdict is changed.                                                  *)
(***************************************************************************)
EXTENDS TimedWaits, SchedulerProofs

----------------------------------------------------------------------------
(* The invariant                                                           *)

Entry == [timer : Timers, vt_time : 0..(TimeMod - 1)]

\* Each timer of the list once, the first not due, no sum too large.
Sound(l) ==
    /\ l \in Seq(Entry)
    /\ \A j, k \in 1..Len(l) : l[j].timer = l[k].timer => j = k
    /\ Len(l) # 0 => l[1].vt_time # 0
    /\ Deadline(l, Len(l)) < TimeMod

Armed(l) == {l[k].timer : k \in 1..Len(l)}

TimersOk(l, func) == /\ Sound(l) /\ func \in [Timers -> BOOLEAN]
                     /\ Armed(l) = {t \in Timers : func[t]}
TimerInv == TimersOk(vtlist, vt_func) /\ fired \subseteq Timers

Places == {"run", "wait", "loop"}
Messages == [Timers -> {"OK", "TIMEOUT"}]

WaitTypes ==
    /\ isr \in BOOLEAN /\ count \in 0..Capacity
    /\ pc \in [Timers -> Places]
    /\ time \in [Timers -> Delays]
    /\ rdymsg \in Messages

\* q holds the threads of S, each once, in any order.
Fifo(T, q, S) == q \in Seq(T) /\ IsInjective(q) /\ ToSet(q) = S

\* The threads that wait for a byte.
Readers(k) == {t \in Threads : Stop(k, t) = "WTQUEUE"}

\* The threads that have been readied in a wait for a byte, or look for it.
Way(k, place, msg) ==
    {t \in Timers : place[t] \in {"wait", "loop"} /\ Stop(k, t) = "runs" /\ msg[t] = "OK"}

\* A thread stops inside a wait, its timer armed if the wait has a limit.
WaitOf(k, place, limit, func, msg, t) ==
    /\ Stop(k, t) \in {"runs", "SLEEPING", "WTQUEUE"}
    /\ Stop(k, t) # "runs" => place[t] = "wait" /\ (limit[t] # TIME_INFINITE => func[t])
    /\ func[t] => place[t] = "wait" /\ limit[t] # TIME_INFINITE
    /\ place[t] = "loop" => t = k.currp /\ msg[t] = "OK"

\* Interrupts find no thread inside the lock.
Waits ==
    /\ isr => ~Locked
    /\ \A t \in Timers : WaitOf(sched, pc, time, vt_func, rdymsg, t)

BytesKept(k, q, n, place, msg) == q # <<>> => n <= Cardinality(Way(k, place, msg))

WaitInv ==
    /\ TimerInv /\ WaitTypes /\ SchedInv(sched)
    /\ Fifo(Threads, q_waiting, Readers(sched))
    /\ Waits
    /\ BytesKept(sched, q_waiting, count, pc, rdymsg)

----------------------------------------------------------------------------
(* The sums of deltas                                                      *)

LEMMA EntryFields ==
    ASSUME NEW l \in Seq(Entry)
    PROVE  /\ Len(l) \in Nat /\ DOMAIN l = 1..Len(l)
           /\ \A k \in 1..Len(l) : /\ l[k] \in Entry /\ l[k].timer \in Timers
                                   /\ l[k].vt_time \in 0..(TimeMod - 1) /\ l[k].vt_time \in Nat
<1>1. Len(l) \in Nat /\ DOMAIN l = 1..Len(l) /\ \A k \in 1..Len(l) : l[k] \in Entry
  OBVIOUS
<1>2. \A e \in Entry : e.timer \in Timers /\ e.vt_time \in 0..(TimeMod - 1) /\ e.vt_time \in Nat
  BY TimeModAssumption DEF Entry
<1> QED
  BY <1>1, <1>2

\* The functions that the definition of Deadline chooses from, up to m.
Sums(l, m) ==
    {f \in [0..m -> Int] : f = [n \in 0..m |-> IF n = 0 THEN 0 ELSE f[n - 1] + l[n].vt_time]}

LEMMA SumsExist ==
    ASSUME NEW l \in Seq(Entry)
    PROVE  \E f : f \in Sums(l, Len(l))
<1> DEFINE S == {m \in 0..Len(l) : \E f : f \in Sums(l, m)}
<1>1. 0 \in S
  <2>1. [n \in 0..0 |-> 0] \in Sums(l, 0)
    BY DEF Sums
  <2> QED
    BY <2>1, EntryFields
<1>2. ASSUME NEW m \in 0..(Len(l) - 1), m \in S
      PROVE  m + 1 \in S
  <2>1. PICK f : f \in Sums(l, m)
    BY <1>2
  <2> DEFINE g == [n \in 0..(m + 1) |-> IF n <= m THEN f[n] ELSE f[m] + l[m + 1].vt_time]
  <2>2. f \in [0..m -> Int] /\ l[m + 1].vt_time \in Int
    BY <2>1, EntryFields DEF Sums
  <2>3. ASSUME NEW n \in 0..(m + 1)
        PROVE  g[n] = IF n = 0 THEN 0 ELSE g[n - 1] + l[n].vt_time
    <3>1. CASE n = m + 1
      BY <3>1, <2>2
    <3>2. CASE n # m + 1
      <4>1. n \in 0..m /\ (n # 0 => n - 1 \in 0..m)
        BY <3>2
      <4>2. f[n] = IF n = 0 THEN 0 ELSE f[n - 1] + l[n].vt_time
        BY <4>1, <2>1 DEF Sums
      <4> QED
        BY <4>1, <4>2
    <3> QED
      BY <3>1, <3>2
  <2>4. g \in [0..(m + 1) -> Int]
    BY <2>2
  <2>5. g = [n \in 0..(m + 1) |-> IF n = 0 THEN 0 ELSE g[n - 1] + l[n].vt_time]
    BY <2>3
  <2>6. g \in Sums(l, m + 1)
    <3> HIDE DEF g
    <3> QED
      BY <2>4, <2>5 DEF Sums
  <2>7. m + 1 \in 0..Len(l)
    BY EntryFields
  <2> QED
    BY <2>6, <2>7
<1>3. 0..Len(l) \subseteq S
  <2> HIDE DEF S
  <2> QED
    BY <1>1, <1>2, UpTo, EntryFields
<1> QED
  BY <1>3, EntryFields

\* The defining equation.
LEMMA DeadlineDef ==
    ASSUME NEW l \in Seq(Entry)
    PROVE  /\ Deadline(l, 0) = 0
           /\ \A k \in 1..Len(l) : Deadline(l, k) = Deadline(l, k - 1) + l[k].vt_time
<1> DEFINE sum == CHOOSE f : f = [n \in 0..Len(l) |-> IF n = 0 THEN 0 ELSE f[n - 1] + l[n].vt_time]
<1>1. sum = [n \in 0..Len(l) |-> IF n = 0 THEN 0 ELSE sum[n - 1] + l[n].vt_time]
  BY SumsExist DEF Sums
<1>2. \A k : Deadline(l, k) = sum[k]
  BY DEF Deadline
<1> HIDE DEF sum
<1>3. \A n \in 0..Len(l) : sum[n] = IF n = 0 THEN 0 ELSE sum[n - 1] + l[n].vt_time
  BY <1>1
<1> QED
  BY <1>2, <1>3, EntryFields

\* g adds up the deltas of l.
AddsUp(l, g) == g[0] = 0 /\ \A k \in 1..Len(l) : g[k] = g[k - 1] + l[k].vt_time

\* Whatever adds up the deltas is the deadline.
LEMMA DeadlineUnique ==
    ASSUME NEW l \in Seq(Entry), NEW g, AddsUp(l, g)
    PROVE  \A k \in 0..Len(l) : Deadline(l, k) = g[k]
<1> DEFINE S == {k \in 0..Len(l) : Deadline(l, k) = g[k]}
<1>1. 0 \in S
  BY DeadlineDef, EntryFields DEF AddsUp
<1>2. ASSUME NEW k \in 0..(Len(l) - 1), k \in S
      PROVE  k + 1 \in S
  <2>1. k + 1 \in 1..Len(l) /\ k + 1 \in 0..Len(l) /\ (k + 1) - 1 = k
    BY EntryFields
  <2>2. Deadline(l, k + 1) = Deadline(l, k) + l[k + 1].vt_time
    BY <2>1, DeadlineDef
  <2>3. g[k + 1] = g[k] + l[k + 1].vt_time
    BY <2>1 DEF AddsUp
  <2> QED
    BY <1>2, <2>1, <2>2, <2>3
<1>3. 0..Len(l) \subseteq S
  <2> HIDE DEF S
  <2> QED
    BY <1>1, <1>2, UpTo, EntryFields
<1> QED
  BY <1>3

LEMMA DeadlineNat ==
    ASSUME NEW l \in Seq(Entry)
    PROVE  \A k \in 0..Len(l) : Deadline(l, k) \in Nat
<1> DEFINE S == {k \in 0..Len(l) : Deadline(l, k) \in Nat}
<1>1. 0 \in S
  BY DeadlineDef, EntryFields
<1>2. ASSUME NEW k \in 0..(Len(l) - 1), k \in S
      PROVE  k + 1 \in S
  <2>1. k + 1 \in 1..Len(l) /\ k + 1 \in 0..Len(l) /\ (k + 1) - 1 = k
    BY EntryFields
  <2>2. Deadline(l, k + 1) = Deadline(l, k) + l[k + 1].vt_time
    BY <2>1, DeadlineDef
  <2> QED
    BY <1>2, <2>1, <2>2, EntryFields
<1>3. 0..Len(l) \subseteq S
  <2> HIDE DEF S
  <2> QED
    BY <1>1, <1>2, UpTo, EntryFields
<1> QED
  BY <1>3

\* Later timers have later deadlines.
LEMMA DeadlineMonotone ==
    ASSUME NEW l \in Seq(Entry), NEW j \in 0..Len(l)
    PROVE  \A k \in 0..Len(l) : j <= k => Deadline(l, j) <= Deadline(l, k)
<1> DEFINE S == {k \in 0..Len(l) : j <= k => Deadline(l, j) <= Deadline(l, k)}
<1>1. 0 \in S
  BY DeadlineNat, EntryFields
<1>2. ASSUME NEW k \in 0..(Len(l) - 1), k \in S
      PROVE  k + 1 \in S
  <2>1. k + 1 \in 1..Len(l) /\ k + 1 \in 0..Len(l) /\ (k + 1) - 1 = k /\ k \in 0..Len(l)
    BY EntryFields
  <2>2. Deadline(l, k + 1) = Deadline(l, k) + l[k + 1].vt_time /\ l[k + 1].vt_time \in Nat
    BY <2>1, DeadlineDef, EntryFields
  <2>3. Deadline(l, j) \in Nat /\ Deadline(l, k) \in Nat
    BY <2>1, DeadlineNat
  <2>4. j <= k + 1 => j <= k \/ j = k + 1
    BY EntryFields
  <2> QED
    BY <1>2, <2>1, <2>2, <2>3, <2>4
<1>3. 0..Len(l) \subseteq S
  <2> HIDE DEF S
  <2> QED
    BY <1>1, <1>2, UpTo, EntryFields
<1> QED
  BY <1>3

\* What remaining is of list l.
RemainingOf(l) ==
    [t \in Timers |->
        LET place == {k \in DOMAIN l : l[k].timer = t}
        IN  IF place = {} THEN 0 ELSE Deadline(l, CHOOSE k \in place : TRUE)]

LEMMA DeadlineRange ==
    ASSUME NEW l, Sound(l)
    PROVE  /\ \A k \in 0..Len(l) : Deadline(l, k) \in 0..(TimeMod - 1)
           /\ \A k \in 1..Len(l) : Deadline(l, k) # 0
<1>1. l \in Seq(Entry) /\ Len(l) \in Nat
  BY EntryFields DEF Sound
<1>2. ASSUME NEW k \in 0..Len(l)
      PROVE  Deadline(l, k) \in 0..(TimeMod - 1)
  <2>1. Deadline(l, k) \in Nat /\ Deadline(l, Len(l)) \in Nat /\ Deadline(l, k) <= Deadline(l, Len(l))
    BY <1>1, DeadlineNat, DeadlineMonotone
  <2> QED
    BY <2>1, TimeModAssumption DEF Sound
<1>3. ASSUME NEW k \in 1..Len(l)
      PROVE  Deadline(l, k) # 0
  <2>1. 1 \in 0..Len(l) /\ 1 \in 1..Len(l) /\ k \in 0..Len(l) /\ 1 <= k
    BY <1>1
  <2>2. Deadline(l, 1) <= Deadline(l, k)
    BY <1>1, <2>1, DeadlineMonotone
  <2>3. Deadline(l, 1) = l[1].vt_time /\ l[1].vt_time \in Nat /\ l[1].vt_time # 0
    BY <1>1, <2>1, DeadlineDef, EntryFields DEF Sound
  <2>4. Deadline(l, k) \in Nat
    BY <1>1, <2>1, DeadlineNat
  <2> QED
    BY <2>2, <2>3, <2>4
<1> QED
  BY <1>2, <1>3

LEMMA RemainingAt ==
    ASSUME NEW l, Sound(l)
    PROVE  /\ \A k \in 1..Len(l) : RemainingOf(l)[l[k].timer] = Deadline(l, k)
           /\ \A t \in Timers \ Armed(l) : RemainingOf(l)[t] = 0
<1>1. l \in Seq(Entry) /\ DOMAIN l = 1..Len(l) /\ \A k \in 1..Len(l) : l[k].timer \in Timers
  BY EntryFields DEF Sound
<1>2. ASSUME NEW k \in 1..Len(l)
      PROVE  RemainingOf(l)[l[k].timer] = Deadline(l, k)
  <2>1. {j \in DOMAIN l : l[j].timer = l[k].timer} = {k}
    BY <1>1 DEF Sound
  <2> QED
    BY <1>1, <2>1 DEF RemainingOf
<1>3. ASSUME NEW t \in Timers \ Armed(l)
      PROVE  RemainingOf(l)[t] = 0
  <2>1. {k \in DOMAIN l : l[k].timer = t} = {}
    BY <1>1 DEF Armed
  <2> QED
    BY <2>1 DEF RemainingOf
<1> QED
  BY <1>2, <1>3

LEMMA RemainingRange ==
    ASSUME NEW l, Sound(l), NEW t \in Timers
    PROVE  /\ RemainingOf(l)[t] \in 0..(TimeMod - 1)
           /\ RemainingOf(l)[t] # 0 <=> t \in Armed(l)
<1>1. CASE t \in Armed(l)
  <2>1. PICK k \in 1..Len(l) : l[k].timer = t
    BY <1>1 DEF Armed
  <2>2. k \in 0..Len(l)
    BY EntryFields DEF Sound
  <2>3. RemainingOf(l)[t] = Deadline(l, k)
    BY <2>1, RemainingAt
  <2> QED
    BY <1>1, <2>2, <2>3, DeadlineRange
<1>2. CASE t \notin Armed(l)
  BY <1>2, RemainingAt, TimeModAssumption
<1> QED
  BY <1>1, <1>2

----------------------------------------------------------------------------
(* Arming a timer                                                          *)

\* The place where the search stops.
Stops(l, time0, p) ==
    /\ p \in 1..(Len(l) + 1)
    /\ p <= Len(l) => l[p].vt_time >= time0 - Deadline(l, p - 1)
    /\ \A q \in 1..(p - 1) : l[q].vt_time < time0 - Deadline(l, q - 1)

LEMMA SearchStops ==
    ASSUME NEW l \in Seq(Entry), NEW n \in Int
    PROVE  Stops(l, n, Place(l, n))
<1>1. Len(l) \in Nat /\ \A k \in 1..Len(l) : l[k].vt_time \in Nat
  BY EntryFields
<1>2. \A k \in 0..Len(l) : Deadline(l, k) \in Nat
  BY DeadlineNat
<1> DEFINE C == {p \in 1..(Len(l) + 1) : p <= Len(l) => l[p].vt_time >= n - Deadline(l, p - 1)}
<1>3. Len(l) + 1 \in C /\ C \subseteq Nat /\ C # {}
  BY <1>1
<1>4. PICK p \in C : \A k \in C : p <= k
  <2> HIDE DEF C
  <2> QED
    BY <1>3, LeastExists
<1>5. ASSUME NEW q \in 1..(p - 1)
      PROVE  l[q].vt_time < n - Deadline(l, q - 1)
  <2>1. p \in 1..(Len(l) + 1)
    BY <1>4
  <2>2. q \in 1..Len(l) /\ q - 1 \in 0..Len(l) /\ ~(p <= q)
    BY <1>1, <2>1
  <2>3. q \notin C
    <3> HIDE DEF C
    <3> QED
      BY <2>2, <1>4
  <2> QED
    BY <2>2, <2>3, <1>1, <1>2
<1>6. Stops(l, n, p)
  BY <1>4, <1>5 DEF Stops
<1>7. \E x \in 1..(Len(l) + 1) :
          /\ x <= Len(l) => l[x].vt_time >= n - Deadline(l, x - 1)
          /\ \A q \in 1..(x - 1) : l[q].vt_time < n - Deadline(l, q - 1)
  BY <1>6 DEF Stops
<1> QED
  BY <1>7 DEF Stops, Place

\* Before it lie the timers that come earlier, behind it those that do not.
LEMMA PlaceIsBetween ==
    ASSUME NEW l \in Seq(Entry), NEW n \in Delays, NEW p, Stops(l, n, p)
    PROVE  /\ p \in 1..(Len(l) + 1)
           /\ Deadline(l, p - 1) \in Nat /\ Deadline(l, p - 1) < n
           /\ p <= Len(l) => n <= Deadline(l, p)
<1>1. p \in 1..(Len(l) + 1) /\ Len(l) \in Nat /\ n \in Nat /\ n # 0
  BY EntryFields, TimeModAssumption DEF Stops, Delays
<1>2. p - 1 \in 0..Len(l) /\ Deadline(l, p - 1) \in Nat
  BY <1>1, DeadlineNat
<1>3. Deadline(l, p - 1) < n
  <2>1. CASE p = 1
    BY <1>1, <2>1, DeadlineDef
  <2>2. CASE p # 1
    <3>1. p - 1 \in 1..(p - 1) /\ p - 1 \in 1..Len(l) /\ (p - 1) - 1 \in 0..Len(l)
      BY <1>1, <2>2
    <3>2. l[p - 1].vt_time < n - Deadline(l, (p - 1) - 1)
      BY <3>1 DEF Stops
    <3>3. Deadline(l, p - 1) = Deadline(l, (p - 1) - 1) + l[p - 1].vt_time
      BY <3>1, DeadlineDef
    <3>4. Deadline(l, (p - 1) - 1) \in Nat /\ l[p - 1].vt_time \in Nat
      BY <3>1, DeadlineNat, EntryFields
    <3> QED
      BY <1>1, <1>2, <3>2, <3>3, <3>4
  <2> QED
    BY <2>1, <2>2
<1>4. ASSUME p <= Len(l)
      PROVE  n <= Deadline(l, p)
  <2>1. p \in 1..Len(l)
    BY <1>1, <1>4
  <2>2. Deadline(l, p) = Deadline(l, p - 1) + l[p].vt_time /\ l[p].vt_time \in Nat
    BY <2>1, DeadlineDef, EntryFields
  <2>3. l[p].vt_time >= n - Deadline(l, p - 1)
    BY <1>4 DEF Stops
  <2> QED
    BY <1>1, <1>2, <2>2, <2>3
<1> QED
  BY <1>1, <1>2, <1>3, <1>4

\* r is l with timer t at place p, n ticks from now.
Arms(l, t, n, p, r) ==
    /\ r \in Seq(Entry) /\ Len(r) = Len(l) + 1
    /\ r[p].timer = t /\ r[p].vt_time = n - Deadline(l, p - 1)
    /\ \A i \in 1..(p - 1) : r[i] = l[i]
    /\ \A i \in (p + 1)..(Len(l) + 1) :
          /\ r[i].timer = l[i - 1].timer
          /\ r[i].vt_time = IF i = p + 1 THEN Deadline(l, p) - n ELSE l[i - 1].vt_time

\* As in the lemma InsertedAt, also behind the last element.
LEMMA InsertedAnywhere ==
    ASSUME NEW T, NEW q \in Seq(T), NEW t \in T, NEW p \in 1..(Len(q) + 1)
    PROVE  InsertAt(q, p, t) \in Seq(T) /\ Inserts(q, t, p, InsertAt(q, p, t))
<1>1. CASE p # Len(q) + 1
  <2> DEFINE r == IF p = Len(q) + 1 THEN Append(q, t) ELSE InsertAt(q, p, t)
  <2>1. r = InsertAt(q, p, t)
    BY <1>1
  <2>2. /\ r \in Seq(T) /\ Len(r) = Len(q) + 1 /\ r[p] = t
        /\ \A i \in 1..(p - 1) : r[i] = q[i]
        /\ \A i \in (p + 1)..(Len(q) + 1) : r[i] = q[i - 1]
    BY InsertedAt
  <2> HIDE DEF r
  <2>3. Inserts(q, t, p, r)
    BY <2>2 DEF Inserts
  <2> QED
    BY <2>1, <2>2, <2>3
<1>2. CASE p = Len(q) + 1
  <2> DEFINE a == SubSeq(q, 1, p - 1)
             b == SubSeq(q, p, Len(q))
             r == (a \o <<t>>) \o b
  <2>1. Len(q) \in Nat
    OBVIOUS
  <2>2. a \in Seq(T) /\ Len(a) = Len(q) /\ \A i \in 1..Len(q) : a[i] = q[i]
    BY <1>2
  <2>3. b \in Seq(T) /\ Len(b) = 0
    BY <1>2
  <2>4. InsertAt(q, p, t) = r
    BY DEF InsertAt
  <2> HIDE DEF a, b
  <2>5. r \in Seq(T) /\ Junction(a, t, b, r)
    BY <2>2, <2>3, Joined
  <2> HIDE DEF r
  <2>6. Inserts(q, t, p, r)
    BY <1>2, <2>1, <2>2, <2>3, <2>5 DEF Inserts, Junction
  <2> QED
    BY <2>4, <2>5, <2>6
<1> QED
  BY <1>1, <1>2

LEMMA InsertedArms ==
    ASSUME NEW l, Sound(l), NEW t \in Timers, NEW n \in Delays
    PROVE  \E p : Stops(l, n, p) /\ Arms(l, t, n, p, Inserted(l, t, n))
<1> DEFINE p == Place(l, n)
           delta == n - Deadline(l, p - 1)
           e == [timer |-> t, vt_time |-> delta]
           m == [k \in DOMAIN l |->
                    IF k = p THEN [l[k] EXCEPT !.vt_time = Minus(@, delta)] ELSE l[k]]
           r == InsertAt(m, p, e)
<1>1. Inserted(l, t, n) = r
  BY DEF Inserted
<1>2. l \in Seq(Entry) /\ n \in Nat /\ n < TimeMod
  BY TimeModAssumption DEF Sound, Delays
<1>3. Stops(l, n, p)
  BY <1>2, SearchStops
<1> HIDE DEF p
<1>4. /\ p \in 1..(Len(l) + 1)
      /\ Deadline(l, p - 1) \in Nat /\ Deadline(l, p - 1) < n
      /\ p <= Len(l) => n <= Deadline(l, p)
  BY <1>2, <1>3, PlaceIsBetween
<1>5. delta \in 0..(TimeMod - 1) /\ delta \in Nat
  BY <1>2, <1>4, TimeModAssumption
<1>6. Len(l) \in Nat /\ DOMAIN l = 1..Len(l)
  BY <1>2, EntryFields
<1>7. ASSUME NEW k \in 1..Len(l)
      PROVE  /\ m[k] \in Entry /\ m[k].timer = l[k].timer
             /\ k # p => m[k] = l[k]
             /\ k = p => m[k].vt_time = Deadline(l, p) - n
  <2>1. l[k] \in Entry /\ l[k].vt_time \in 0..(TimeMod - 1)
    BY <1>2, EntryFields
  <2>2. CASE k # p
    <3>1. m[k] = l[k]
      BY <1>6, <2>2
    <3> QED
      BY <2>1, <2>2, <3>1
  <2>3. CASE k = p
    <3>1. m[k] = [l[k] EXCEPT !.vt_time = Minus(l[k].vt_time, delta)]
      BY <1>6, <2>3
    <3>2. l[k].vt_time - delta = Deadline(l, p) - n /\ Deadline(l, p) \in Nat /\ p <= Len(l)
      BY <1>2, <1>4, <2>1, <2>3, DeadlineDef
    <3>3. l[k].vt_time - delta \in 0..(TimeMod - 1)
      <4>1. Deadline(l, p) - n >= 0
        BY <1>2, <1>4, <3>2
      <4> HIDE DEF delta, m, e
      <4>2. PICK x \in 0..(TimeMod - 1), y \in Nat : x = l[k].vt_time /\ y = delta
        BY <1>5, <2>1
      <4>3. x - y >= 0
        BY <3>2, <4>1, <4>2
      <4> QED
        BY <4>2, <4>3, TimeModAssumption
    <3>4. Minus(l[k].vt_time, delta) = l[k].vt_time - delta
      <4> HIDE DEF delta
      <4>1. PICK x \in 0..(TimeMod - 1) : x = l[k].vt_time - delta
        BY <3>3
      <4>2. x % TimeMod = x
        BY TimeModAssumption
      <4> QED
        BY <4>1, <4>2 DEF Minus
    <3> HIDE DEF m, delta
    <3>5. m[k] \in Entry /\ m[k].timer = l[k].timer /\ m[k].vt_time = l[k].vt_time - delta
      BY <2>1, <3>1, <3>3, <3>4 DEF Entry
    <3> QED
      BY <2>3, <3>2, <3>5
  <2> QED
    BY <2>2, <2>3
<1>8. m \in Seq(Entry) /\ Len(m) = Len(l)
  <2>1. DOMAIN m = 1..Len(l)
    BY <1>6
  <2>2. m = [k \in 1..Len(l) |-> m[k]]
    BY <2>1
  <2> HIDE DEF m
  <2> QED
    BY <1>6, <1>7, <2>2
<1>9. e \in Entry /\ e.timer = t /\ e.vt_time = delta
  <2> HIDE DEF delta
  <2> QED
    BY <1>5 DEF Entry
<1> HIDE DEF m, e
<1>10. r \in Seq(Entry) /\ Inserts(m, e, p, r)
  BY <1>4, <1>8, <1>9, InsertedAnywhere
<1> HIDE DEF r
<1>11. Arms(l, t, n, p, r)
  <2>1. r \in Seq(Entry) /\ Len(r) = Len(l) + 1 /\ r[p].timer = t /\ r[p].vt_time = n - Deadline(l, p - 1)
    BY <1>8, <1>9, <1>10 DEF Inserts
  <2>2. ASSUME NEW i \in 1..(p - 1)
        PROVE  r[i] = l[i]
    <3>1. i \in 1..Len(l) /\ i # p
      BY <1>4, <1>6
    <3> QED
      BY <3>1, <1>7, <1>10 DEF Inserts
  <2>3. ASSUME NEW i \in (p + 1)..(Len(l) + 1)
        PROVE  /\ r[i].timer = l[i - 1].timer
               /\ r[i].vt_time = IF i = p + 1 THEN Deadline(l, p) - n ELSE l[i - 1].vt_time
    <3>1. i - 1 \in 1..Len(l) /\ (i - 1 = p <=> i = p + 1)
      BY <1>4, <1>6
    <3>2. r[i] = m[i - 1]
      BY <1>8, <1>10 DEF Inserts
    <3> QED
      BY <3>1, <3>2, <1>7
  <2> QED
    BY <2>1, <2>2, <2>3 DEF Arms
<1> QED
  BY <1>1, <1>3, <1>11

\* The deadlines of the others stay, the new one's is n.
LEMMA ArmedSums ==
    ASSUME NEW l, Sound(l), NEW t \in Timers, NEW n \in Delays, NEW p, NEW r,
           Stops(l, n, p), Arms(l, t, n, p, r)
    PROVE  \A k \in 0..(Len(l) + 1) :
              Deadline(r, k) = IF k < p THEN Deadline(l, k) ELSE IF k = p THEN n ELSE Deadline(l, k - 1)
<1> DEFINE g == [k \in 0..(Len(l) + 1) |->
                    IF k < p THEN Deadline(l, k) ELSE IF k = p THEN n ELSE Deadline(l, k - 1)]
<1>1. l \in Seq(Entry) /\ Len(l) \in Nat /\ r \in Seq(Entry) /\ Len(r) = Len(l) + 1 /\ n \in Nat
  BY EntryFields, TimeModAssumption DEF Sound, Arms, Delays
<1>2. p \in 1..(Len(l) + 1)
  BY DEF Stops
<1>3. \A k \in 0..Len(l) : Deadline(l, k) \in Nat
  BY <1>1, DeadlineNat
<1>4. g[0] = 0
  BY <1>1, <1>2, DeadlineDef
<1>5. ASSUME NEW k \in 1..(Len(l) + 1)
      PROVE  g[k] = g[k - 1] + r[k].vt_time
  <2>1. CASE k < p
    <3>1. k \in 1..(p - 1) /\ k \in 1..Len(l) /\ k - 1 < p /\ k - 1 \in 0..(Len(l) + 1)
      BY <1>1, <1>2, <2>1
    <3>2. r[k] = l[k] /\ Deadline(l, k) = Deadline(l, k - 1) + l[k].vt_time
      BY <1>1, <3>1, DeadlineDef DEF Arms
    <3> QED
      BY <2>1, <3>1, <3>2
  <2>2. CASE k = p
    <3>1. k - 1 < p /\ k - 1 \in 0..Len(l) /\ k - 1 \in 0..(Len(l) + 1)
      BY <1>1, <1>2, <2>2
    <3>2. r[k].vt_time = n - Deadline(l, k - 1) /\ Deadline(l, k - 1) \in Nat
      BY <1>3, <2>2, <3>1 DEF Arms
    <3> QED
      BY <1>1, <2>2, <3>1, <3>2
  <2>3. CASE k = p + 1
    <3>1. k \in (p + 1)..(Len(l) + 1) /\ k - 1 = p /\ p \in 0..Len(l) /\ ~(k < p) /\ k # p
      BY <1>1, <1>2, <2>3
    <3>2. r[k].vt_time = Deadline(l, p) - n /\ Deadline(l, p) \in Nat
      BY <1>3, <2>3, <3>1 DEF Arms
    <3>3. g[k] = Deadline(l, p) /\ g[k - 1] = n
      BY <1>1, <1>2, <3>1
    <3> QED
      BY <1>1, <3>2, <3>3
  <2>4. CASE k > p + 1
    <3>1. /\ k \in (p + 1)..(Len(l) + 1) /\ k # p + 1 /\ k - 1 \in 1..Len(l) /\ k - 1 \in 0..(Len(l) + 1)
          /\ ~(k < p) /\ k # p /\ ~(k - 1 < p) /\ k - 1 # p
      BY <1>1, <1>2, <2>4
    <3>2. r[k].vt_time = l[k - 1].vt_time /\ Deadline(l, k - 1) = Deadline(l, (k - 1) - 1) + l[k - 1].vt_time
      BY <1>1, <3>1, DeadlineDef DEF Arms
    <3>3. g[k] = Deadline(l, k - 1) /\ g[k - 1] = Deadline(l, (k - 1) - 1)
      BY <3>1
    <3> QED
      BY <3>2, <3>3
  <2> QED
    BY <1>1, <1>2, <2>1, <2>2, <2>3, <2>4
<1> HIDE DEF g
<1>6. AddsUp(r, g)
  BY <1>1, <1>4, <1>5 DEF AddsUp
<1>7. \A k \in 0..Len(r) : Deadline(r, k) = g[k]
  BY <1>1, <1>6, DeadlineUnique
<1> QED
  BY <1>1, <1>7 DEF g

\* A sound list from its deadlines.
LEMMA SoundBySums ==
    ASSUME NEW r \in Seq(Entry),
           \A j, k \in 1..Len(r) : r[j].timer = r[k].timer => j = k,
           Len(r) # 0 => Deadline(r, 1) # 0,
           Deadline(r, Len(r)) < TimeMod
    PROVE  Sound(r)
<1>1. ASSUME Len(r) # 0
      PROVE  r[1].vt_time # 0
  <2>1. 1 \in 1..Len(r) /\ 1 - 1 = 0
    BY <1>1, EntryFields
  <2>2. Deadline(r, 1) = 0 + r[1].vt_time /\ r[1].vt_time \in Nat
    BY <2>1, DeadlineDef, EntryFields
  <2> QED
    BY <1>1, <2>2
<1> QED
  BY <1>1 DEF Sound

\* Arming t for n ticks on a list without t.
LEMMA InsertedSound ==
    ASSUME NEW l, Sound(l), NEW t \in Timers \ Armed(l), NEW n \in Delays
    PROVE  LET r == Inserted(l, t, n)
           IN  /\ Sound(r) /\ Armed(r) = Armed(l) \cup {t}
               /\ RemainingOf(r)[t] = n
               /\ \A u \in Timers \ {t} : RemainingOf(r)[u] = RemainingOf(l)[u]
<1> DEFINE r == Inserted(l, t, n)
<1>1. PICK p : Stops(l, n, p) /\ Arms(l, t, n, p, r)
  BY InsertedArms
<1> HIDE DEF r
<1>2. /\ l \in Seq(Entry) /\ Len(l) \in Nat /\ p \in 1..(Len(l) + 1)
      /\ r \in Seq(Entry) /\ Len(r) = Len(l) + 1 /\ n \in Nat /\ n # 0 /\ n < TimeMod
  BY <1>1, EntryFields, TimeModAssumption DEF Sound, Stops, Arms, Delays
<1>3. \A k \in 0..(Len(l) + 1) :
         Deadline(r, k) = IF k < p THEN Deadline(l, k) ELSE IF k = p THEN n ELSE Deadline(l, k - 1)
  BY <1>1, ArmedSums
<1>4. ASSUME NEW i \in 1..(Len(l) + 1), i # p
      PROVE  Before(p, i) \in 1..Len(l) /\ r[i].timer = l[Before(p, i)].timer /\ r[i].timer # t
  <2>1. CASE i < p
    <3>1. i \in 1..(p - 1) /\ i \in 1..Len(l) /\ Before(p, i) = i
      BY <1>2, <2>1 DEF Before
    <3> QED
      BY <1>1, <3>1 DEF Arms, Armed
  <2>2. CASE i > p
    <3>1. i \in (p + 1)..(Len(l) + 1) /\ i - 1 \in 1..Len(l) /\ Before(p, i) = i - 1
      BY <1>2, <2>2 DEF Before
    <3> QED
      BY <1>1, <3>1 DEF Arms, Armed
  <2> QED
    BY <1>2, <1>4, <2>1, <2>2
<1>5. p \in 1..(Len(l) + 1) /\ r[p].timer = t
  BY <1>1, <1>2 DEF Arms
<1>6. ASSUME NEW i \in 1..(Len(l) + 1), NEW j \in 1..(Len(l) + 1), r[i].timer = r[j].timer
      PROVE  i = j
  <2>1. CASE i # p /\ j # p
    <3>1. Before(p, i) = Before(p, j)
      BY <1>4, <1>6, <2>1 DEF Sound
    <3> QED
      BY <1>2, <2>1, <3>1 DEF Before
  <2> QED
    BY <1>4, <1>5, <1>6, <2>1
<1>7. ASSUME NEW k \in 1..Len(l)
      PROVE  \E i \in 1..(Len(l) + 1) :
                i # p /\ r[i].timer = l[k].timer /\ Deadline(r, i) = Deadline(l, k)
  <2>1. CASE k < p
    <3>1. k \in 1..(p - 1) /\ k \in 1..(Len(l) + 1) /\ k \in 0..(Len(l) + 1) /\ k # p
      BY <1>2, <2>1
    <3> QED
      BY <1>1, <1>3, <2>1, <3>1 DEF Arms
  <2>2. CASE k >= p
    <3>1. /\ k + 1 \in (p + 1)..(Len(l) + 1) /\ k + 1 \in 1..(Len(l) + 1) /\ k + 1 \in 0..(Len(l) + 1)
          /\ k + 1 # p /\ ~(k + 1 < p) /\ (k + 1) - 1 = k
      BY <1>2, <2>2
    <3> QED
      BY <1>1, <1>3, <3>1 DEF Arms
  <2> QED
    BY <1>2, <2>1, <2>2
<1>8. Armed(r) = Armed(l) \cup {t}
  <2>1. \A i \in 1..(Len(l) + 1) : r[i].timer \in Armed(l) \cup {t}
    BY <1>4, <1>5 DEF Armed
  <2>2. \A k \in 1..Len(l) : l[k].timer \in Armed(r)
    BY <1>2, <1>7 DEF Armed
  <2>3. t \in Armed(r)
    BY <1>2, <1>5 DEF Armed
  <2> QED
    BY <1>2, <2>1, <2>2, <2>3 DEF Armed
<1>9. Sound(r)
  <2>1. Deadline(r, 1) # 0
    <3>1. CASE p = 1
      BY <1>2, <1>3, <3>1
    <3>2. CASE p # 1
      <4>1. 1 \in 1..Len(l) /\ 1 \in 0..(Len(l) + 1) /\ 1 < p
        BY <1>2, <3>2
      <4> QED
        BY <4>1, <1>3, DeadlineRange
    <3> QED
      BY <3>1, <3>2
  <2>2. Deadline(r, Len(r)) < TimeMod
    <3>1. Len(l) + 1 \in 0..(Len(l) + 1) /\ ~(Len(l) + 1 < p) /\ (Len(l) + 1) - 1 = Len(l)
      BY <1>2
    <3>2. Deadline(r, Len(l) + 1) = IF Len(l) + 1 = p THEN n ELSE Deadline(l, Len(l))
      BY <1>3, <3>1
    <3> QED
      BY <1>2, <3>2 DEF Sound
  <2> QED
    BY <1>2, <1>6, <2>1, <2>2, SoundBySums
<1>10. RemainingOf(r)[t] = n
  <2>1. p \in 1..Len(r) /\ p \in 0..(Len(l) + 1) /\ ~(p < p)
    BY <1>2
  <2>2. RemainingOf(r)[t] = Deadline(r, p)
    BY <1>5, <1>9, <2>1, RemainingAt
  <2> QED
    BY <1>3, <2>1, <2>2
<1>11. ASSUME NEW u \in Timers \ {t}
       PROVE  RemainingOf(r)[u] = RemainingOf(l)[u]
  <2>1. CASE u \in Armed(l)
    <3>1. PICK k \in 1..Len(l) : l[k].timer = u
      BY <2>1 DEF Armed
    <3>2. PICK i \in 1..(Len(l) + 1) : r[i].timer = l[k].timer /\ Deadline(r, i) = Deadline(l, k)
      BY <1>7
    <3>3. RemainingOf(l)[u] = Deadline(l, k)
      BY <3>1, RemainingAt
    <3>4. RemainingOf(r)[u] = Deadline(r, i)
      BY <1>2, <1>9, <3>1, <3>2, RemainingAt
    <3> QED
      BY <3>2, <3>3, <3>4
  <2>2. CASE u \notin Armed(l)
    <3>1. u \notin Armed(r)
      BY <1>8, <2>2
    <3> QED
      BY <1>9, <2>2, <3>1, RemainingAt
  <2> QED
    BY <2>1, <2>2
<1> QED
  BY <1>8, <1>9, <1>10, <1>11 DEF r

----------------------------------------------------------------------------
(* Disarming a timer                                                       *)

\* r is l without the timer at place p.
Disarms(l, p, r) ==
    /\ r \in Seq(Entry) /\ Len(r) = Len(l) - 1
    /\ \A i \in 1..(p - 1) : r[i] = l[i]
    /\ \A i \in p..(Len(l) - 1) :
          /\ r[i].timer = l[i + 1].timer
          /\ r[i].vt_time = IF i = p THEN Deadline(l, p + 1) - Deadline(l, p - 1) ELSE l[i + 1].vt_time

LEMMA RemovedDisarms ==
    ASSUME NEW l, Sound(l), NEW p \in 1..Len(l)
    PROVE  Disarms(l, p, Removed(l, p))
<1> DEFINE m == [k \in DOMAIN l |->
                    IF k = p + 1 THEN [l[k] EXCEPT !.vt_time = Plus(@, l[p].vt_time)] ELSE l[k]]
           r == RemoveAt(m, p)
<1>1. Removed(l, p) = r
  BY DEF Removed
<1>2. l \in Seq(Entry) /\ Len(l) \in Nat /\ DOMAIN l = 1..Len(l)
  BY EntryFields DEF Sound
<1>3. ASSUME NEW k \in 1..Len(l)
      PROVE  /\ m[k] \in Entry /\ m[k].timer = l[k].timer
             /\ k # p + 1 => m[k] = l[k]
             /\ k = p + 1 => m[k].vt_time = Deadline(l, p + 1) - Deadline(l, p - 1)
  <2>1. l[k] \in Entry /\ l[k].vt_time \in 0..(TimeMod - 1) /\ l[p].vt_time \in 0..(TimeMod - 1)
    BY <1>2, EntryFields
  <2>2. CASE k # p + 1
    <3>1. m[k] = l[k]
      BY <1>2, <2>2
    <3> QED
      BY <2>1, <2>2, <3>1
  <2>3. CASE k = p + 1
    <3> DEFINE sum == l[k].vt_time + l[p].vt_time
    <3>1. m[k] = [l[k] EXCEPT !.vt_time = Plus(l[k].vt_time, l[p].vt_time)]
      BY <1>2, <2>3
    <3>2. p + 1 \in 1..Len(l) /\ (p + 1) - 1 = p /\ p - 1 \in 0..Len(l) /\ p + 1 \in 0..Len(l) /\ p \in 0..Len(l)
      BY <1>2, <2>3
    <3>3. /\ Deadline(l, p + 1) = Deadline(l, p) + l[k].vt_time
          /\ Deadline(l, p) = Deadline(l, p - 1) + l[p].vt_time
      BY <1>2, <2>3, <3>2, DeadlineDef
    <3>4. /\ Deadline(l, p + 1) \in 0..(TimeMod - 1) /\ Deadline(l, p - 1) \in 0..(TimeMod - 1)
          /\ Deadline(l, p) \in 0..(TimeMod - 1)
      BY <3>2, DeadlineRange
    <3>5. sum = Deadline(l, p + 1) - Deadline(l, p - 1) /\ sum \in 0..(TimeMod - 1)
      <4> HIDE DEF m, r
      <4>1. PICK x \in 0..(TimeMod - 1), y \in 0..(TimeMod - 1),
                 d0 \in 0..(TimeMod - 1), d1 \in 0..(TimeMod - 1), d2 \in 0..(TimeMod - 1) :
               /\ x = l[k].vt_time /\ y = l[p].vt_time
               /\ d0 = Deadline(l, p - 1) /\ d1 = Deadline(l, p) /\ d2 = Deadline(l, p + 1)
        BY <2>1, <3>4
      <4>2. d2 = d1 + x /\ d1 = d0 + y
        BY <3>3, <4>1
      <4>3. x + y = d2 - d0 /\ x + y \in 0..(TimeMod - 1)
        BY <4>2, TimeModAssumption
      <4> QED
        BY <4>1, <4>3
    <3>6. Plus(l[k].vt_time, l[p].vt_time) = sum
      <4> HIDE DEF sum, m
      <4>1. PICK x \in 0..(TimeMod - 1) : x = sum
        BY <3>5
      <4>2. x % TimeMod = x
        BY TimeModAssumption
      <4> QED
        BY <4>1, <4>2 DEF Plus, sum
    <3> HIDE DEF m, sum
    <3>7. m[k] \in Entry /\ m[k].timer = l[k].timer /\ m[k].vt_time = sum
      BY <2>1, <3>1, <3>5, <3>6 DEF Entry
    <3> QED
      BY <2>3, <3>5, <3>7
  <2> QED
    BY <2>2, <2>3
<1>4. m \in Seq(Entry) /\ Len(m) = Len(l)
  <2>1. DOMAIN m = 1..Len(l)
    BY <1>2
  <2>2. m = [k \in 1..Len(l) |-> m[k]]
    BY <2>1
  <2> HIDE DEF m
  <2> QED
    BY <1>2, <1>3, <2>2
<1> HIDE DEF m
<1>5. r \in Seq(Entry) /\ Removes(m, p, r)
  BY <1>4, RemovedAt
<1> HIDE DEF r
<1>6. Disarms(l, p, r)
  <2>1. r \in Seq(Entry) /\ Len(r) = Len(l) - 1
    BY <1>4, <1>5 DEF Removes
  <2>2. ASSUME NEW i \in 1..(p - 1)
        PROVE  r[i] = l[i]
    <3>1. i \in 1..Len(l) /\ i # p + 1
      BY <1>2
    <3> QED
      BY <3>1, <1>3, <1>5 DEF Removes
  <2>3. ASSUME NEW i \in p..(Len(l) - 1)
        PROVE  /\ r[i].timer = l[i + 1].timer
               /\ r[i].vt_time = IF i = p THEN Deadline(l, p + 1) - Deadline(l, p - 1) ELSE l[i + 1].vt_time
    <3>1. i + 1 \in 1..Len(l) /\ (i + 1 = p + 1 <=> i = p)
      BY <1>2
    <3>2. r[i] = m[i + 1]
      BY <1>4, <1>5 DEF Removes
    <3>3. CASE i = p
      BY <1>3, <3>1, <3>2, <3>3
    <3>4. CASE i # p
      BY <1>3, <3>1, <3>2, <3>4
    <3> QED
      BY <3>3, <3>4
  <2> QED
    BY <2>1, <2>2, <2>3 DEF Disarms
<1> QED
  BY <1>1, <1>6

LEMMA DisarmedSums ==
    ASSUME NEW l, Sound(l), NEW p \in 1..Len(l), NEW r, Disarms(l, p, r)
    PROVE  \A k \in 0..(Len(l) - 1) :
              Deadline(r, k) = IF k < p THEN Deadline(l, k) ELSE Deadline(l, k + 1)
<1> DEFINE g == [k \in 0..(Len(l) - 1) |-> IF k < p THEN Deadline(l, k) ELSE Deadline(l, k + 1)]
<1>1. l \in Seq(Entry) /\ Len(l) \in Nat /\ r \in Seq(Entry) /\ Len(r) = Len(l) - 1
  BY EntryFields DEF Sound, Disarms
<1>2. \A k \in 0..Len(l) : Deadline(l, k) \in Nat
  BY <1>1, DeadlineNat
<1>3. g[0] = 0
  BY <1>1, DeadlineDef
<1>4. ASSUME NEW k \in 1..(Len(l) - 1)
      PROVE  g[k] = g[k - 1] + r[k].vt_time
  <2>1. CASE k < p
    <3>1. k \in 1..(p - 1) /\ k \in 1..Len(l) /\ k - 1 < p /\ k - 1 \in 0..(Len(l) - 1)
      BY <1>1, <2>1
    <3>2. r[k] = l[k] /\ Deadline(l, k) = Deadline(l, k - 1) + l[k].vt_time
      BY <1>1, <3>1, DeadlineDef DEF Disarms
    <3> QED
      BY <2>1, <3>1, <3>2
  <2>2. CASE k = p
    <3>1. /\ k - 1 < p /\ k - 1 \in 0..(Len(l) - 1) /\ k - 1 \in 0..Len(l) /\ k + 1 \in 0..Len(l)
          /\ ~(k < p) /\ k \in p..(Len(l) - 1)
      BY <1>1, <2>2
    <3>2. r[k].vt_time = Deadline(l, k + 1) - Deadline(l, k - 1)
      BY <2>2, <3>1 DEF Disarms
    <3>3. Deadline(l, k + 1) \in Nat /\ Deadline(l, k - 1) \in Nat
      BY <1>2, <3>1
    <3>4. g[k] = Deadline(l, k + 1) /\ g[k - 1] = Deadline(l, k - 1)
      BY <3>1
    <3> QED
      BY <3>2, <3>3, <3>4
  <2>3. CASE k > p
    <3>1. /\ k \in p..(Len(l) - 1) /\ k # p /\ k + 1 \in 1..Len(l) /\ k - 1 \in 0..(Len(l) - 1)
          /\ ~(k < p) /\ ~(k - 1 < p) /\ (k - 1) + 1 = k /\ (k + 1) - 1 = k
      BY <1>1, <2>3
    <3>2. r[k].vt_time = l[k + 1].vt_time /\ Deadline(l, k + 1) = Deadline(l, k) + l[k + 1].vt_time
      BY <1>1, <3>1, DeadlineDef DEF Disarms
    <3>3. g[k] = Deadline(l, k + 1) /\ g[k - 1] = Deadline(l, k)
      BY <3>1
    <3> QED
      BY <3>2, <3>3
  <2> QED
    BY <1>1, <2>1, <2>2, <2>3
<1> HIDE DEF g
<1>5. AddsUp(r, g)
  BY <1>1, <1>3, <1>4 DEF AddsUp
<1>6. \A k \in 0..Len(r) : Deadline(r, k) = g[k]
  BY <1>1, <1>5, DeadlineUnique
<1> QED
  BY <1>1, <1>6 DEF g

\* Disarming the timer at place p.
LEMMA RemovedSound ==
    ASSUME NEW l, Sound(l), NEW p \in 1..Len(l)
    PROVE  LET r == Removed(l, p)
               t == l[p].timer
           IN  /\ Sound(r) /\ Armed(r) = Armed(l) \ {t}
               /\ RemainingOf(r)[t] = 0
               /\ \A u \in Timers \ {t} : RemainingOf(r)[u] = RemainingOf(l)[u]
<1> DEFINE r == Removed(l, p)
           t == l[p].timer
<1>1. Disarms(l, p, r)
  BY RemovedDisarms
<1> HIDE DEF r
<1>2. /\ l \in Seq(Entry) /\ Len(l) \in Nat /\ t \in Timers
      /\ r \in Seq(Entry) /\ Len(r) = Len(l) - 1
  BY <1>1, EntryFields DEF Sound, Disarms
<1>3. \A k \in 0..(Len(l) - 1) :
         Deadline(r, k) = IF k < p THEN Deadline(l, k) ELSE Deadline(l, k + 1)
  BY <1>1, DisarmedSums
<1>4. ASSUME NEW i \in 1..(Len(l) - 1)
      PROVE  /\ After(p, i) \in 1..Len(l) /\ After(p, i) # p /\ r[i].timer = l[After(p, i)].timer
             /\ r[i].timer # t /\ Deadline(r, i) = Deadline(l, After(p, i))
  <2>1. After(p, i) \in 1..Len(l) /\ After(p, i) # p
    BY <1>2 DEF After
  <2>2. r[i].timer = l[After(p, i)].timer
    <3>1. CASE i < p
      <4>1. i \in 1..(p - 1) /\ After(p, i) = i
        BY <1>2, <3>1 DEF After
      <4> QED
        BY <1>1, <4>1 DEF Disarms
    <3>2. CASE ~(i < p)
      <4>1. i \in p..(Len(l) - 1) /\ After(p, i) = i + 1
        BY <1>2, <3>2 DEF After
      <4> QED
        BY <1>1, <4>1 DEF Disarms
    <3> QED
      BY <3>1, <3>2
  <2>3. Deadline(r, i) = Deadline(l, After(p, i))
    BY <1>2, <1>3 DEF After
  <2> QED
    BY <2>1, <2>2, <2>3 DEF Sound
<1>5. ASSUME NEW k \in 1..Len(l), k # p
      PROVE  \E i \in 1..(Len(l) - 1) : After(p, i) = k
  <2>1. CASE k < p
    <3>1. k \in 1..(Len(l) - 1) /\ After(p, k) = k
      BY <1>2, <2>1 DEF After
    <3> QED
      BY <3>1
  <2>2. CASE k > p
    <3>1. k - 1 \in 1..(Len(l) - 1) /\ After(p, k - 1) = k
      BY <1>2, <2>2 DEF After
    <3> QED
      BY <3>1
  <2> QED
    BY <1>2, <1>5, <2>1, <2>2
<1>6. ASSUME NEW i \in 1..(Len(l) - 1), NEW j \in 1..(Len(l) - 1), r[i].timer = r[j].timer
      PROVE  i = j
  <2>1. After(p, i) = After(p, j)
    BY <1>4, <1>6 DEF Sound
  <2> QED
    BY <1>2, <2>1 DEF After
<1>7. Armed(r) = Armed(l) \ {t}
  <2>1. \A i \in 1..(Len(l) - 1) : r[i].timer \in Armed(l) \ {t}
    BY <1>4 DEF Armed
  <2>2. ASSUME NEW k \in 1..Len(l), l[k].timer # t
        PROVE  l[k].timer \in Armed(r)
    <3>1. PICK i \in 1..(Len(l) - 1) : After(p, i) = k
      BY <1>5, <2>2
    <3> QED
      BY <1>2, <1>4, <3>1 DEF Armed
  <2> QED
    BY <1>2, <2>1, <2>2 DEF Armed
<1>8. Sound(r)
  <2>1. ASSUME Len(r) # 0
        PROVE  Deadline(r, 1) # 0
    <3>1. 1 \in 1..(Len(l) - 1)
      BY <1>2, <2>1
    <3> QED
      BY <1>4, <3>1, DeadlineRange
  <2>2. Deadline(r, Len(r)) < TimeMod
    <3>1. Len(r) \in 0..(Len(l) - 1)
      BY <1>2
    <3>2. \A k \in 0..Len(l) : Deadline(l, k) < TimeMod
      BY DeadlineRange, TimeModAssumption
    <3> QED
      BY <1>2, <1>3, <3>1, <3>2
  <2> QED
    BY <1>2, <1>6, <2>1, <2>2, SoundBySums
<1>9. RemainingOf(r)[t] = 0
  BY <1>2, <1>7, <1>8, RemainingAt
<1>10. ASSUME NEW u \in Timers \ {t}
       PROVE  RemainingOf(r)[u] = RemainingOf(l)[u]
  <2>1. CASE u \in Armed(l)
    <3>1. PICK k \in 1..Len(l) : l[k].timer = u
      BY <2>1 DEF Armed
    <3>2. PICK i \in 1..(Len(l) - 1) : After(p, i) = k
      BY <1>5, <3>1
    <3>3. RemainingOf(l)[u] = Deadline(l, k)
      BY <3>1, RemainingAt
    <3>4. r[i].timer = u /\ Deadline(r, i) = Deadline(l, k)
      BY <1>4, <3>1, <3>2
    <3>5. RemainingOf(r)[u] = Deadline(r, i)
      BY <1>2, <1>8, <3>4, RemainingAt
    <3> QED
      BY <3>3, <3>4, <3>5
  <2>2. CASE u \notin Armed(l)
    BY <1>7, <1>8, <2>2, RemainingAt
  <2> QED
    BY <2>1, <2>2
<1> QED
  BY <1>7, <1>8, <1>9, <1>10 DEF r

----------------------------------------------------------------------------
(* The tick                                                                *)

LEMMA AgedSums ==
    ASSUME NEW l, Sound(l)
    PROVE  LET a == Aged(l)
           IN  /\ a \in Seq(Entry) /\ Len(a) = Len(l)
               /\ \A k \in 1..Len(l) : a[k].timer = l[k].timer
               /\ \A k \in 0..Len(l) : Deadline(a, k) = IF k = 0 THEN 0 ELSE Deadline(l, k) - 1
<1> DEFINE a == Aged(l)
<1>1. l \in Seq(Entry) /\ Len(l) \in Nat /\ DOMAIN l = 1..Len(l)
  BY EntryFields DEF Sound
<1>2. /\ a \in Seq(Entry) /\ Len(a) = Len(l)
      /\ \A k \in 1..Len(l) : /\ a[k].timer = l[k].timer
                              /\ a[k].vt_time = IF k = 1 THEN l[1].vt_time - 1 ELSE l[k].vt_time
  <2>1. CASE l = <<>>
    <3>1. a = l /\ Len(l) = 0
      BY <2>1 DEF Aged
    <3> HIDE DEF a
    <3> QED
      BY <1>1, <3>1
  <2>2. CASE l # <<>>
    <3>1. a = [l EXCEPT ![1].vt_time = Minus(l[1].vt_time, 1)] /\ 1 \in 1..Len(l)
      BY <1>1, <2>2, EmptySeq DEF Aged
    <3>2. PICK x \in 0..(TimeMod - 1) : x = l[1].vt_time
      BY <1>1, <3>1, EntryFields
    <3>3. x # 0
      BY <1>1, <3>1, <3>2 DEF Sound
    <3>4. x - 1 \in 0..(TimeMod - 1)
      BY <3>3, TimeModAssumption
    <3>5. (x - 1) % TimeMod = x - 1
      <4>1. PICK y \in 0..(TimeMod - 1) : y = x - 1
        BY <3>4
      <4>2. y % TimeMod = y
        BY TimeModAssumption
      <4> QED
        BY <4>1, <4>2
    <3>6. Minus(l[1].vt_time, 1) = x - 1
      BY <3>2, <3>5 DEF Minus
    <3> DEFINE e == [l[1] EXCEPT !.vt_time = x - 1]
    <3>7. a = [k \in 1..Len(l) |-> IF k = 1 THEN e ELSE l[k]]
      <4> HIDE DEF a
      <4> QED
        BY <1>1, <3>1, <3>6
    <3>8. e \in Entry /\ e.timer = l[1].timer /\ e.vt_time = x - 1
      <4>1. l[1] \in Entry
        BY <1>1, <3>1, EntryFields
      <4> QED
        BY <3>4, <4>1 DEF Entry
    <3> HIDE DEF a, e
    <3>9. \A k \in 1..Len(l) : a[k] \in Entry /\ (k # 1 => a[k] = l[k]) /\ (k = 1 => a[k] = e)
      BY <1>1, <3>7, <3>8, EntryFields
    <3>10. a = [k \in 1..Len(l) |-> a[k]]
      BY <3>7
    <3>11. a \in Seq(Entry) /\ Len(a) = Len(l)
      BY <1>1, <3>9, <3>10
    <3> QED
      BY <3>2, <3>8, <3>9, <3>11
  <2> QED
    BY <2>1, <2>2
<1> HIDE DEF a
<1> DEFINE g == [k \in 0..Len(l) |-> IF k = 0 THEN 0 ELSE Deadline(l, k) - 1]
<1>3. ASSUME NEW k \in 1..Len(l)
      PROVE  g[k] = g[k - 1] + a[k].vt_time
  <2>1. k \in 0..Len(l) /\ k - 1 \in 0..Len(l) /\ k # 0
    BY <1>1
  <2>2. Deadline(l, k) = Deadline(l, k - 1) + l[k].vt_time
    BY <1>1, DeadlineDef
  <2>3. PICK x \in Nat, d \in Nat : x = l[k].vt_time /\ d = Deadline(l, k - 1)
    BY <1>1, <2>1, EntryFields, DeadlineNat
  <2>4. CASE k = 1
    <3>1. Deadline(l, k - 1) = 0 /\ a[k].vt_time = x - 1
      BY <1>1, <1>2, <2>3, <2>4, DeadlineDef
    <3>2. g[k] = (0 + x) - 1 /\ g[k - 1] = 0
      BY <2>1, <2>2, <2>3, <2>4, <3>1
    <3> HIDE DEF g
    <3> QED
      BY <3>1, <3>2
  <2>5. CASE k # 1
    <3>1. a[k].vt_time = x /\ k - 1 # 0
      BY <1>2, <2>3, <2>5
    <3>2. g[k] = (d + x) - 1 /\ g[k - 1] = d - 1
      BY <2>1, <2>2, <2>3, <3>1
    <3> HIDE DEF g
    <3> QED
      BY <2>3, <3>1, <3>2
  <2> QED
    BY <2>4, <2>5
<1>4. AddsUp(a, g)
  <2>1. g[0] = 0
    BY <1>1
  <2> HIDE DEF g
  <2> QED
    BY <1>2, <1>3, <2>1 DEF AddsUp
<1>5. \A k \in 0..Len(l) : Deadline(a, k) = g[k]
  <2> HIDE DEF g
  <2> QED
    BY <1>2, <1>4, DeadlineUnique
<1> QED
  BY <1>2, <1>5 DEF a

\* The timers at the head that are due, and nothing behind them.
Dues(a, n) ==
    /\ n \in 0..Len(a)
    /\ n < Len(a) => a[n + 1].vt_time # 0
    /\ \A k \in 1..n : a[k].vt_time = 0

LEMMA DueStops ==
    ASSUME NEW a \in Seq(Entry)
    PROVE  Dues(a, Due(a))
<1>1. Len(a) \in Nat
  BY EntryFields
<1> DEFINE C == {n \in 0..Len(a) : n < Len(a) => a[n + 1].vt_time # 0}
<1>2. Len(a) \in C /\ C \subseteq Nat /\ C # {}
  BY <1>1
<1>3. PICK n \in C : \A k \in C : n <= k
  <2> HIDE DEF C
  <2> QED
    BY <1>2, LeastExists
<1>4. ASSUME NEW k \in 1..n
      PROVE  a[k].vt_time = 0
  <2>1. n \in 0..Len(a)
    BY <1>3
  <2>2. k - 1 \in 0..Len(a) /\ ~(n <= k - 1) /\ (k - 1) + 1 = k
    BY <1>1, <2>1
  <2>3. k - 1 \notin C
    <3> HIDE DEF C
    <3> QED
      BY <1>3, <2>2
  <2> QED
    BY <2>2, <2>3
<1>5. \E m \in 0..Len(a) : /\ m < Len(a) => a[m + 1].vt_time # 0
                           /\ \A k \in 1..m : a[k].vt_time = 0
  BY <1>3, <1>4
<1> QED
  BY <1>5 DEF Dues, Due

\* The first n timers are due now, the others later.
LEMMA DueNow ==
    ASSUME NEW a \in Seq(Entry), NEW n, Dues(a, n)
    PROVE  \A k \in 0..Len(a) : Deadline(a, k) = 0 <=> k <= n
<1>1. Len(a) \in Nat /\ n \in 0..Len(a)
  BY EntryFields DEF Dues
<1> DEFINE S == {k \in 0..n : Deadline(a, k) = 0}
<1>2. 0 \in S
  BY <1>1, DeadlineDef
<1>3. ASSUME NEW k \in 0..(n - 1), k \in S
      PROVE  k + 1 \in S
  <2>1. k + 1 \in 1..n /\ k + 1 \in 1..Len(a) /\ (k + 1) - 1 = k /\ k + 1 \in 0..n
    BY <1>1
  <2>2. Deadline(a, k + 1) = Deadline(a, k) + a[k + 1].vt_time
    BY <2>1, DeadlineDef
  <2>3. Deadline(a, k) = 0 /\ a[k + 1].vt_time = 0
    BY <1>3, <2>1 DEF Dues
  <2> QED
    BY <2>1, <2>2, <2>3
<1>4. 0..n \subseteq S
  <2> HIDE DEF S
  <2> QED
    BY <1>1, <1>2, <1>3, UpTo
<1>5. ASSUME NEW k \in 0..Len(a), ~(k <= n)
      PROVE  Deadline(a, k) # 0
  <2>1. n + 1 \in 1..Len(a) /\ (n + 1) - 1 = n /\ n + 1 \in 0..Len(a) /\ n + 1 <= k /\ n < Len(a) /\ n \in 0..n
    BY <1>1, <1>5
  <2>2. Deadline(a, n + 1) = Deadline(a, n) + a[n + 1].vt_time
    BY <2>1, DeadlineDef
  <2>3. Deadline(a, n) = 0 /\ a[n + 1].vt_time # 0 /\ a[n + 1].vt_time \in Nat
    BY <1>4, <2>1, EntryFields DEF Dues
  <2>4. Deadline(a, n + 1) <= Deadline(a, k) /\ Deadline(a, k) \in Nat
    BY <2>1, DeadlineMonotone, DeadlineNat
  <2> QED
    BY <2>2, <2>3, <2>4
<1> QED
  BY <1>1, <1>4, <1>5

\* The deadlines of what is left of list a behind its first n.
LEMMA RestSums ==
    ASSUME NEW a \in Seq(Entry), NEW n, Dues(a, n)
    PROVE  LET r == SubSeq(a, n + 1, Len(a))
           IN  /\ r \in Seq(Entry) /\ Len(r) = Len(a) - n
               /\ \A k \in 1..(Len(a) - n) : r[k] = a[n + k]
               /\ \A k \in 0..(Len(a) - n) : Deadline(r, k) = Deadline(a, n + k)
<1> DEFINE r == SubSeq(a, n + 1, Len(a))
<1>1. Len(a) \in Nat /\ n \in 0..Len(a)
  BY EntryFields DEF Dues
<1>2. r \in Seq(Entry) /\ Len(r) = Len(a) - n /\ \A k \in 1..(Len(a) - n) : r[k] = a[n + k]
  BY <1>1
<1> HIDE DEF r
<1> DEFINE g == [k \in 0..(Len(a) - n) |-> Deadline(a, n + k)]
<1>3. g[0] = 0
  BY <1>1, DueNow
<1>4. ASSUME NEW k \in 1..(Len(a) - n)
      PROVE  g[k] = g[k - 1] + r[k].vt_time
  <2>1. k \in 0..(Len(a) - n) /\ k - 1 \in 0..(Len(a) - n) /\ n + k \in 1..Len(a) /\ n + (k - 1) = (n + k) - 1
    BY <1>1
  <2>2. Deadline(a, n + k) = Deadline(a, (n + k) - 1) + a[n + k].vt_time
    BY <2>1, DeadlineDef
  <2>3. r[k] = a[n + k]
    BY <1>2
  <2> QED
    BY <2>1, <2>2, <2>3
<1>5. \A k \in 0..(Len(a) - n) : Deadline(r, k) = g[k]
  <2> HIDE DEF g
  <2>1. AddsUp(r, g)
    BY <1>2, <1>3, <1>4 DEF AddsUp
  <2> QED
    BY <1>2, <2>1, DeadlineUnique
<1> QED
  BY <1>2, <1>5 DEF r

\* The timers of the first n elements.
FirstOf(l, n) == {l[k].timer : k \in 1..n}

\* A tick takes off the list the timers whose deadline is the next tick.
LEMMA TickedSound ==
    ASSUME NEW l, Sound(l)
    PROVE  LET a == Aged(l)
               n == Due(a)
               r == SubSeq(a, n + 1, Len(a))
           IN  /\ n \in 0..Len(l)
               /\ FirstOf(a, n) = FirstOf(l, n)
               /\ FirstOf(l, n) = {t \in Timers : RemainingOf(l)[t] = 1}
               /\ Sound(r) /\ Armed(r) = Armed(l) \ FirstOf(l, n)
               /\ \A t \in Timers :
                     RemainingOf(r)[t] = IF RemainingOf(l)[t] = 0 THEN 0 ELSE RemainingOf(l)[t] - 1
<1> DEFINE a == Aged(l)
           n == Due(a)
           r == SubSeq(a, n + 1, Len(a))
<1>1. /\ l \in Seq(Entry) /\ Len(l) \in Nat
      /\ \A k \in 1..Len(l) : l[k].timer \in Timers
  BY EntryFields DEF Sound
<1>2. /\ a \in Seq(Entry) /\ Len(a) = Len(l)
      /\ \A k \in 1..Len(l) : a[k].timer = l[k].timer
      /\ \A k \in 0..Len(l) : Deadline(a, k) = IF k = 0 THEN 0 ELSE Deadline(l, k) - 1
  BY AgedSums
<1> HIDE DEF a
<1>3. Dues(a, n)
  BY <1>2, DueStops
<1> HIDE DEF n
<1>4. n \in 0..Len(l)
  BY <1>2, <1>3 DEF Dues
<1>5. /\ r \in Seq(Entry) /\ Len(r) = Len(l) - n
      /\ \A k \in 1..(Len(l) - n) : r[k] = a[n + k]
      /\ \A k \in 0..(Len(l) - n) : Deadline(r, k) = Deadline(a, n + k)
  BY <1>2, <1>3, RestSums
<1> HIDE DEF r
<1>6. ASSUME NEW k \in 1..Len(l)
      PROVE  /\ Deadline(l, k) \in 0..(TimeMod - 1) /\ Deadline(l, k) # 0
             /\ Deadline(a, k) = Deadline(l, k) - 1
             /\ Deadline(l, k) = 1 <=> k <= n
  <2>1. k \in 0..Len(l) /\ k # 0
    OBVIOUS
  <2>2. Deadline(l, k) \in 0..(TimeMod - 1) /\ Deadline(l, k) # 0
    BY <2>1, DeadlineRange
  <2>3. Deadline(a, k) = Deadline(l, k) - 1
    BY <1>2, <2>1
  <2>4. Deadline(a, k) = 0 <=> k <= n
    BY <1>2, <1>3, <2>1, DueNow
  <2> QED
    BY <2>2, <2>3, <2>4
<1>7. ASSUME NEW k \in 1..(Len(l) - n)
      PROVE  /\ n + k \in 1..Len(l) /\ ~(n + k <= n)
             /\ r[k].timer = l[n + k].timer
             /\ Deadline(r, k) = Deadline(l, n + k) - 1
  <2>1. n + k \in 1..Len(l) /\ ~(n + k <= n) /\ k \in 0..(Len(l) - n)
    BY <1>1, <1>4
  <2>2. r[k] = a[n + k] /\ a[n + k].timer = l[n + k].timer
    BY <1>2, <1>5, <2>1
  <2>3. Deadline(r, k) = Deadline(a, n + k) /\ Deadline(a, n + k) = Deadline(l, n + k) - 1
    BY <1>5, <1>6, <2>1
  <2> QED
    BY <2>1, <2>2, <2>3
<1>8. ASSUME NEW k \in 1..Len(l), ~(k <= n)
      PROVE  \E i \in 1..(Len(l) - n) : n + i = k
  <2>1. k - n \in 1..(Len(l) - n) /\ n + (k - n) = k
    BY <1>1, <1>4, <1>8
  <2> QED
    BY <2>1
<1>9. FirstOf(a, n) = FirstOf(l, n)
  BY <1>2, <1>4 DEF FirstOf
<1>10. FirstOf(l, n) = {t \in Timers : RemainingOf(l)[t] = 1}
  <2>1. ASSUME NEW k \in 1..n
        PROVE  l[k].timer \in Timers /\ RemainingOf(l)[l[k].timer] = 1
    <3>1. k \in 1..Len(l) /\ k <= n
      BY <1>1, <1>4
    <3> QED
      BY <1>1, <1>6, <3>1, RemainingAt
  <2>2. ASSUME NEW t \in Timers, RemainingOf(l)[t] = 1
        PROVE  t \in FirstOf(l, n)
    <3>1. t \in Armed(l)
      BY <2>2, RemainingRange
    <3>2. PICK k \in 1..Len(l) : l[k].timer = t
      BY <3>1 DEF Armed
    <3>3. k <= n
      BY <1>6, <2>2, <3>2, RemainingAt
    <3>4. k \in 1..n
      BY <1>4, <3>3
    <3> QED
      BY <3>2, <3>4 DEF FirstOf
  <2> QED
    BY <2>1, <2>2 DEF FirstOf
<1>11. Armed(r) = Armed(l) \ FirstOf(l, n)
  <2>1. ASSUME NEW k \in 1..(Len(l) - n)
        PROVE  r[k].timer \in Armed(l) \ FirstOf(l, n)
    <3>1. n + k \in 1..Len(l) /\ ~(n + k <= n) /\ r[k].timer = l[n + k].timer
      BY <1>7
    <3>2. \A i \in 1..n : i \in 1..Len(l) /\ i <= n
      BY <1>1, <1>4
    <3>3. \A i \in 1..n : l[i].timer # l[n + k].timer
      BY <3>1, <3>2 DEF Sound
    <3> QED
      BY <3>1, <3>3 DEF Armed, FirstOf
  <2>2. ASSUME NEW k \in 1..Len(l), l[k].timer \notin FirstOf(l, n)
        PROVE  l[k].timer \in Armed(r)
    <3>1. ~(k <= n)
      <4>1. ASSUME k <= n PROVE FALSE
        <5>1. k \in 1..n
          BY <1>4, <4>1
        <5> QED
          BY <2>2, <5>1 DEF FirstOf
      <4> QED
        BY <4>1
    <3>2. PICK i \in 1..(Len(l) - n) : n + i = k
      BY <1>8, <3>1
    <3>3. r[i].timer = l[k].timer
      BY <1>7, <3>2
    <3> QED
      BY <1>5, <3>3 DEF Armed
  <2> QED
    BY <1>5, <2>1, <2>2 DEF Armed
<1>12. Sound(r)
  <2>1. ASSUME NEW i \in 1..(Len(l) - n), NEW j \in 1..(Len(l) - n), r[i].timer = r[j].timer
        PROVE  i = j
    <3>1. n + i = n + j
      BY <1>7, <2>1 DEF Sound
    <3> QED
      BY <1>4, <3>1
  <2>2. ASSUME NEW k \in 1..(Len(l) - n)
        PROVE  Deadline(r, k) \in 0..(TimeMod - 1) /\ Deadline(r, k) # 0
    <3>1. n + k \in 1..Len(l) /\ ~(n + k <= n) /\ Deadline(r, k) = Deadline(l, n + k) - 1
      BY <1>7
    <3>2. /\ Deadline(l, n + k) \in 0..(TimeMod - 1) /\ Deadline(l, n + k) # 0
          /\ Deadline(l, n + k) # 1
      BY <1>6, <3>1
    <3> QED
      BY <3>1, <3>2, TimeModAssumption
  <2>3. Deadline(r, Len(r)) < TimeMod
    <3>1. CASE Len(l) - n = 0
      BY <1>5, <3>1, DeadlineDef, TimeModAssumption
    <3>2. CASE Len(l) - n # 0
      <4>1. Len(r) \in 1..(Len(l) - n)
        BY <1>1, <1>4, <1>5, <3>2
      <4> QED
        BY <2>2, <4>1, TimeModAssumption
    <3> QED
      BY <3>1, <3>2
  <2>4. Len(r) # 0 => Deadline(r, 1) # 0
    <3>1. Len(r) # 0 => 1 \in 1..(Len(l) - n)
      BY <1>1, <1>4, <1>5
    <3> QED
      BY <2>2, <3>1
  <2> QED
    BY <1>5, <2>1, <2>3, <2>4, SoundBySums
<1>13. ASSUME NEW t \in Timers
       PROVE  RemainingOf(r)[t] = IF RemainingOf(l)[t] = 0 THEN 0 ELSE RemainingOf(l)[t] - 1
  <2>1. CASE t \notin Armed(l)
    <3>1. t \notin Armed(r)
      BY <1>11, <2>1
    <3> QED
      BY <1>12, <2>1, <3>1, RemainingAt
  <2>2. CASE t \in FirstOf(l, n)
    <3>1. t \notin Armed(r) /\ RemainingOf(l)[t] = 1
      BY <1>10, <1>11, <2>2
    <3> QED
      BY <1>12, <3>1, RemainingAt
  <2>3. CASE t \in Armed(r)
    <3>1. PICK k \in 1..(Len(l) - n) : r[k].timer = t
      BY <1>5, <2>3 DEF Armed
    <3>2. /\ n + k \in 1..Len(l) /\ l[n + k].timer = t
          /\ Deadline(r, k) = Deadline(l, n + k) - 1
      BY <1>7, <3>1
    <3>3. RemainingOf(r)[t] = Deadline(r, k)
      BY <1>5, <1>12, <3>1, RemainingAt
    <3>4. RemainingOf(l)[t] = Deadline(l, n + k) /\ Deadline(l, n + k) # 0
      BY <1>6, <3>2, RemainingAt
    <3> QED
      BY <3>2, <3>3, <3>4
  <2> QED
    BY <1>11, <2>1, <2>2, <2>3
<1> QED
  BY <1>4, <1>9, <1>10, <1>11, <1>12, <1>13 DEF r, n, a

----------------------------------------------------------------------------
(* The timers' steps                                                       *)

\* Two lists that differ in one timer, which has n ticks left in the second.
LEMMA RemainingExcept ==
    ASSUME NEW l, NEW r, NEW t \in Timers, NEW n, RemainingOf(r)[t] = n,
           \A u \in Timers \ {t} : RemainingOf(r)[u] = RemainingOf(l)[u]
    PROVE  RemainingOf(r) = [RemainingOf(l) EXCEPT ![t] = n]
<1> DEFINE f == RemainingOf(l)
           g == RemainingOf(r)
<1>1. f = [u \in Timers |-> f[u]] /\ g = [u \in Timers |-> g[u]]
  BY DEF RemainingOf
<1>2. g[t] = n /\ \A u \in Timers \ {t} : g[u] = f[u]
  OBVIOUS
<1> HIDE DEF f, g
<1>3. g = [f EXCEPT ![t] = n]
  BY <1>1, <1>2
<1> QED
  BY <1>3 DEF f, g

LEMMA RemainingIs ==
    remaining = RemainingOf(vtlist) /\ remaining' = RemainingOf(vtlist')
BY DEF remaining, RemainingOf

\* The list is well formed in the words of VirtualTimers.
LEMMA WellFormed ==
    ASSUME TimerInv
    PROVE  ListWellFormed
<1>1. /\ Sound(vtlist) /\ Armed(vtlist) = {t \in Timers : vt_func[t]}
  BY DEF TimerInv, TimersOk
<1>2. vtlist \in Seq(Entry) /\ Len(vtlist) \in Nat /\ DOMAIN vtlist = 1..Len(vtlist)
  BY <1>1, EntryFields DEF Sound
<1>3. vtlist # <<>> => Len(vtlist) # 0 /\ Head(vtlist) = vtlist[1]
  BY <1>2, EmptySeq
<1> QED
  BY <1>1, <1>2, <1>3 DEF ListWellFormed, Sound, Armed

LEMMA SetKeeps ==
    ASSUME TimerInv, NEW t \in Timers, NEW n \in Delays, SetTimer(t, n)
    PROVE  TimerInv' /\ Service!Next
<1> DEFINE r == Inserted(vtlist, t, n)
<1>1. /\ Sound(vtlist) /\ vt_func \in [Timers -> BOOLEAN]
      /\ Armed(vtlist) = {u \in Timers : vt_func[u]} /\ fired \subseteq Timers
  BY DEF TimerInv, TimersOk
<1>2. /\ ~vt_func[t] /\ vtlist' = r /\ vt_func' = [vt_func EXCEPT ![t] = TRUE]
      /\ asked' = [asked EXCEPT ![t] = n]
      /\ fired' = fired \ {t} /\ vt_systime' = vt_systime
  BY DEF SetTimer
<1>3. t \in Timers \ Armed(vtlist)
  BY <1>1, <1>2
<1>4. /\ Sound(r) /\ Armed(r) = Armed(vtlist) \cup {t}
      /\ RemainingOf(r)[t] = n
      /\ \A u \in Timers \ {t} : RemainingOf(r)[u] = RemainingOf(vtlist)[u]
  BY <1>1, <1>3, InsertedSound
<1> HIDE DEF r
<1>5. TimersOk(r, vt_func')
  <2>1. /\ vt_func' \in [Timers -> BOOLEAN]
        /\ \A u \in Timers : vt_func'[u] = IF u = t THEN TRUE ELSE vt_func[u]
    BY <1>1, <1>2
  <2>2. Armed(r) = {u \in Timers : vt_func'[u]}
    BY <1>1, <1>4, <2>1
  <2> QED
    BY <1>4, <2>1, <2>2 DEF TimersOk
<1>6. TimerInv'
  BY <1>1, <1>2, <1>5 DEF TimerInv
<1>7. RemainingOf(vtlist)[t] = 0
  BY <1>1, <1>3, RemainingAt
<1>8. RemainingOf(r) = [RemainingOf(vtlist) EXCEPT ![t] = n]
  BY <1>4, RemainingExcept
<1>9. Service!Arm(t, n)
  BY <1>2, <1>7, <1>8, RemainingIs DEF Service!Arm
<1> QED
  BY <1>6, <1>9 DEF Service!Next

LEMMA ResetKeeps ==
    ASSUME TimerInv, NEW t \in Timers, ResetTimer(t)
    PROVE  TimerInv' /\ Service!Next
<1>1. /\ Sound(vtlist) /\ vt_func \in [Timers -> BOOLEAN]
      /\ Armed(vtlist) = {u \in Timers : vt_func[u]} /\ fired \subseteq Timers
  BY DEF TimerInv, TimersOk
<1>2. PICK p \in DOMAIN vtlist : vtlist[p].timer = t /\ vtlist' = Removed(vtlist, p)
  BY DEF ResetTimer
<1>3. /\ vt_func[t] /\ vt_func' = [vt_func EXCEPT ![t] = FALSE]
      /\ asked' = [asked EXCEPT ![t] = 0]
      /\ fired' = fired /\ vt_systime' = vt_systime
  BY DEF ResetTimer
<1>4. p \in 1..Len(vtlist)
  BY <1>1, EntryFields DEF Sound
<1> DEFINE r == Removed(vtlist, p)
<1>5. /\ Sound(r) /\ Armed(r) = Armed(vtlist) \ {t}
      /\ RemainingOf(r)[t] = 0
      /\ \A u \in Timers \ {t} : RemainingOf(r)[u] = RemainingOf(vtlist)[u]
  BY <1>1, <1>2, <1>4, RemovedSound
<1> HIDE DEF r
<1>6. TimersOk(r, vt_func')
  <2>1. /\ vt_func' \in [Timers -> BOOLEAN]
        /\ \A u \in Timers : vt_func'[u] = IF u = t THEN FALSE ELSE vt_func[u]
    BY <1>1, <1>3
  <2>2. Armed(r) = {u \in Timers : vt_func'[u]}
    BY <1>1, <1>5, <2>1
  <2> QED
    BY <1>5, <2>1, <2>2 DEF TimersOk
<1>7. vtlist' = r
  BY <1>2 DEF r
<1>8. TimerInv'
  BY <1>1, <1>3, <1>6, <1>7 DEF TimerInv
<1>9. RemainingOf(vtlist)[t] # 0
  BY <1>1, <1>3, RemainingRange
<1>10. RemainingOf(r) = [RemainingOf(vtlist) EXCEPT ![t] = 0]
  BY <1>5, RemainingExcept
<1>11. Service!Disarm(t)
  BY <1>3, <1>7, <1>9, <1>10, RemainingIs DEF Service!Disarm
<1> QED
  BY <1>8, <1>11 DEF Service!Next

LEMMA TicksKeep ==
    ASSUME TimerInv, TimersTick
    PROVE  /\ TimerInv' /\ Service!Next
           /\ Due(Aged(vtlist)) \in 0..Len(vtlist)
           /\ FirstOf(vtlist, Due(Aged(vtlist))) \subseteq {t \in Timers : vt_func[t]}
           /\ \A t \in Timers :
                 vt_func'[t] <=> vt_func[t] /\ t \notin FirstOf(vtlist, Due(Aged(vtlist)))
<1> DEFINE a == Aged(vtlist)
           n == Due(a)
           r == SubSeq(a, n + 1, Len(a))
           due == FirstOf(vtlist, n)
<1>1. /\ Sound(vtlist) /\ vt_func \in [Timers -> BOOLEAN]
      /\ Armed(vtlist) = {u \in Timers : vt_func[u]} /\ fired \subseteq Timers
  BY DEF TimerInv, TimersOk
<1>2. /\ n \in 0..Len(vtlist)
      /\ FirstOf(a, n) = due
      /\ due = {t \in Timers : RemainingOf(vtlist)[t] = 1}
      /\ Sound(r) /\ Armed(r) = Armed(vtlist) \ due
      /\ \A t \in Timers :
            RemainingOf(r)[t] = IF RemainingOf(vtlist)[t] = 0 THEN 0 ELSE RemainingOf(vtlist)[t] - 1
  BY <1>1, TickedSound
<1>3. /\ vtlist' = r
      /\ vt_func' = [t \in Timers |-> vt_func[t] /\ t \notin FirstOf(a, n)]
      /\ asked' = [t \in Timers |-> IF t \in FirstOf(a, n) THEN 0 ELSE asked[t]]
      /\ fired' = fired \cup FirstOf(a, n)
      /\ vt_systime' = (vt_systime + 1) % TimeMod
  BY DEF TimersTick, FirstOf, Plus
<1> HIDE DEF a, n, r, due
<1>4. /\ vt_func' \in [Timers -> BOOLEAN]
      /\ \A t \in Timers : vt_func'[t] <=> vt_func[t] /\ t \notin due
  BY <1>1, <1>2, <1>3
<1>5. Armed(r) = {t \in Timers : vt_func'[t]}
  BY <1>1, <1>2, <1>4
<1>6. TimerInv'
  BY <1>1, <1>2, <1>3, <1>4, <1>5 DEF TimerInv, TimersOk
<1>7. due \subseteq {t \in Timers : vt_func[t]}
  <2>1. \A t \in due : t \in Timers /\ t \in Armed(vtlist)
    BY <1>1, <1>2, RemainingRange
  <2> QED
    BY <1>1, <2>1
<1>8. Service!Tick
  <2> DEFINE f == RemainingOf(vtlist)
  <2>1. RemainingOf(r) = [t \in Timers |-> IF f[t] = 0 THEN 0 ELSE f[t] - 1]
    <3> DEFINE g == RemainingOf(r)
    <3>1. g = [t \in Timers |-> g[t]]
      BY DEF RemainingOf
    <3>2. \A t \in Timers : g[t] = IF f[t] = 0 THEN 0 ELSE f[t] - 1
      BY <1>2
    <3> HIDE DEF f, g
    <3>3. g = [t \in Timers |-> IF f[t] = 0 THEN 0 ELSE f[t] - 1]
      BY <3>1, <3>2
    <3> QED
      BY <3>3 DEF g
  <2>2. \A t \in Timers : t \in due <=> f[t] = 1
    BY <1>2
  <2>3. asked' = [t \in Timers |-> IF f[t] = 1 THEN 0 ELSE asked[t]]
    BY <1>2, <1>3, <2>2
  <2> QED
    BY <1>2, <1>3, <2>1, <2>3, RemainingIs DEF Service!Tick
<1> QED
  BY <1>2, <1>4, <1>6, <1>7, <1>8 DEF Service!Next, a, n, due

LEMMA TimersStart ==
    ASSUME TimersInit
    PROVE  TimerInv /\ Service!Init
<1>1. /\ vtlist = <<>> /\ vt_func = [t \in Timers |-> FALSE] /\ fired = {}
      /\ vt_systime = 0 /\ asked = [t \in Timers |-> 0]
  BY DEF TimersInit
<1>2. Sound(<<>>) /\ Armed(<<>>) = {}
  <2> DEFINE l == <<>>
  <2>1. l \in Seq(Entry) /\ Len(l) = 0
    OBVIOUS
  <2> HIDE DEF l
  <2>2. Deadline(l, 0) = 0
    BY <2>1, DeadlineDef
  <2>3. Sound(l) /\ Armed(l) = {}
    BY <2>1, <2>2, TimeModAssumption DEF Sound, Armed
  <2> QED
    BY <2>3 DEF l
<1>3. TimerInv
  <2>1. vt_func \in [Timers -> BOOLEAN] /\ {t \in Timers : vt_func[t]} = {}
    BY <1>1
  <2> QED
    BY <1>1, <1>2, <2>1 DEF TimerInv, TimersOk
<1>4. remaining = [t \in Timers |-> 0]
  BY <1>1 DEF remaining
<1> QED
  BY <1>1, <1>3, <1>4 DEF Service!Init

----------------------------------------------------------------------------
(* Queues without priorities                                               *)

LEMMA FifoIsQueue ==
    ASSUME NEW T, NEW q, NEW S
    PROVE  Fifo(T, q, S) <=> Queue(T, q, S, [t \in T |-> 0])
<1>1. ASSUME q \in Seq(T)
      PROVE  Ordered(q, [t \in T |-> 0])
  <2>1. \A i \in DOMAIN q : q[i] \in T
    BY <1>1
  <2> QED
    BY <2>1 DEF Ordered
<1> QED
  BY <1>1 DEF Fifo, Queue

LEMMA FifoRemove ==
    ASSUME NEW T, NEW q, NEW S, NEW t, Fifo(T, q, S)
    PROVE  Fifo(T, RemoveFirst(q, t), S \ {t})
<1> DEFINE zero == [u \in T |-> 0]
<1>1. CASE t \in S
  <2>1. Queue(T, q, S, zero)
    BY FifoIsQueue
  <2> HIDE DEF zero
  <2>2. Queue(T, RemoveFirst(q, t), S \ {t}, zero)
    BY <1>1, <2>1, QueueRemove
  <2> QED
    BY <2>2, FifoIsQueue DEF zero
<1>2. CASE t \notin S
  <2>1. ~\E i \in 1..Len(q) : q[i] = t
    BY <1>2 DEF Fifo, ToSet
  <2>2. RemoveFirst(q, t) = q
    BY <2>1 DEF RemoveFirst
  <2>3. S \ {t} = S
    BY <1>2
  <2> QED
    BY <2>2, <2>3
<1> QED
  BY <1>1, <1>2

LEMMA FifoTail ==
    ASSUME NEW T, NEW q, NEW S, Fifo(T, q, S), q # <<>>
    PROVE  Head(q) \in S /\ Fifo(T, Tail(q), S \ {Head(q)})
<1> DEFINE zero == [u \in T |-> 0]
<1>1. zero \in [T -> Nat]
  OBVIOUS
<1>2. Queue(T, q, S, zero)
  BY FifoIsQueue
<1> HIDE DEF zero
<1>3. Head(q) \in S /\ Queue(T, Tail(q), S \ {Head(q)}, zero)
  BY <1>1, <1>2, QueueTail
<1> QED
  BY <1>3, FifoIsQueue DEF zero

LEMMA FifoAppend ==
    ASSUME NEW T, NEW q, NEW S, NEW t \in T \ S, Fifo(T, q, S)
    PROVE  Fifo(T, Append(q, t), S \cup {t})
<1> DEFINE r == Append(q, t)
<1>1. q \in Seq(T) /\ IsInjective(q) /\ ToSet(q) = S
  BY DEF Fifo
<1>2. r \in Seq(T) /\ Inserts(q, t, Len(q) + 1, r) /\ Len(q) + 1 \in 1..(Len(q) + 1)
  BY <1>1 DEF Inserts
<1> HIDE DEF r
<1>3. IsInjective(r) /\ ToSet(r) = S \cup {t}
  BY <1>1, <1>2, InsertedInjective, InsertedMembers
<1> QED
  BY <1>2, <1>3 DEF Fifo, r

LEMMA FifoEmpty ==
    ASSUME NEW T, NEW q, NEW S, Fifo(T, q, S)
    PROVE  q = <<>> <=> S = {}
<1> DEFINE zero == [u \in T |-> 0]
<1>1. Queue(T, q, S, zero)
  BY FifoIsQueue
<1> HIDE DEF zero
<1> QED
  BY <1>1, QueueEmpty

----------------------------------------------------------------------------
(* The callbacks                                                           *)

\* What the callbacks work on.
WakeOk(s) == SchedInv(s.k) /\ Fifo(Threads, s.q, Readers(s.k)) /\ s.msg \in Messages

\* The callbacks for the threads of due have led from s to n.
Woken(s, n, due) ==
    /\ WakeOk(n) /\ n.k.currp = s.k.currp
    /\ \A u \in Threads : Stop(n.k, u) = IF u \in due THEN "runs" ELSE Stop(s.k, u)
    /\ \A u \in Timers : n.msg[u] = IF u \in due /\ Stop(s.k, u) # "runs" THEN "TIMEOUT" ELSE s.msg[u]

LEMMA WakeupWakes ==
    ASSUME NEW s, WakeOk(s), NEW t \in Timers, t # s.k.currp
    PROVE  Woken(s, Wakeup(s, t), {t})
<1>1. SchedInv(s.k) /\ Fifo(Threads, s.q, Readers(s.k)) /\ s.msg \in Messages
  BY DEF WakeOk
<1>2. t \in Threads
  BY WaitAssumption
<1>3. s.k.p_state[t] \in States /\ s.k.p_state[t] # "CURRENT"
  BY <1>1, <1>2, SchedFields DEF SchedInv
<1>4. CASE s.k.p_state[t] = "READY"
  <2>1. Wakeup(s, t) = s
    BY <1>4 DEF Wakeup
  <2>2. Stop(s.k, t) = "runs"
    BY <1>4 DEF Stop, Stopped
  <2> QED
    BY <1>1, <2>1, <2>2 DEF Woken, WakeOk
<1>5. CASE s.k.p_state[t] # "READY"
  <2> DEFINE k == ReadyI(s.k, t)
             q == RemoveFirst(s.q, t)
             msg == [s.msg EXCEPT ![t] = "TIMEOUT"]
             n == [k |-> k, q |-> q, msg |-> msg]
  <2>1. Wakeup(s, t) = n
    BY <1>5 DEF Wakeup
  <2>2. s.k.p_state[t] \in Stopped
    BY <1>3, <1>5 DEF States
  <2>3. /\ SchedInv(k) /\ k.currp = s.k.currp
        /\ Stop(k, t) = "runs"
        /\ \A u \in Threads \ {t} : Stop(k, u) = Stop(s.k, u)
    BY <1>1, <1>2, <2>2, ReadyIKeeps
  <2>4. Stop(s.k, t) # "runs"
    BY <2>2 DEF Stop, Stopped
  <2> HIDE DEF k
  <2>5. Readers(k) = Readers(s.k) \ {t}
    BY <1>2, <2>3 DEF Readers
  <2>6. Fifo(Threads, q, Readers(k))
    BY <1>1, <2>5, FifoRemove
  <2> HIDE DEF q
  <2>7. msg \in Messages /\ \A u \in Timers : msg[u] = IF u = t THEN "TIMEOUT" ELSE s.msg[u]
    BY <1>1 DEF Messages
  <2> HIDE DEF msg
  <2>8. n.k = k /\ n.q = q /\ n.msg = msg
    OBVIOUS
  <2> HIDE DEF n
  <2>9. Woken(s, n, {t})
    BY <2>3, <2>4, <2>6, <2>7, <2>8 DEF Woken, WakeOk
  <2> QED
    BY <2>1, <2>9
<1> QED
  BY <1>4, <1>5

\* The functions that the definition of Called chooses from.
Calls(l, m, s, f) == f = [k \in 0..m |-> IF k = 0 THEN s ELSE Wakeup(f[k - 1], l[k].timer)]

LEMMA CallsExist ==
    ASSUME NEW l, NEW s, NEW n \in Nat
    PROVE  \E f : Calls(l, n, s, f)
<1> DEFINE S == {m \in 0..n : \E f : Calls(l, m, s, f)}
<1>1. 0 \in S
  <2>1. Calls(l, 0, s, [k \in 0..0 |-> s])
    BY DEF Calls
  <2> QED
    BY <2>1
<1>2. ASSUME NEW m \in 0..(n - 1), m \in S
      PROVE  m + 1 \in S
  <2>1. PICK f : Calls(l, m, s, f)
    BY <1>2
  <2> DEFINE g == [k \in 0..(m + 1) |-> IF k <= m THEN f[k] ELSE Wakeup(f[m], l[m + 1].timer)]
  <2>2. ASSUME NEW k \in 0..(m + 1)
        PROVE  g[k] = IF k = 0 THEN s ELSE Wakeup(g[k - 1], l[k].timer)
    <3>1. CASE k = m + 1
      <4>1. g[k] = Wakeup(f[m], l[m + 1].timer) /\ g[k - 1] = f[m] /\ k # 0
        BY <3>1
      <4> QED
        BY <3>1, <4>1
    <3>2. CASE k # m + 1
      <4>1. k \in 0..m /\ (k # 0 => k - 1 \in 0..m)
        BY <3>2
      <4>2. f[k] = IF k = 0 THEN s ELSE Wakeup(f[k - 1], l[k].timer)
        BY <4>1, <2>1 DEF Calls
      <4>3. g[k] = f[k] /\ (k # 0 => g[k - 1] = f[k - 1])
        BY <4>1
      <4> QED
        BY <4>2, <4>3
    <3> QED
      BY <3>1, <3>2
  <2>3. g = [k \in 0..(m + 1) |-> IF k = 0 THEN s ELSE Wakeup(g[k - 1], l[k].timer)]
    BY <2>2
  <2>4. Calls(l, m + 1, s, g)
    <3> HIDE DEF g
    <3> QED
      BY <2>3 DEF Calls
  <2> QED
    BY <2>4
<1>3. 0..n \subseteq S
  <2> HIDE DEF S
  <2> QED
    BY <1>1, <1>2, UpTo
<1> QED
  BY <1>3

LEMMA CalledDef ==
    ASSUME NEW l, NEW s, NEW n \in Nat
    PROVE  \E f : /\ f[0] = s /\ \A k \in 1..n : f[k] = Wakeup(f[k - 1], l[k].timer)
                  /\ Called(l, n, s) = f[n]
<1> DEFINE after == CHOOSE f : f = [k \in 0..n |-> IF k = 0 THEN s ELSE Wakeup(f[k - 1], l[k].timer)]
<1>1. after = [k \in 0..n |-> IF k = 0 THEN s ELSE Wakeup(after[k - 1], l[k].timer)]
  BY CallsExist DEF Calls
<1>2. Called(l, n, s) = after[n]
  BY DEF Called
<1> HIDE DEF after
<1>3. \A k \in 0..n : after[k] = IF k = 0 THEN s ELSE Wakeup(after[k - 1], l[k].timer)
  BY <1>1
<1>4. after[0] = s /\ \A k \in 1..n : after[k] = Wakeup(after[k - 1], l[k].timer)
  BY <1>3
<1> QED
  BY <1>2, <1>4

\* The callbacks of the first n timers, none of them the running thread's.
LEMMA CalledWakes ==
    ASSUME NEW l, NEW s, NEW n \in Nat, WakeOk(s), FirstOf(l, n) \subseteq Timers \ {s.k.currp}
    PROVE  Woken(s, Called(l, n, s), FirstOf(l, n))
<1>1. PICK f : /\ f[0] = s /\ \A k \in 1..n : f[k] = Wakeup(f[k - 1], l[k].timer)
               /\ Called(l, n, s) = f[n]
  BY CalledDef
<1> DEFINE S == {k \in 0..n : Woken(s, f[k], FirstOf(l, k))}
<1>2. 0 \in S
  <2>1. FirstOf(l, 0) = {}
    BY DEF FirstOf
  <2>2. Woken(s, s, {})
    BY DEF Woken
  <2> QED
    BY <1>1, <2>1, <2>2
<1>3. ASSUME NEW k \in 0..(n - 1), k \in S
      PROVE  k + 1 \in S
  <2> DEFINE t == l[k + 1].timer
  <2>1. k + 1 \in 1..n /\ (k + 1) - 1 = k /\ k + 1 \in 0..n
    OBVIOUS
  <2>2. FirstOf(l, k + 1) = FirstOf(l, k) \cup {t}
    BY DEF FirstOf
  <2>3. t \in Timers /\ t # s.k.currp
    BY <2>1 DEF FirstOf
  <2>4. f[k + 1] = Wakeup(f[k], t)
    BY <1>1, <2>1
  <2>5. Woken(s, f[k], FirstOf(l, k))
    BY <1>3
  <2> HIDE DEF t
  <2>6. Woken(f[k], f[k + 1], {t})
    BY <2>3, <2>4, <2>5, WakeupWakes DEF Woken
  <2>7. Woken(s, f[k + 1], FirstOf(l, k) \cup {t})
    <3>1. WakeOk(f[k + 1]) /\ f[k + 1].k.currp = s.k.currp
      BY <2>5, <2>6 DEF Woken
    <3>2. ASSUME NEW u \in Threads
          PROVE  Stop(f[k + 1].k, u) = IF u \in FirstOf(l, k) \cup {t} THEN "runs" ELSE Stop(s.k, u)
      BY <2>5, <2>6 DEF Woken
    <3>3. ASSUME NEW u \in Timers
          PROVE  f[k + 1].msg[u] =
                    IF u \in FirstOf(l, k) \cup {t} /\ Stop(s.k, u) # "runs" THEN "TIMEOUT" ELSE s.msg[u]
      <4>1. u \in Threads
        BY WaitAssumption
      <4> QED
        BY <2>5, <2>6, <4>1 DEF Woken
    <3> QED
      BY <3>1, <3>2, <3>3 DEF Woken
  <2> QED
    BY <2>1, <2>2, <2>7
<1>4. 0..n \subseteq S
  <2> HIDE DEF S
  <2> QED
    BY <1>2, <1>3, UpTo
<1> QED
  BY <1>1, <1>4

----------------------------------------------------------------------------
(* The steps                                                               *)

\* What a wait ended with stays while the thread is ready.
Verdicts ==
    \A t \in Timers :
       sched.p_state[t] = "READY" /\ sched'.p_state[t] = "READY" => rdymsg'[t] = rdymsg[t]

TimerStep == Service!Next \/ UNCHANGED timerVars

\* What every step does.
Keeps == WaitInv' /\ TimerStep /\ Verdicts

LEMMA WaitFacts ==
    ASSUME WaitInv
    PROVE  /\ TimerInv /\ WaitTypes /\ SchedInv(sched)
           /\ Fifo(Threads, q_waiting, Readers(sched))
           /\ isr => ~Locked
           /\ \A t \in Timers : WaitOf(sched, pc, time, vt_func, rdymsg, t)
           /\ BytesKept(sched, q_waiting, count, pc, rdymsg)
           /\ vt_func \in [Timers -> BOOLEAN]
           /\ Timers \subseteq Threads /\ \A t \in Threads : t # Idle => t \in Timers
           /\ me \in Threads /\ Stop(sched, me) = "runs"
           /\ \A k, p, m : Way(k, p, m) \subseteq Timers /\ IsFiniteSet(Way(k, p, m))
<1>1. Timers \subseteq Threads /\ \A t \in Threads : t # Idle => t \in Timers
  BY WaitAssumption
<1>2. \A k, p, m : Way(k, p, m) \subseteq Timers
  BY DEF Way
<1>3. \A k, p, m : IsFiniteSet(Way(k, p, m))
  BY <1>1, <1>2, ThreadsAssumption, FS_Subset
<1>4. SchedInv(sched)
  BY DEF WaitInv
<1>5. me \in Threads /\ Stop(sched, me) = "runs"
  BY <1>4, CurrentRuns DEF me
<1> QED
  BY <1>1, <1>2, <1>3, <1>4, <1>5 DEF WaitInv, Waits, TimerInv, TimersOk

\* chSchGoSleepTimeoutS, by a thread that runs or looks for its byte again.
LEMMA GoSleepStep ==
    ASSUME WaitInv, NEW place \in {"run", "loop"}, Runs(place), NEW n \in Delays,
           NEW s \in {"SLEEPING", "WTQUEUE"}, s = "SLEEPING" => n # TIME_INFINITE,
           GoSleepTimeout(s, n), isr' = isr, count' = count, rdymsg' = rdymsg
    PROVE  /\ TimerInv' /\ WaitTypes' /\ SchedInv(sched') /\ Waits' /\ TimerStep
           /\ Readers(sched') = Readers(sched) \cup (IF s = "WTQUEUE" THEN {me} ELSE {})
           /\ me \in Threads \ Readers(sched)
           /\ Way(sched', pc', rdymsg') = Way(sched, pc, rdymsg) \ {me}
           /\ place = "run" => me \notin Way(sched, pc, rdymsg)
<1>1. /\ TimerInv /\ WaitTypes /\ SchedInv(sched)
      /\ \A t \in Timers : WaitOf(sched, pc, time, vt_func, rdymsg, t)
      /\ vt_func \in [Timers -> BOOLEAN]
      /\ Timers \subseteq Threads
      /\ me \in Timers /\ Stop(sched, me) = "runs"
  BY WaitFacts DEF Runs
<1>2. isr = FALSE /\ me # Idle /\ pc[me] = place
  BY DEF Runs, WaitInv, WaitTypes
<1>3. /\ IF n = TIME_INFINITE THEN UNCHANGED timerVars ELSE SetTimer(me, n)
      /\ sched' = GoSleepS(sched, s)
      /\ pc' = [pc EXCEPT ![me] = "wait"]
      /\ time' = [time EXCEPT ![me] = n]
  BY DEF GoSleepTimeout
<1>4. ~vt_func[me]
  BY <1>1, <1>2 DEF WaitOf
<1>5. /\ TimerInv' /\ TimerStep /\ vt_func' \in [Timers -> BOOLEAN]
      /\ \A t \in Timers \ {me} : vt_func'[t] = vt_func[t]
      /\ vt_func'[me] <=> n # TIME_INFINITE
  <2>1. CASE n = TIME_INFINITE
    <3>1. vtlist' = vtlist /\ vt_func' = vt_func /\ UNCHANGED <<vt_systime, asked, fired>>
      BY <1>3, <2>1 DEF timerVars
    <3> QED
      BY <1>1, <1>4, <2>1, <3>1 DEF TimerInv, TimerStep, timerVars
  <2>2. CASE n # TIME_INFINITE
    <3>1. SetTimer(me, n)
      BY <1>3, <2>2
    <3>2. TimerInv' /\ Service!Next
      BY <1>1, <3>1, SetKeeps
    <3>3. vt_func' = [vt_func EXCEPT ![me] = TRUE]
      BY <3>1 DEF SetTimer
    <3> QED
      BY <1>1, <2>2, <3>2, <3>3 DEF TimerStep
  <2> QED
    BY <2>1, <2>2
<1>6. /\ SchedInv(sched') /\ Stop(sched', me) = s
      /\ \A u \in Threads \ {me} : Stop(sched', u) = Stop(sched, u)
  <2> DEFINE k == sched
  <2>1. SchedInv(k) /\ k.currp = me /\ s \in Stopped /\ sched' = GoSleepS(k, s)
    BY <1>1, <1>3 DEF Stopped, me
  <2> HIDE DEF k
  <2> QED
    BY <1>2, <2>1, GoSleepKeeps DEF k
<1>7. /\ pc' \in [Timers -> Places] /\ pc'[me] = "wait"
      /\ \A t \in Timers \ {me} : pc'[t] = pc[t]
  BY <1>1, <1>3 DEF WaitTypes, Places
<1>8. /\ time' \in [Timers -> Delays] /\ time'[me] = n
      /\ \A t \in Timers \ {me} : time'[t] = time[t]
  BY <1>1, <1>3 DEF WaitTypes
<1>9. WaitTypes'
  BY <1>1, <1>7, <1>8 DEF WaitTypes
<1>10. ASSUME NEW t \in Timers
       PROVE  WaitOf(sched', pc', time', vt_func', rdymsg', t)
  <2>1. CASE t = me
    <3>1. Stop(sched', t) = s /\ pc'[t] = "wait" /\ time'[t] = n /\ (vt_func'[t] <=> n # TIME_INFINITE)
      BY <1>5, <1>6, <1>7, <1>8, <2>1
    <3> QED
      BY <3>1 DEF WaitOf
  <2>2. CASE t # me
    <3>1. /\ Stop(sched', t) = Stop(sched, t) /\ pc'[t] = pc[t] /\ time'[t] = time[t]
          /\ vt_func'[t] = vt_func[t] /\ rdymsg'[t] = rdymsg[t]
      BY <1>1, <1>5, <1>6, <1>7, <1>8, <2>2
    <3>2. WaitOf(sched, pc, time, vt_func, rdymsg, t)
      BY <1>1
    <3> QED
      BY <2>2, <3>1, <3>2 DEF WaitOf, me
  <2> QED
    BY <2>1, <2>2
<1>11. Waits'
  BY <1>2, <1>10 DEF Waits
<1>12. /\ Readers(sched') = Readers(sched) \cup (IF s = "WTQUEUE" THEN {me} ELSE {})
       /\ me \in Threads \ Readers(sched)
  BY <1>1, <1>6 DEF Readers
<1>13. Way(sched', pc', rdymsg') = Way(sched, pc, rdymsg) \ {me}
  <2>1. s # "runs"
    OBVIOUS
  <2> QED
    BY <1>1, <1>6, <1>7, <2>1 DEF Way
<1>14. place = "run" => me \notin Way(sched, pc, rdymsg)
  BY <1>2 DEF Way
<1> QED
  BY <1>5, <1>6, <1>9, <1>11, <1>12, <1>13, <1>14

LEMMA SleepStep ==
    ASSUME WaitInv, NEW n \in Timeouts, Sleep(n)
    PROVE  Keeps
<1>1. /\ Runs("run") /\ n # TIME_INFINITE /\ GoSleepTimeout("SLEEPING", n)
      /\ isr' = isr /\ count' = count /\ q_waiting' = q_waiting /\ rdymsg' = rdymsg
  BY DEF Sleep
<1>2. n \in Delays
  BY WaitAssumption
<1>3. /\ TimerInv' /\ WaitTypes' /\ SchedInv(sched') /\ Waits' /\ TimerStep
      /\ Readers(sched') = Readers(sched)
      /\ Way(sched', pc', rdymsg') = Way(sched, pc, rdymsg)
  <2> DEFINE s == "SLEEPING"
             place == "run"
  <2>1. /\ TimerInv' /\ WaitTypes' /\ SchedInv(sched') /\ Waits' /\ TimerStep
        /\ Readers(sched') = Readers(sched) \cup (IF s = "WTQUEUE" THEN {me} ELSE {})
        /\ Way(sched', pc', rdymsg') = Way(sched, pc, rdymsg) \ {me}
        /\ place = "run" => me \notin Way(sched, pc, rdymsg)
    BY <1>1, <1>2, GoSleepStep
  <2> QED
    BY <2>1
<1>4. BytesKept(sched', q_waiting', count', pc', rdymsg')
  BY <1>1, <1>3, WaitFacts DEF BytesKept
<1>5. Fifo(Threads, q_waiting', Readers(sched'))
  BY <1>1, <1>3, WaitFacts
<1> QED
  BY <1>1, <1>3, <1>4, <1>5 DEF Keeps, WaitInv, Verdicts

\* A byte is there, or the thread waits for one.
LEMMA GetStep ==
    ASSUME WaitInv, NEW place \in {"run", "loop"}, NEW n \in Delays, GetFrom(place, n)
    PROVE  Keeps
<1>1. /\ TimerInv /\ WaitTypes /\ SchedInv(sched)
      /\ Fifo(Threads, q_waiting, Readers(sched))
      /\ \A t \in Timers : WaitOf(sched, pc, time, vt_func, rdymsg, t)
      /\ BytesKept(sched, q_waiting, count, pc, rdymsg)
      /\ vt_func \in [Timers -> BOOLEAN]
      /\ Timers \subseteq Threads
      /\ me \in Timers /\ Stop(sched, me) = "runs"
      /\ IsFiniteSet(Way(sched, pc, rdymsg))
  BY WaitFacts DEF Runs, GetFrom
<1>2. Runs(place) /\ isr' = isr /\ rdymsg' = rdymsg
  BY DEF GetFrom
<1>3. isr = FALSE /\ pc[me] = place
  BY <1>1, <1>2 DEF Runs, WaitTypes
<1>4. Capacity \in Nat
  BY WaitAssumption
<1>5. CASE count > 0
  <2>1. /\ count' = count - 1 /\ pc' = [pc EXCEPT ![me] = "run"]
        /\ vtlist' = vtlist /\ vt_func' = vt_func /\ UNCHANGED <<vt_systime, asked, fired>>
        /\ sched' = sched /\ q_waiting' = q_waiting
        /\ time' = [time EXCEPT ![me] = TIME_INFINITE]
    BY <1>5 DEF GetFrom, timerVars
  <2>2. /\ pc' \in [Timers -> Places] /\ pc'[me] = "run"
        /\ time' \in [Timers -> Delays]
        /\ \A t \in Timers \ {me} : pc'[t] = pc[t] /\ time'[t] = time[t]
    BY <1>1, <2>1, TimeModAssumption DEF WaitTypes, Places, Delays, TIME_INFINITE
  <2>3. count - 1 \in 0..Capacity /\ count \in Nat
    BY <1>1, <1>4, <1>5 DEF WaitTypes
  <2>4. WaitTypes'
    BY <1>1, <1>2, <2>1, <2>2, <2>3 DEF WaitTypes
  <2>5. ASSUME NEW t \in Timers
        PROVE  WaitOf(sched', pc', time', vt_func', rdymsg', t)
    <3>1. WaitOf(sched, pc, time, vt_func, rdymsg, t)
      BY <1>1
    <3>2. CASE t = me
      <4>1. Stop(sched, t) = "runs" /\ pc[t] # "wait" /\ pc'[t] = "run"
        BY <1>1, <1>3, <2>2, <3>2
      <4>2. ~vt_func[t]
        BY <3>1, <4>1 DEF WaitOf
      <4> QED
        BY <2>1, <4>1, <4>2 DEF WaitOf
    <3>3. CASE t # me
      <4>1. pc'[t] = pc[t] /\ time'[t] = time[t]
        BY <2>2, <3>3
      <4> QED
        BY <1>2, <2>1, <3>1, <4>1 DEF WaitOf
    <3> QED
      BY <3>2, <3>3
  <2>6. Waits'
    BY <1>2, <1>3, <2>5 DEF Waits
  <2>7. Way(sched', pc', rdymsg') = Way(sched, pc, rdymsg) \ {me}
    BY <1>1, <1>2, <2>1, <2>2 DEF Way
  <2>8. BytesKept(sched', q_waiting', count', pc', rdymsg')
    <3> DEFINE W == Way(sched, pc, rdymsg)
    <3>1. IsFiniteSet(W) /\ Cardinality(W) \in Nat
      BY <1>1, FS_CardinalityType
    <3>2. Cardinality(W \ {me}) = IF me \in W THEN Cardinality(W) - 1 ELSE Cardinality(W)
      BY <3>1, FS_RemoveElement
    <3>3. q_waiting # <<>> => count <= Cardinality(W)
      BY <1>1 DEF BytesKept
    <3> HIDE DEF W
    <3>4. q_waiting # <<>> => count - 1 <= Cardinality(W \ {me})
      BY <2>3, <3>1, <3>2, <3>3
    <3> QED
      BY <2>1, <2>7, <3>4 DEF BytesKept, W
  <2>9. TimerInv' /\ TimerStep
    BY <1>1, <2>1 DEF TimerInv, TimerStep, timerVars
  <2>10. Fifo(Threads, q_waiting', Readers(sched')) /\ SchedInv(sched')
    BY <1>1, <2>1
  <2>11. Verdicts
    BY <1>2 DEF Verdicts
  <2> QED
    BY <2>4, <2>6, <2>8, <2>9, <2>10, <2>11 DEF Keeps, WaitInv
<1>6. CASE ~(count > 0)
  <2>1. /\ q_waiting' = Append(q_waiting, me) /\ GoSleepTimeout("WTQUEUE", n) /\ count' = count
    BY <1>6 DEF GetFrom
  <2>2. /\ TimerInv' /\ WaitTypes' /\ SchedInv(sched') /\ Waits' /\ TimerStep
        /\ Readers(sched') = Readers(sched) \cup {me} /\ me \in Threads \ Readers(sched)
    <3> DEFINE s == "WTQUEUE"
    <3>1. /\ TimerInv' /\ WaitTypes' /\ SchedInv(sched') /\ Waits' /\ TimerStep
          /\ Readers(sched') = Readers(sched) \cup (IF s = "WTQUEUE" THEN {me} ELSE {})
          /\ me \in Threads \ Readers(sched)
      BY <1>2, <2>1, GoSleepStep
    <3> QED
      BY <3>1
  <2>3. Fifo(Threads, q_waiting', Readers(sched'))
    BY <1>1, <2>1, <2>2, FifoAppend
  <2>4. BytesKept(sched', q_waiting', count', pc', rdymsg')
    <3> DEFINE W == Way(sched', pc', rdymsg')
    <3>1. Cardinality(W) \in Nat
      BY WaitFacts, FS_CardinalityType
    <3>2. count' = 0
      BY <1>1, <1>4, <1>6, <2>1 DEF WaitTypes
    <3> HIDE DEF W
    <3>3. count' <= Cardinality(W)
      BY <3>1, <3>2
    <3> QED
      BY <3>3 DEF BytesKept, W
  <2>5. Verdicts
    BY <1>2 DEF Verdicts
  <2> QED
    BY <2>2, <2>3, <2>4, <2>5 DEF Keeps, WaitInv
<1> QED
  BY <1>5, <1>6

LEMMA GetAgainStep ==
    ASSUME WaitInv, GetAgain
    PROVE  Keeps
<1>1. me \in Timers /\ time \in [Timers -> Delays]
  BY WaitFacts DEF GetAgain, WaitTypes
<1> DEFINE n == time[me]
           place == "loop"
<1>2. n \in Delays /\ GetFrom(place, n)
  BY <1>1 DEF GetAgain
<1> HIDE DEF n
<1> QED
  BY <1>2, GetStep

LEMMA GetAnyStep ==
    ASSUME WaitInv, NEW n \in Timeouts, Get(n)
    PROVE  Keeps
<1> DEFINE place == "run"
<1>1. n \in Delays /\ GetFrom(place, n)
  BY WaitAssumption DEF Get
<1> QED
  BY <1>1, GetStep

LEMMA ResumeStep ==
    ASSUME WaitInv, Resume
    PROVE  Keeps
<1>1. /\ TimerInv /\ WaitTypes /\ SchedInv(sched)
      /\ Fifo(Threads, q_waiting, Readers(sched))
      /\ \A t \in Timers : WaitOf(sched, pc, time, vt_func, rdymsg, t)
      /\ BytesKept(sched, q_waiting, count, pc, rdymsg)
      /\ vt_func \in [Timers -> BOOLEAN]
      /\ me \in Timers /\ Stop(sched, me) = "runs"
  BY WaitFacts DEF Runs, Resume
<1>2. /\ isr = FALSE /\ pc[me] = "wait"
      /\ IF vt_func[me] THEN ResetTimer(me) ELSE UNCHANGED timerVars
      /\ pc' = [pc EXCEPT ![me] = IF rdymsg[me] = "OK" THEN "loop" ELSE "run"]
      /\ sched' = sched /\ isr' = isr /\ count' = count /\ q_waiting' = q_waiting
      /\ time' \in {time, [time EXCEPT ![me] = TIME_INFINITE]} /\ rdymsg' = rdymsg
  BY <1>1 DEF Runs, Resume, WaitTypes
<1>3. /\ TimerInv' /\ TimerStep /\ vt_func' \in [Timers -> BOOLEAN]
      /\ \A t \in Timers \ {me} : vt_func'[t] = vt_func[t]
      /\ ~vt_func'[me]
  <2>1. CASE ~vt_func[me]
    <3>1. vtlist' = vtlist /\ vt_func' = vt_func /\ UNCHANGED <<vt_systime, asked, fired>>
      BY <1>2, <2>1 DEF timerVars
    <3> QED
      BY <1>1, <2>1, <3>1 DEF TimerInv, TimerStep, timerVars
  <2>2. CASE vt_func[me]
    <3>1. ResetTimer(me)
      BY <1>2, <2>2
    <3>2. TimerInv' /\ Service!Next
      BY <1>1, <3>1, ResetKeeps
    <3>3. vt_func' = [vt_func EXCEPT ![me] = FALSE]
      BY <3>1 DEF ResetTimer
    <3> QED
      BY <1>1, <3>2, <3>3 DEF TimerStep
  <2> QED
    BY <2>1, <2>2
<1>4. /\ pc' \in [Timers -> Places]
      /\ pc'[me] = IF rdymsg[me] = "OK" THEN "loop" ELSE "run"
      /\ time' \in [Timers -> Delays]
      /\ \A t \in Timers \ {me} : pc'[t] = pc[t] /\ time'[t] = time[t]
  BY <1>1, <1>2, TimeModAssumption DEF WaitTypes, Places, Delays, TIME_INFINITE
<1>5. WaitTypes'
  BY <1>1, <1>2, <1>4 DEF WaitTypes
<1>6. ASSUME NEW t \in Timers
      PROVE  WaitOf(sched', pc', time', vt_func', rdymsg', t)
  <2>1. WaitOf(sched, pc, time, vt_func, rdymsg, t)
    BY <1>1
  <2>2. CASE t = me
    <3>1. /\ Stop(sched', t) = "runs" /\ pc'[t] # "wait" /\ (pc'[t] = "loop" => rdymsg'[t] = "OK")
          /\ ~vt_func'[t] /\ t = sched'.currp
      BY <1>1, <1>2, <1>3, <1>4, <2>2 DEF me
    <3> QED
      BY <3>1 DEF WaitOf
  <2>3. CASE t # me
    <3>1. vt_func'[t] = vt_func[t] /\ pc'[t] = pc[t] /\ time'[t] = time[t]
      BY <1>3, <1>4, <2>3
    <3> QED
      BY <1>2, <2>1, <3>1 DEF WaitOf
  <2> QED
    BY <2>2, <2>3
<1>7. Waits'
  BY <1>2, <1>6 DEF Waits
<1>8. Way(sched', pc', rdymsg') = Way(sched, pc, rdymsg)
  <2>1. ASSUME NEW t \in Timers
        PROVE  pc'[t] \in {"wait", "loop"} /\ rdymsg[t] = "OK" <=> pc[t] \in {"wait", "loop"} /\ rdymsg[t] = "OK"
    BY <1>2, <1>4
  <2> QED
    BY <1>2, <2>1 DEF Way
<1>9. BytesKept(sched', q_waiting', count', pc', rdymsg')
  BY <1>1, <1>2, <1>8 DEF BytesKept
<1>10. Verdicts
  BY <1>2 DEF Verdicts
<1>11. Fifo(Threads, q_waiting', Readers(sched')) /\ SchedInv(sched')
  BY <1>1, <1>2
<1> QED
  BY <1>3, <1>5, <1>7, <1>9, <1>10, <1>11 DEF Keeps, WaitInv

LEMMA PutStep ==
    ASSUME WaitInv, Put
    PROVE  Keeps
<1>1. /\ TimerInv /\ WaitTypes /\ SchedInv(sched)
      /\ Fifo(Threads, q_waiting, Readers(sched))
      /\ \A t \in Timers : WaitOf(sched, pc, time, vt_func, rdymsg, t)
      /\ BytesKept(sched, q_waiting, count, pc, rdymsg)
      /\ Timers \subseteq Threads /\ \A t \in Threads : t # Idle => t \in Timers
      /\ IsFiniteSet(Way(sched, pc, rdymsg))
  BY WaitFacts
<1>2. /\ ~Locked /\ isr' = TRUE
      /\ count' = IF count < Capacity THEN count + 1 ELSE count
      /\ vtlist' = vtlist /\ vt_func' = vt_func /\ UNCHANGED <<vt_systime, asked, fired>>
      /\ pc' = pc /\ time' = time
  BY DEF Put, timerVars
<1>3. count' \in 0..Capacity /\ count \in Nat
  <2>1. Capacity \in Nat /\ count \in 0..Capacity
    BY <1>1, WaitAssumption DEF WaitTypes
  <2> QED
    BY <1>2, <2>1
<1>4. TimerInv' /\ TimerStep
  BY <1>1, <1>2 DEF TimerInv, TimerStep, timerVars
<1>5. CASE count < Capacity /\ q_waiting # <<>>
  <2> DEFINE h == Head(q_waiting)
  <2>1. /\ sched' = ReadyI(sched, h) /\ rdymsg' = [rdymsg EXCEPT ![h] = "OK"]
        /\ q_waiting' = Tail(q_waiting) /\ count' = count + 1
    BY <1>2, <1>5 DEF Put
  <2>2. h \in Readers(sched) /\ Fifo(Threads, q_waiting', Readers(sched) \ {h})
    BY <1>1, <1>5, <2>1, FifoTail
  <2> HIDE DEF h
  <2>3. h \in Threads /\ Stop(sched, h) = "WTQUEUE" /\ sched.p_state[h] = "WTQUEUE"
    BY <2>2 DEF Readers, Stop
  <2>4. h \in Timers
    BY <1>1, <2>3 DEF SchedInv, Stopped
  <2>5. /\ SchedInv(sched') /\ sched'.currp = me
        /\ Stop(sched', h) = "runs"
        /\ \A u \in Threads \ {h} : Stop(sched', u) = Stop(sched, u)
    <3> DEFINE k == sched
    <3>1. SchedInv(k) /\ k.currp = me /\ k.p_state[h] \in Stopped /\ sched' = ReadyI(k, h)
      BY <1>1, <2>1, <2>3 DEF Stopped, me
    <3> HIDE DEF k
    <3> QED
      BY <2>3, <3>1, ReadyIKeeps DEF k
  <2>6. /\ rdymsg' \in Messages /\ rdymsg'[h] = "OK"
        /\ \A t \in Timers \ {h} : rdymsg'[t] = rdymsg[t]
    BY <1>1, <2>1, <2>4 DEF WaitTypes, Messages
  <2>7. WaitTypes'
    BY <1>1, <1>2, <1>3, <2>6 DEF WaitTypes
  <2>8. WaitOf(sched, pc, time, vt_func, rdymsg, h) /\ pc[h] = "wait"
    BY <1>1, <2>3, <2>4 DEF WaitOf
  <2>9. ASSUME NEW t \in Timers
        PROVE  WaitOf(sched', pc', time', vt_func', rdymsg', t)
    <3>1. WaitOf(sched, pc, time, vt_func, rdymsg, t)
      BY <1>1
    <3>2. CASE t = h
      BY <1>2, <2>5, <2>8, <3>1, <3>2 DEF WaitOf
    <3>3. CASE t # h
      <4>1. Stop(sched', t) = Stop(sched, t) /\ rdymsg'[t] = rdymsg[t]
        BY <1>1, <2>5, <2>6, <3>3
      <4> QED
        BY <1>2, <2>5, <3>1, <4>1 DEF WaitOf, me
    <3> QED
      BY <3>2, <3>3
  <2>10. Waits'
    BY <1>2, <2>5, <2>9 DEF Waits, Locked, me
  <2>11. /\ Way(sched', pc', rdymsg') = Way(sched, pc, rdymsg) \cup {h}
         /\ h \notin Way(sched, pc, rdymsg)
    <3>1. h \notin Way(sched, pc, rdymsg)
      BY <2>3 DEF Way
    <3>2. ASSUME NEW t \in Timers, t # h
          PROVE  Stop(sched', t) = Stop(sched, t) /\ rdymsg'[t] = rdymsg[t] /\ pc'[t] = pc[t]
      BY <1>1, <1>2, <2>5, <2>6, <3>2
    <3>3. h \in Way(sched', pc', rdymsg')
      BY <1>2, <2>4, <2>5, <2>6, <2>8 DEF Way
    <3> QED
      BY <3>1, <3>2, <3>3 DEF Way
  <2>12. BytesKept(sched', q_waiting', count', pc', rdymsg')
    <3> DEFINE W == Way(sched, pc, rdymsg)
    <3>1. IsFiniteSet(W) /\ Cardinality(W) \in Nat
      BY <1>1, FS_CardinalityType
    <3>2. count <= Cardinality(W)
      BY <1>1, <1>5 DEF BytesKept
    <3>3. h \notin W /\ Way(sched', pc', rdymsg') = W \cup {h}
      BY <2>11
    <3> HIDE DEF W
    <3>4. Cardinality(W \cup {h}) = Cardinality(W) + 1
      BY <3>1, <3>3, FS_AddElement
    <3>5. count + 1 <= Cardinality(W \cup {h})
      BY <1>3, <3>1, <3>2, <3>4
    <3> QED
      BY <2>1, <3>3, <3>5 DEF BytesKept
  <2>13. Fifo(Threads, q_waiting', Readers(sched'))
    <3>1. Readers(sched') = Readers(sched) \ {h}
      BY <2>3, <2>5 DEF Readers
    <3> QED
      BY <2>2, <3>1
  <2>14. Verdicts
    <3>1. sched.p_state[h] # "READY"
      BY <2>3
    <3> QED
      BY <2>6, <3>1 DEF Verdicts
  <2> QED
    BY <1>4, <2>5, <2>7, <2>10, <2>12, <2>13, <2>14 DEF Keeps, WaitInv
<1>6. CASE ~(count < Capacity /\ q_waiting # <<>>)
  <2>1. sched' = sched /\ rdymsg' = rdymsg /\ q_waiting' = q_waiting
    BY <1>6 DEF Put
  <2>2. WaitTypes'
    BY <1>1, <1>2, <1>3, <2>1 DEF WaitTypes
  <2>3. Waits'
    BY <1>1, <1>2, <2>1 DEF Waits, Locked, me
  <2>4. BytesKept(sched', q_waiting', count', pc', rdymsg')
    BY <1>1, <1>2, <1>6, <2>1 DEF BytesKept
  <2>5. Verdicts
    BY <2>1 DEF Verdicts
  <2>6. Fifo(Threads, q_waiting', Readers(sched')) /\ SchedInv(sched')
    BY <1>1, <2>1
  <2> QED
    BY <1>4, <2>2, <2>3, <2>4, <2>5, <2>6 DEF Keeps, WaitInv
<1> QED
  BY <1>5, <1>6

LEMMA TickStep ==
    ASSUME WaitInv, Tick
    PROVE  Keeps
<1> DEFINE due == FirstOf(vtlist, Due(Aged(vtlist)))
           s == [k |-> QuantumTick(sched), q |-> q_waiting, msg |-> rdymsg]
           n == Called(vtlist, Due(Aged(vtlist)), s)
<1>1. /\ TimerInv /\ WaitTypes /\ SchedInv(sched)
      /\ Fifo(Threads, q_waiting, Readers(sched))
      /\ \A t \in Timers : WaitOf(sched, pc, time, vt_func, rdymsg, t)
      /\ BytesKept(sched, q_waiting, count, pc, rdymsg)
      /\ Timers \subseteq Threads
  BY WaitFacts
<1>2. /\ ~Locked /\ TimersTick /\ isr' = TRUE
      /\ sched' = n.k /\ q_waiting' = n.q /\ rdymsg' = n.msg
      /\ count' = count /\ pc' = pc /\ time' = time
  BY DEF Tick
<1>3. /\ TimerInv' /\ Service!Next
      /\ Due(Aged(vtlist)) \in Nat
      /\ due \subseteq {t \in Timers : vt_func[t]}
      /\ \A t \in Timers : vt_func'[t] <=> vt_func[t] /\ t \notin due
  <2>1. Len(vtlist) \in Nat
    BY <1>1, EntryFields DEF TimerInv, TimersOk, Sound
  <2> QED
    BY <1>1, <1>2, <2>1, TicksKeep
<1> HIDE DEF due
<1>4. ASSUME NEW t \in Timers
      PROVE  pc[t] # "loop" /\ (t \in due => pc[t] = "wait" /\ t # me)
  <2>1. WaitOf(sched, pc, time, vt_func, rdymsg, t)
    BY <1>1
  <2>2. t = me => pc[t] = "run"
    BY <1>2, WaitAssumption DEF Locked
  <2>3. t \in due => vt_func[t]
    BY <1>3
  <2> QED
    BY <2>1, <2>2, <2>3 DEF WaitOf, me
<1>5. /\ WakeOk(s) /\ s.k.currp = me /\ s.msg = rdymsg /\ s.q = q_waiting
      /\ s.k.p_state = sched.p_state
      /\ \A u \in Threads : Stop(s.k, u) = Stop(sched, u)
  <2> DEFINE k == QuantumTick(sched)
  <2>1. SchedInv(k) /\ \A u \in Threads : Stop(k, u) = Stop(sched, u)
    BY <1>1, TickKeeps
  <2>2. k.currp = me /\ k.p_state = sched.p_state
    BY <1>1 DEF QuantumTick, me, SchedInv, SchedType
  <2> HIDE DEF k
  <2>3. s.k = k /\ s.q = q_waiting /\ s.msg = rdymsg
    BY DEF k
  <2> HIDE DEF s
  <2>4. Readers(s.k) = Readers(sched)
    BY <2>1, <2>3 DEF Readers
  <2> QED
    BY <1>1, <2>1, <2>2, <2>3, <2>4 DEF WakeOk, WaitTypes
<1> HIDE DEF s
<1>6. Woken(s, n, due)
  <2>1. due \subseteq Timers \ {s.k.currp}
    BY <1>3, <1>4, <1>5
  <2> QED
    BY <1>3, <1>5, <2>1, CalledWakes DEF due
<1> HIDE DEF n
<1>7. /\ SchedInv(sched') /\ Fifo(Threads, q_waiting', Readers(sched')) /\ rdymsg' \in Messages
      /\ sched'.currp = me
      /\ \A u \in Threads : Stop(sched', u) = IF u \in due THEN "runs" ELSE Stop(sched, u)
      /\ \A u \in Timers : rdymsg'[u] = IF u \in due /\ Stop(sched, u) # "runs" THEN "TIMEOUT" ELSE rdymsg[u]
  <2>1. /\ WakeOk(n) /\ n.k.currp = s.k.currp
        /\ \A u \in Threads : Stop(n.k, u) = IF u \in due THEN "runs" ELSE Stop(s.k, u)
        /\ \A u \in Timers : n.msg[u] = IF u \in due /\ Stop(s.k, u) # "runs" THEN "TIMEOUT" ELSE s.msg[u]
    BY <1>6 DEF Woken
  <2>2. \A u \in Timers : n.msg[u] = IF u \in due /\ Stop(sched, u) # "runs" THEN "TIMEOUT" ELSE rdymsg[u]
    BY <1>1, <1>5, <2>1
  <2> QED
    BY <1>2, <1>5, <2>1, <2>2 DEF WakeOk
<1>8. WaitTypes'
  BY <1>1, <1>2, <1>7 DEF WaitTypes
<1>9. ASSUME NEW t \in Timers
      PROVE  WaitOf(sched', pc', time', vt_func', rdymsg', t)
  <2>1. WaitOf(sched, pc, time, vt_func, rdymsg, t) /\ pc[t] # "loop"
    BY <1>1, <1>4
  <2>2. /\ Stop(sched', t) = IF t \in due THEN "runs" ELSE Stop(sched, t)
        /\ vt_func'[t] <=> vt_func[t] /\ t \notin due
    BY <1>1, <1>3, <1>7
  <2>3. CASE t \in due
    BY <1>2, <2>1, <2>2, <2>3 DEF WaitOf
  <2>4. CASE t \notin due
    BY <1>2, <2>1, <2>2, <2>4 DEF WaitOf
  <2> QED
    BY <2>3, <2>4
<1>10. Waits'
  BY <1>2, <1>7, <1>9 DEF Waits, Locked, me
<1>11. Way(sched', pc', rdymsg') = Way(sched, pc, rdymsg)
  <2>1. ASSUME NEW t \in Timers
        PROVE  (Stop(sched', t) = "runs" /\ rdymsg'[t] = "OK") <=> (Stop(sched, t) = "runs" /\ rdymsg[t] = "OK")
    BY <1>1, <1>7
  <2> QED
    BY <1>2, <2>1 DEF Way
<1>12. q_waiting' # <<>> => q_waiting # <<>>
  <2>1. Readers(sched') \subseteq Readers(sched)
    BY <1>7 DEF Readers
  <2>2. (q_waiting' = <<>> <=> Readers(sched') = {}) /\ (q_waiting = <<>> <=> Readers(sched) = {})
    BY <1>1, <1>7, FifoEmpty
  <2> QED
    BY <2>1, <2>2
<1>13. BytesKept(sched', q_waiting', count', pc', rdymsg')
  BY <1>1, <1>2, <1>11, <1>12 DEF BytesKept
<1>14. Verdicts
  <2>1. ASSUME NEW t \in Timers, sched.p_state[t] = "READY"
        PROVE  rdymsg'[t] = rdymsg[t]
    <3>1. Stop(sched, t) = "runs"
      BY <2>1 DEF Stop, Stopped
    <3> QED
      BY <1>7, <3>1
  <2> QED
    BY <2>1 DEF Verdicts
<1> QED
  BY <1>3, <1>7, <1>8, <1>10, <1>13, <1>14 DEF Keeps, WaitInv, TimerStep

\* Steps that change neither a wait nor a timer.
LEMMA OtherStep ==
    ASSUME WaitInv, SchedInv(sched'), \A u \in Threads : Stop(sched', u) = Stop(sched, u),
           \/ isr /\ isr' = FALSE
           \/ isr' = isr /\ sched' = sched,
           UNCHANGED <<timerVars, count, q_waiting, pc, time, rdymsg>>
    PROVE  Keeps
<1>1. /\ TimerInv /\ WaitTypes
      /\ Fifo(Threads, q_waiting, Readers(sched))
      /\ isr => ~Locked
      /\ \A t \in Timers : WaitOf(sched, pc, time, vt_func, rdymsg, t)
      /\ BytesKept(sched, q_waiting, count, pc, rdymsg)
      /\ Timers \subseteq Threads
  BY WaitFacts
<1>2. /\ vtlist' = vtlist /\ vt_func' = vt_func /\ UNCHANGED <<vt_systime, asked, fired>> /\ count' = count
      /\ q_waiting' = q_waiting /\ pc' = pc /\ time' = time /\ rdymsg' = rdymsg
  BY DEF timerVars
<1>3. TimerInv' /\ TimerStep
  BY <1>1, <1>2 DEF TimerInv, TimerStep, timerVars
<1>4. WaitTypes'
  BY <1>1, <1>2 DEF WaitTypes
<1>5. Readers(sched') = Readers(sched)
  BY DEF Readers
<1>6. Way(sched', pc', rdymsg') = Way(sched, pc, rdymsg)
  BY <1>1, <1>2 DEF Way
<1>7. BytesKept(sched', q_waiting', count', pc', rdymsg')
  BY <1>1, <1>2, <1>6 DEF BytesKept
<1>8. Waits'
  <2>1. CASE isr /\ isr' = FALSE
    <3>1. ASSUME NEW t \in Timers
          PROVE  WaitOf(sched', pc', time', vt_func', rdymsg', t)
      <4>1. pc[t] = "loop" => t = me
        BY <1>1 DEF WaitOf, me
      <4>2. t = me => pc[t] = "run"
        BY <1>1, <2>1, WaitAssumption DEF Locked
      <4>3. pc[t] # "loop"
        BY <4>1, <4>2
      <4>4. Stop(sched', t) = Stop(sched, t) /\ WaitOf(sched, pc, time, vt_func, rdymsg, t)
        BY <1>1
      <4> QED
        BY <1>2, <4>3, <4>4 DEF WaitOf
    <3> QED
      BY <2>1, <3>1 DEF Waits
  <2>2. CASE isr' = isr /\ sched' = sched
    BY <1>1, <1>2, <2>2 DEF Waits, Locked, me
  <2> QED
    BY <2>1, <2>2
<1>9. Fifo(Threads, q_waiting', Readers(sched'))
  BY <1>1, <1>2, <1>5
<1>10. Verdicts
  BY <1>2 DEF Verdicts
<1> QED
  BY <1>3, <1>4, <1>7, <1>8, <1>9, <1>10 DEF Keeps, WaitInv

LEMMA EpilogueStep ==
    ASSUME WaitInv, Epilogue
    PROVE  Keeps
<1>1. /\ isr /\ isr' = FALSE /\ sched' = IrqEpilogue(sched)
      /\ UNCHANGED <<timerVars, count, q_waiting, pc, time, rdymsg>>
  BY DEF Epilogue
<1> DEFINE k == sched
           n == IrqEpilogue(k)
<1>2. SchedInv(k)
  BY WaitFacts
<1>3. SchedInv(n) /\ \A u \in Threads : Stop(n, u) = Stop(k, u)
  BY <1>2, EpilogueKeeps
<1>4. SchedInv(sched') /\ \A u \in Threads : Stop(sched', u) = Stop(sched, u)
  BY <1>1, <1>3
<1> QED
  BY <1>1, <1>4, OtherStep

LEMMA Stutter ==
    ASSUME WaitInv, UNCHANGED vars
    PROVE  Keeps
<1>1. /\ sched' = sched /\ isr' = isr
      /\ UNCHANGED <<timerVars, count, q_waiting, pc, time, rdymsg>>
  BY DEF vars, timerVars
<1>2. SchedInv(sched') /\ \A u \in Threads : Stop(sched', u) = Stop(sched, u)
  BY <1>1, WaitFacts
<1> QED
  BY <1>1, <1>2, OtherStep

LEMMA WaitsStep ==
    ASSUME WaitInv, [Next]_vars
    PROVE  Keeps
<1>1. ASSUME NEW n \in Timeouts, Sleep(n) \/ Get(n)
      PROVE  Keeps
  BY <1>1, SleepStep, GetAnyStep
<1> QED
  BY <1>1, GetAgainStep, ResumeStep, PutStep, TickStep, EpilogueStep, Stutter DEF Next

LEMMA WaitsStart ==
    ASSUME Init
    PROVE  WaitInv /\ Service!Init
<1>1. /\ vtlist = <<>> /\ vt_func = [t \in Timers |-> FALSE] /\ fired = {}
      /\ isr = FALSE /\ count = 0 /\ q_waiting = <<>>
      /\ pc = [t \in Timers |-> "run"]
      /\ time = [t \in Timers |-> TIME_INFINITE]
      /\ rdymsg = [t \in Timers |-> "OK"]
  BY DEF Init, TimersInit
<1>2. PICK order \in SetToSeqs(Threads) : Ordered(order, Prio) /\ sched = Started(order, Prio)
  BY DEF Init
<1>3. SchedInv(sched) /\ \A t \in Threads : Stop(sched, t) = "runs"
  BY <1>2, StartedKeeps, WaitAssumption
<1>4. TimerInv /\ Service!Init
  BY TimersStart DEF Init
<1>5. WaitTypes
  <2>1. TIME_INFINITE \in Delays /\ 0 \in 0..Capacity
    BY TimeModAssumption, WaitAssumption DEF TIME_INFINITE, Delays
  <2> QED
    BY <1>1, <2>1 DEF WaitTypes, Places, Messages
<1>6. Fifo(Threads, q_waiting, Readers(sched))
  <2>1. Readers(sched) = {}
    BY <1>3 DEF Readers
  <2>2. ToSet(q_waiting) = {} /\ IsInjective(q_waiting) /\ q_waiting \in Seq(Threads)
    BY <1>1 DEF ToSet, IsInjective
  <2> QED
    BY <2>1, <2>2 DEF Fifo
<1>7. Waits
  <2>1. ASSUME NEW t \in Timers
        PROVE  WaitOf(sched, pc, time, vt_func, rdymsg, t)
    <3>1. Stop(sched, t) = "runs" /\ pc[t] = "run" /\ ~vt_func[t]
      BY <1>1, <1>3, WaitAssumption
    <3> QED
      BY <3>1 DEF WaitOf
  <2> QED
    BY <1>1, <2>1 DEF Waits
<1>8. BytesKept(sched, q_waiting, count, pc, rdymsg)
  BY <1>1 DEF BytesKept
<1> QED
  BY <1>3, <1>4, <1>5, <1>6, <1>7, <1>8 DEF WaitInv

----------------------------------------------------------------------------
(* The theorems                                                            *)

LEMMA WaitsHold == Spec => []WaitInv
<1>1. Init => WaitInv
  BY WaitsStart
<1>2. WaitInv /\ [Next]_vars => WaitInv'
  BY WaitsStep DEF Keeps
<1> QED
  BY <1>1, <1>2, PTL DEF Spec

LEMMA WayIs ==
    ASSUME WaitInv
    PROVE  OnTheWay = Way(sched, pc, rdymsg)
<1>1. /\ ToSet(q_waiting) = Readers(sched)
      /\ \A t \in Timers : t \in Threads /\ WaitOf(sched, pc, time, vt_func, rdymsg, t)
  BY WaitFacts DEF Fifo
<1>2. ASSUME NEW t \in Timers
      PROVE  Stop(sched, t) = "runs" <=> t \notin ToSet(q_waiting) /\ sched.p_state[t] # "SLEEPING"
  <2>1. t \in ToSet(q_waiting) <=> Stop(sched, t) = "WTQUEUE"
    BY <1>1 DEF Readers
  <2>2. sched.p_state[t] = "SLEEPING" <=> Stop(sched, t) = "SLEEPING"
    BY DEF Stop, Stopped
  <2>3. Stop(sched, t) \in {"runs", "SLEEPING", "WTQUEUE"}
    BY <1>1 DEF WaitOf
  <2> QED
    BY <2>1, <2>2, <2>3
<1> QED
  BY <1>2 DEF OnTheWay, Way

\* The kernel's timers keep what chVTSetI promises whoever uses them, as long
\* as no timer is armed twice: every timer fires at the tick it was armed for,
\* whatever the others do, and not after it has been reset.
THEOREM TimersAlone == TimersSpec => []ListWellFormed /\ ImplementsTimerService
<1>1. TimersInit => TimerInv /\ Service!Init
  BY TimersStart
<1>2. TimerInv /\ [TimersNext]_timerVars => TimerInv' /\ [Service!Next]_<<vt_systime, asked, remaining, fired>>
  <2> SUFFICES ASSUME TimerInv, [TimersNext]_timerVars
               PROVE  TimerInv' /\ [Service!Next]_<<vt_systime, asked, remaining, fired>>
    OBVIOUS
  <2>1. CASE UNCHANGED timerVars
    BY <2>1, RemainingIs DEF timerVars, TimerInv
  <2> QED
    BY <2>1, SetKeeps, ResetKeeps, TicksKeep DEF TimersNext
<1>3. TimerInv => ListWellFormed
  BY WellFormed
<1> QED
  BY <1>1, <1>2, <1>3, PTL DEF TimersSpec, ImplementsTimerService, Service!Spec

\* Whatever is armed, reset or fires, and however long the loop of a tick, the
\* delta list holds the armed timers, each once, its head is not due and no
\* sum of deltas has wrapped around (chVTSetI, chVTResetI, chVTDoTickI).
THEOREM TimersWellFormed == Spec => []ListWellFormed
<1>1. WaitInv => ListWellFormed
  BY WellFormed DEF WaitInv
<1> QED
  BY <1>1, WaitsHold, PTL

\* While readers wait, every byte in the queue has a reader of its own that
\* has been readied for it, for any number of readers and any capacity
\* (chIQPutI, chIQGetTimeout, wakeup).
THEOREM WakeupsKept == Spec => []NoLostWakeup
<1>1. WaitInv => NoLostWakeup
  <2> SUFFICES ASSUME WaitInv PROVE NoLostWakeup
    OBVIOUS
  <2> QED
    BY WayIs, WaitFacts DEF NoLostWakeup, BytesKept
<1> QED
  BY <1>1, WaitsHold, PTL

\* A timer is armed exactly while its thread is inside the wait with a limit
\* that it belongs to (chSchGoSleepTimeoutS and its callback wakeup).
THEOREM TimersMatch == Spec => []TimerMatchesWait
<1>1. WaitInv => TimerMatchesWait
  <2> SUFFICES ASSUME WaitInv, NEW t \in Timers
               PROVE  /\ vt_func[t] => pc[t] = "wait"
                      /\ sched.p_state[t] \in {"SLEEPING", "WTQUEUE"} =>
                            pc[t] = "wait" /\ (vt_func[t] <=> time[t] # TIME_INFINITE)
    BY DEF TimerMatchesWait
  <2>1. WaitOf(sched, pc, time, vt_func, rdymsg, t)
    BY WaitFacts
  <2>2. sched.p_state[t] \in {"SLEEPING", "WTQUEUE"} => Stop(sched, t) # "runs"
    BY DEF Stop, Stopped
  <2> QED
    BY <2>1, <2>2 DEF WaitOf
<1> QED
  BY <1>1, WaitsHold, PTL

\* Neither a byte that comes after the time is up nor a time that is up after
\* the byte came changes how the wait of a ready thread ended (chSchReadyI's
\* callers chIQPutI and wakeup).
THEOREM VerdictsStand == Spec => VerdictStands
<1>1. WaitInv /\ [Next]_vars => [Verdicts]_vars
  BY WaitsStep DEF Keeps
<1>2. Spec => [][Verdicts]_vars
  BY <1>1, WaitsHold, PTL DEF Spec
<1> QED
  BY <1>2 DEF VerdictStands, Verdicts

\* Under the scheduler, with its waits for bytes, the delta list keeps what
\* chVTSetI promises: every timer fires at the tick it was armed for, whatever
\* the others do, and not after it has been reset.
THEOREM TimersImplement == Spec => ImplementsTimerService
<1>1. Init => Service!Init
  BY WaitsStart
<1>2. WaitInv /\ [Next]_vars => [Service!Next]_<<vt_systime, asked, remaining, fired>>
  <2> SUFFICES ASSUME WaitInv, [Next]_vars
               PROVE  [Service!Next]_<<vt_systime, asked, remaining, fired>>
    OBVIOUS
  <2>1. TimerStep
    BY WaitsStep DEF Keeps
  <2>2. CASE UNCHANGED timerVars
    BY <2>2, RemainingIs DEF timerVars
  <2> QED
    BY <2>1, <2>2 DEF TimerStep
<1> QED
  BY <1>1, <1>2, WaitsHold, PTL DEF Spec, ImplementsTimerService, Service!Spec
=============================================================================
