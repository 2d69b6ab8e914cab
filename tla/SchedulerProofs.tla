--------------------------- MODULE SchedulerProofs -------------------------
(***************************************************************************)
(* The operators of the scheduler on every set of threads and priorities:  *)
(* the ready list holds the threads that are ready, each once and in       *)
(* order, one thread runs, and after a switch it is the best.  The lists   *)
(* and sequences that the kernel's other parts are made of behave alike.   *)
(***************************************************************************)
EXTENDS Scheduler, SequenceTheorems, FiniteSetTheorems, WellFoundedInduction, TLAPS

----------------------------------------------------------------------------
(* Least and greatest numbers, and sequences with an element more or less  *)

LEMMA LeastExists ==
    ASSUME NEW S, S \subseteq Nat, S # {}
    PROVE  \E x \in S : \A y \in S : x <= y
<1>1. \E x \in S : \A y \in S : ~ (<<y, x>> \in OpToRel(<, Nat))
  BY NatLessThanWellFounded, WFMin
<1>2. PICK x \in S : \A y \in S : ~ (<<y, x>> \in OpToRel(<, Nat))
  BY <1>1
<1>3. \A y \in S : ~(y < x)
  BY <1>2 DEF OpToRel
<1> QED
  BY <1>3

\* Induction up to N, over a set.
LEMMA UpTo ==
    ASSUME NEW N \in Nat, NEW S, 0 \in S, \A n \in 0..(N - 1) : n \in S => n + 1 \in S
    PROVE  0..N \subseteq S
<1> DEFINE C == {n \in 0..N : n \notin S}
<1>1. ASSUME C # {}
      PROVE  FALSE
  <2>1. C \subseteq Nat
    OBVIOUS
  <2>2. PICK n \in C : \A k \in C : n <= k
    <3> HIDE DEF C
    <3> QED
      BY <1>1, <2>1, LeastExists
  <2>3. n \in Nat /\ n # 0 /\ n <= N
    BY <2>2
  <2>4. n - 1 \in 0..(N - 1) /\ n - 1 \notin C
    BY <2>2, <2>3
  <2> QED
    BY <2>2, <2>3, <2>4
<1> QED
  BY <1>1

LEMMA MinIsLeast ==
    ASSUME NEW S, S \subseteq Nat, S # {}
    PROVE  Min(S) \in S /\ \A y \in S : Min(S) <= y
BY LeastExists DEF Min

LEMMA GreatestExists ==
    ASSUME NEW S, NEW m \in Nat, S \subseteq 0..m, S # {}
    PROVE  \E x \in S : \A y \in S : x >= y
<1> DEFINE U == {n \in Nat : \A y \in S : y <= n}
<1>1. m \in U /\ U \subseteq Nat /\ U # {}
  OBVIOUS
<1>2. PICK n \in U : \A k \in U : n <= k
  BY <1>1, LeastExists
<1>3. CASE n \in S
  BY <1>3
<1>4. CASE n \notin S
  <2>1. PICK y \in S : TRUE
    OBVIOUS
  <2>2a. y \in 0..m /\ y <= n /\ y # n
    BY <1>4, <1>2
  <2>3a. n # 0
    BY <2>2a
  <2>2. n - 1 \in U
    BY <2>3a, <1>4, <1>2
  <2> QED
    BY <2>2, <1>2
<1> QED
  BY <1>3, <1>4

LEMMA MaxIsGreatest ==
    ASSUME NEW S, NEW m \in Nat, S \subseteq 0..m, S # {}
    PROVE  Max(S) \in S /\ \A y \in S : Max(S) >= y
BY GreatestExists DEF Max

\* Where PrioInsert puts a thread.
PrioPlace(q, t, prio, p) ==
    /\ p \in 1..(Len(q) + 1)
    /\ \A i \in 1..(p - 1) : prio[q[i]] >= prio[t]
    /\ p <= Len(q) => prio[q[p]] < prio[t]

LEMMA InsertPlace ==
    ASSUME NEW T, NEW q \in Seq(T), NEW prio \in [T -> Nat], NEW t \in T
    PROVE  \E p : PrioPlace(q, t, prio, p) /\
                  PrioInsert(q, t, prio) = IF p = Len(q) + 1 THEN Append(q, t) ELSE InsertAt(q, p, t)
<1> DEFINE I == {i \in 1..Len(q) : prio[q[i]] < prio[t]}
           s == IF I # {} THEN Min(I) ELSE 0
<1>1. PrioInsert(q, t, prio) = IF s = 0 THEN Append(q, t) ELSE InsertAt(q, s, t)
  BY DEF SelectInSeq, PrioInsert
<1>2. Len(q) \in Nat /\ \A i \in 1..Len(q) : q[i] \in T /\ prio[q[i]] \in Nat
  OBVIOUS
<1>3. CASE I = {}
  <2>1. PrioPlace(q, t, prio, Len(q) + 1)
    BY <1>2, <1>3 DEF PrioPlace
  <2> QED
    BY <2>1, <1>1, <1>2, <1>3
<1>4. CASE I # {}
  <2>1. I \subseteq Nat /\ s = Min(I)
    BY <1>2, <1>4
  <2>2. s \in I /\ \A i \in I : s <= i
    <3> HIDE DEF I, s
    <3> QED
      BY <2>1, <1>4, MinIsLeast
  <2>3. s \in 1..Len(q) /\ prio[q[s]] < prio[t]
    BY <2>2
  <2>4. ASSUME NEW i \in 1..(s - 1)
        PROVE  prio[q[i]] >= prio[t]
    <3>1. i \in 1..Len(q) /\ ~(s <= i)
      <4> HIDE DEF s
      <4> QED
        BY <2>3, <1>2
    <3>2. i \notin I
      BY <3>1, <2>2
    <3> QED
      BY <3>1, <3>2, <1>2
  <2>5. PrioPlace(q, t, prio, s)
    <3> HIDE DEF s, I
    <3> QED
      BY <2>3, <2>4, <1>2 DEF PrioPlace
  <2>6. PrioInsert(q, t, prio) = InsertAt(q, s, t) /\ s # Len(q) + 1
    <3> HIDE DEF s, I
    <3> QED
      BY <2>3, <1>1, <1>2
  <2> HIDE DEF s, I
  <2> QED
    BY <2>5, <2>6
<1> QED
  BY <1>3, <1>4

\* r is a, then t, then b.
Junction(a, t, b, r) ==
    /\ Len(r) = Len(a) + 1 + Len(b) /\ r[Len(a) + 1] = t
    /\ \A i \in 1..Len(a) : r[i] = a[i]
    /\ \A i \in (Len(a) + 2)..(Len(a) + 1 + Len(b)) : r[i] = b[i - (Len(a) + 1)]

LEMMA Joined ==
    ASSUME NEW T, NEW a \in Seq(T), NEW b \in Seq(T), NEW t \in T
    PROVE  (a \o <<t>>) \o b \in Seq(T) /\ Junction(a, t, b, (a \o <<t>>) \o b)
<1> DEFINE c == a \o <<t>>
<1>1. <<t>> \in Seq(T) /\ Len(<<t>>) = 1 /\ <<t>>[1] = t
  OBVIOUS
<1>2. /\ c \in Seq(T) /\ Len(c) = Len(a) + 1
      /\ \A i \in 1..(Len(a) + 1) : c[i] = IF i <= Len(a) THEN a[i] ELSE t
  BY <1>1, ConcatProperties
<1> HIDE DEF c
<1>3. /\ c \o b \in Seq(T) /\ Len(c \o b) = Len(c) + Len(b)
      /\ \A i \in 1..(Len(c) + Len(b)) : (c \o b)[i] = IF i <= Len(c) THEN c[i] ELSE b[i - Len(c)]
  BY <1>2, ConcatProperties
<1>4. Len(a) \in Nat /\ Len(b) \in Nat
  OBVIOUS
<1> DEFINE r == c \o b
<1>5. /\ r \in Seq(T) /\ Len(r) = Len(a) + 1 + Len(b)
      /\ \A i \in 1..(Len(a) + 1 + Len(b)) :
            r[i] = IF i <= Len(a) + 1 THEN c[i] ELSE b[i - (Len(a) + 1)]
  BY <1>2, <1>3, <1>4
<1> HIDE DEF r
<1> QED
  <2>1. Junction(a, t, b, r)
    BY <1>2, <1>4, <1>5 DEF Junction
  <2> QED
    BY <2>1, <1>5 DEF r, c

\* Sequence with t at place p.
LEMMA InsertedAt ==
    ASSUME NEW T, NEW q \in Seq(T), NEW t \in T, NEW p \in 1..(Len(q) + 1)
    PROVE  LET r == IF p = Len(q) + 1 THEN Append(q, t) ELSE InsertAt(q, p, t)
           IN  /\ r \in Seq(T)
               /\ Len(r) = Len(q) + 1
               /\ r[p] = t
               /\ \A i \in 1..(p - 1) : r[i] = q[i]
               /\ \A i \in (p + 1)..(Len(q) + 1) : r[i] = q[i - 1]
<1>1. CASE p = Len(q) + 1
  BY <1>1
<1>2. CASE p # Len(q) + 1
  <2>1. p \in 1..Len(q) /\ InsertAt(q, p, t) = SubSeq(q, 1, p - 1) \o <<t>> \o SubSeq(q, p, Len(q))
    BY <1>2 DEF InsertAt
  <2>2. /\ SubSeq(q, 1, p - 1) \in Seq(T) /\ Len(SubSeq(q, 1, p - 1)) = p - 1
        /\ \A i \in 1..(p - 1) : SubSeq(q, 1, p - 1)[i] = q[i]
    BY <2>1
  <2>3. /\ SubSeq(q, p, Len(q)) \in Seq(T) /\ Len(SubSeq(q, p, Len(q))) = Len(q) - p + 1
        /\ \A i \in 1..(Len(q) - p + 1) : SubSeq(q, p, Len(q))[i] = q[p + i - 1]
    BY <2>1
  <2> QED
    <3> DEFINE a == SubSeq(q, 1, p - 1)
               b == SubSeq(q, p, Len(q))
               r == (a \o <<t>>) \o b
    <3>0. a \in Seq(T) /\ b \in Seq(T) /\ Len(a) = p - 1 /\ Len(b) = Len(q) - p + 1
      BY <2>2, <2>3
    <3>1. /\ r \in Seq(T) /\ Len(r) = Len(a) + 1 + Len(b) /\ r[Len(a) + 1] = t
          /\ \A i \in 1..Len(a) : r[i] = a[i]
          /\ \A i \in (Len(a) + 2)..(Len(a) + 1 + Len(b)) : r[i] = b[i - (Len(a) + 1)]
      <4> HIDE DEF a, b
      <4>1. r \in Seq(T) /\ Junction(a, t, b, r)
        BY <3>0, Joined
      <4> QED
        BY <4>1 DEF Junction
    <3>2. /\ r \in Seq(T) /\ Len(r) = Len(q) + 1 /\ r[p] = t
          /\ \A i \in 1..(p - 1) : r[i] = a[i]
          /\ \A i \in (p + 1)..(Len(q) + 1) : r[i] = b[i - p]
      <4> HIDE DEF a, b, r
      <4>1. Len(q) \in Nat /\ Len(a) + 1 = p /\ Len(a) + 1 + Len(b) = Len(q) + 1
        BY <3>0
      <4>2. r \in Seq(T) /\ Len(r) = Len(q) + 1 /\ r[p] = t
        BY <3>1, <4>1
      <4>3. ASSUME NEW i \in 1..(p - 1)
            PROVE  r[i] = a[i]
        <5>1. i \in 1..Len(a)
          BY <3>0
        <5> QED
          BY <5>1, <3>1
      <4>4. ASSUME NEW i \in (p + 1)..(Len(q) + 1)
            PROVE  r[i] = b[i - p]
        <5>1. i \in (Len(a) + 2)..(Len(a) + 1 + Len(b)) /\ i - (Len(a) + 1) = i - p
          BY <3>0, <4>1
        <5> QED
          BY <5>1, <3>1
      <4> QED
        BY <4>2, <4>3, <4>4
    <3>4. \A i \in 1..(p - 1) : r[i] = q[i]
      BY <3>2, <2>1, <2>2
    <3>5. \A i \in (p + 1)..(Len(q) + 1) : r[i] = q[i - 1]
      <4> TAKE i \in (p + 1)..(Len(q) + 1)
      <4>1. i - p \in 1..(Len(q) - p + 1) /\ ~(i <= p) /\ i \in 1..(Len(q) + 1)
        BY <2>1
      <4>2. r[i] = b[i - p] /\ b[i - p] = q[p + (i - p) - 1]
        <5> HIDE DEF r
        <5> QED
          BY <4>1, <3>2, <2>3 DEF b
      <4> QED
        <5> HIDE DEF r
        <5> QED
          BY <4>2, <4>1, <2>1
    <3> HIDE DEF r, a, b
    <3>6. InsertAt(q, p, t) = r
      BY <2>1 DEF r, a, b
    <3> QED
      BY <1>2, <3>2, <3>4, <3>5, <3>6
<1> QED
  BY <1>1, <1>2

\* r is q with t put at place p.
Inserts(q, t, p, r) ==
    /\ Len(r) = Len(q) + 1
    /\ r[p] = t
    /\ \A i \in 1..(p - 1) : r[i] = q[i]
    /\ \A i \in (p + 1)..(Len(q) + 1) : r[i] = q[i - 1]

LEMMA InsertedMembers ==
    ASSUME NEW T, NEW q \in Seq(T), NEW r \in Seq(T), NEW t \in T, NEW p \in 1..(Len(q) + 1),
           Inserts(q, t, p, r)
    PROVE  ToSet(r) = ToSet(q) \cup {t}
<1>1. Len(q) \in Nat /\ DOMAIN q = 1..Len(q) /\ DOMAIN r = 1..(Len(q) + 1)
  BY DEF Inserts
<1>2. ASSUME NEW i \in 1..(Len(q) + 1)
      PROVE  r[i] \in ToSet(q) \cup {t}
  <2>1. CASE i < p
    <3>1. i \in 1..(p - 1) /\ i \in 1..Len(q)
      BY <2>1, <1>1
    <3> QED
      BY <3>1, <1>1 DEF Inserts, ToSet
  <2>2. CASE i = p
    BY <2>2 DEF Inserts
  <2>3. CASE i > p
    <3>1. i \in (p + 1)..(Len(q) + 1) /\ i - 1 \in 1..Len(q)
      BY <2>3, <1>1
    <3> QED
      BY <3>1, <1>1 DEF Inserts, ToSet
  <2> QED
    BY <2>1, <2>2, <2>3, <1>1
<1>3. ASSUME NEW i \in 1..Len(q)
      PROVE  q[i] \in ToSet(r)
  <2>1. CASE i < p
    <3>1. i \in 1..(p - 1) /\ i \in 1..(Len(q) + 1)
      BY <2>1, <1>1
    <3> QED
      BY <3>1, <1>1 DEF Inserts, ToSet
  <2>2. CASE i >= p
    <3>1. i + 1 \in (p + 1)..(Len(q) + 1) /\ i + 1 \in 1..(Len(q) + 1) /\ (i + 1) - 1 = i
      BY <2>2, <1>1
    <3>2. r[i + 1] = q[i]
      BY <3>1 DEF Inserts
    <3> QED
      BY <3>1, <3>2, <1>1 DEF ToSet
  <2> QED
    BY <2>1, <2>2, <1>1
<1>4. t \in ToSet(r)
  BY <1>1 DEF Inserts, ToSet
<1> QED
  BY <1>1, <1>2, <1>3, <1>4 DEF ToSet

\* Where element i of r comes from.
Before(p, i) == IF i < p THEN i ELSE i - 1

LEMMA InsertedFrom ==
    ASSUME NEW T, NEW q \in Seq(T), NEW t \in T, NEW p \in 1..(Len(q) + 1), NEW r,
           Inserts(q, t, p, r), NEW i \in 1..(Len(q) + 1), i # p
    PROVE  Before(p, i) \in 1..Len(q) /\ r[i] = q[Before(p, i)]
<1>1. Len(q) \in Nat
  OBVIOUS
<1>2. CASE i < p
  <2>1. i \in 1..(p - 1) /\ i \in 1..Len(q) /\ Before(p, i) = i
    BY <1>1, <1>2 DEF Before
  <2> QED
    BY <2>1 DEF Inserts
<1>3. CASE i > p
  <2>1. i \in (p + 1)..(Len(q) + 1) /\ i - 1 \in 1..Len(q) /\ Before(p, i) = i - 1
    BY <1>1, <1>3 DEF Before
  <2> QED
    BY <2>1 DEF Inserts
<1> QED
  BY <1>1, <1>2, <1>3

LEMMA InsertedInjective ==
    ASSUME NEW T, NEW q \in Seq(T), NEW r \in Seq(T), NEW t \in T, NEW p \in 1..(Len(q) + 1),
           Inserts(q, t, p, r), IsInjective(q), t \notin ToSet(q)
    PROVE  IsInjective(r)
<1>1. Len(q) \in Nat /\ DOMAIN q = 1..Len(q) /\ DOMAIN r = 1..(Len(q) + 1)
  BY DEF Inserts
<1>2. SUFFICES ASSUME NEW i \in 1..(Len(q) + 1), NEW j \in 1..(Len(q) + 1), r[i] = r[j]
               PROVE  i = j
  BY <1>1 DEF IsInjective
<1>3. r[p] = t
  BY DEF Inserts
<1>4. ASSUME NEW k \in 1..(Len(q) + 1), k # p
      PROVE  r[k] # t
  BY <1>1, <1>4, InsertedFrom DEF ToSet
<1>5. CASE i # p /\ j # p
  <2>1. /\ Before(p, i) \in 1..Len(q) /\ r[i] = q[Before(p, i)]
        /\ Before(p, j) \in 1..Len(q) /\ r[j] = q[Before(p, j)]
    BY <1>5, InsertedFrom
  <2>2. Before(p, i) = Before(p, j)
    BY <2>1, <1>1, <1>2 DEF IsInjective
  <2> QED
    BY <2>2, <1>1, <1>5 DEF Before
<1> QED
  BY <1>2, <1>3, <1>4, <1>5

LEMMA InsertedOrdered ==
    ASSUME NEW T, NEW q \in Seq(T), NEW r \in Seq(T), NEW t \in T, NEW prio \in [T -> Nat],
           NEW p \in 1..(Len(q) + 1), Inserts(q, t, p, r), PrioPlace(q, t, prio, p), Ordered(q, prio)
    PROVE  Ordered(r, prio)
<1>1. Len(q) \in Nat /\ DOMAIN q = 1..Len(q) /\ DOMAIN r = 1..(Len(q) + 1) /\ p \in 1..(Len(q) + 1)
  BY DEF Inserts, PrioPlace
<1>2. SUFFICES ASSUME NEW i \in 1..(Len(q) + 1), NEW j \in 1..(Len(q) + 1), i < j
               PROVE  prio[r[i]] >= prio[r[j]]
  BY <1>1 DEF Ordered
<1>3. r[p] = t
  BY DEF Inserts
<1>4. \A k \in 1..Len(q) : prio[q[k]] \in Nat
  OBVIOUS
<1>5. CASE i # p /\ j # p
  <2>1. /\ Before(p, i) \in 1..Len(q) /\ r[i] = q[Before(p, i)]
        /\ Before(p, j) \in 1..Len(q) /\ r[j] = q[Before(p, j)]
    BY <1>5, InsertedFrom
  <2>2. Before(p, i) < Before(p, j)
    BY <1>1, <1>2, <1>5 DEF Before
  <2> QED
    BY <2>1, <2>2, <1>1 DEF Ordered
<1>6. CASE j = p
  <2>1. i \in 1..(p - 1) /\ Before(p, i) = i
    BY <1>1, <1>2, <1>6 DEF Before
  <2>2. r[i] = q[i]
    BY <2>1 DEF Inserts
  <2> QED
    BY <2>1, <2>2, <1>3, <1>6 DEF PrioPlace
<1>7. CASE i = p
  <2>1. /\ Before(p, j) \in 1..Len(q) /\ r[j] = q[Before(p, j)]
    <3>1. p \in 1..(Len(q) + 1) /\ j # p
      BY <1>1, <1>2, <1>7
    <3> QED
      BY <3>1, InsertedFrom
  <2>2. p <= Before(p, j) /\ p \in 1..Len(q)
    BY <1>1, <1>2, <1>7 DEF Before
  <2>3. prio[q[p]] < prio[t]
    BY <2>2 DEF PrioPlace
  <2>4. prio[q[p]] >= prio[q[Before(p, j)]]
    <3>1. CASE p = Before(p, j)
      BY <3>1, <1>4, <2>2
    <3>2. CASE p < Before(p, j)
      BY <3>2, <2>1, <2>2, <1>1 DEF Ordered
    <3> QED
      BY <3>1, <3>2, <2>1, <2>2
  <2>5. prio[t] \in Nat /\ prio[q[p]] \in Nat /\ prio[q[Before(p, j)]] \in Nat
    BY <2>1, <2>2, <1>4
  <2>6. prio[t] >= prio[q[Before(p, j)]]
    BY <2>3, <2>4, <2>5
  <2>7. r[i] = t /\ r[j] = q[Before(p, j)]
    BY <2>1, <1>3, <1>7
  <2> QED
    BY <2>6, <2>7
<1> QED
  BY <1>5, <1>6, <1>7

\* r is q without the element at place p.
Removes(q, p, r) ==
    /\ Len(r) = Len(q) - 1
    /\ \A i \in 1..(p - 1) : r[i] = q[i]
    /\ \A i \in p..(Len(q) - 1) : r[i] = q[i + 1]

\* Where element i of r comes from.
After(p, i) == IF i < p THEN i ELSE i + 1

LEMMA RemovedFrom ==
    ASSUME NEW T, NEW q \in Seq(T), NEW p \in 1..Len(q), NEW r \in Seq(T), Removes(q, p, r)
    PROVE  /\ DOMAIN q = 1..Len(q) /\ DOMAIN r = 1..(Len(q) - 1) /\ Len(q) \in Nat
           /\ \A i \in 1..(Len(q) - 1) :
                 After(p, i) \in 1..Len(q) /\ After(p, i) # p /\ r[i] = q[After(p, i)]
<1>1. DOMAIN q = 1..Len(q) /\ DOMAIN r = 1..(Len(q) - 1) /\ Len(q) \in Nat
  BY DEF Removes
<1>2. ASSUME NEW i \in 1..(Len(q) - 1)
      PROVE  After(p, i) \in 1..Len(q) /\ After(p, i) # p /\ r[i] = q[After(p, i)]
  <2>1. CASE i < p
    <3>1. i \in 1..(p - 1) /\ i \in 1..Len(q) /\ After(p, i) = i /\ i # p
      BY <2>1, <1>1 DEF After
    <3> QED
      BY <3>1 DEF Removes
  <2>2. CASE i >= p
    <3>1. i \in p..(Len(q) - 1) /\ i + 1 \in 1..Len(q) /\ After(p, i) = i + 1 /\ i + 1 # p
      BY <2>2, <1>1 DEF After
    <3> QED
      BY <3>1 DEF Removes
  <2> QED
    BY <2>1, <2>2, <1>1
<1> QED
  BY <1>1, <1>2

LEMMA RemovedMembers ==
    ASSUME NEW T, NEW q \in Seq(T), NEW p \in 1..Len(q), NEW r \in Seq(T), Removes(q, p, r),
           IsInjective(q)
    PROVE  ToSet(r) = ToSet(q) \ {q[p]}
<1>1. /\ DOMAIN q = 1..Len(q) /\ DOMAIN r = 1..(Len(q) - 1) /\ Len(q) \in Nat
      /\ \A i \in 1..(Len(q) - 1) :
            After(p, i) \in 1..Len(q) /\ After(p, i) # p /\ r[i] = q[After(p, i)]
  BY RemovedFrom
<1>2. ASSUME NEW i \in 1..(Len(q) - 1)
      PROVE  r[i] \in ToSet(q) \ {q[p]}
  <2>1. After(p, i) \in 1..Len(q) /\ After(p, i) # p /\ r[i] = q[After(p, i)]
    BY <1>1
  <2>2. q[After(p, i)] # q[p]
    BY <2>1, <1>1 DEF IsInjective
  <2> QED
    BY <2>1, <2>2, <1>1 DEF ToSet
<1>3. ASSUME NEW j \in 1..Len(q), q[j] # q[p]
      PROVE  q[j] \in ToSet(r)
  <2> DEFINE i == IF j < p THEN j ELSE j - 1
  <2>1. i \in 1..(Len(q) - 1) /\ After(p, i) = j
    BY <1>1, <1>3 DEF After
  <2>2. r[i] = q[j]
    BY <2>1, <1>1
  <2> HIDE DEF i
  <2> QED
    BY <2>1, <2>2, <1>1 DEF ToSet
<1> QED
  BY <1>1, <1>2, <1>3 DEF ToSet

LEMMA RemovedInjective ==
    ASSUME NEW T, NEW q \in Seq(T), NEW p \in 1..Len(q), NEW r \in Seq(T), Removes(q, p, r),
           IsInjective(q)
    PROVE  IsInjective(r)
<1>1. /\ DOMAIN q = 1..Len(q) /\ DOMAIN r = 1..(Len(q) - 1) /\ Len(q) \in Nat
      /\ \A i \in 1..(Len(q) - 1) :
            After(p, i) \in 1..Len(q) /\ After(p, i) # p /\ r[i] = q[After(p, i)]
  BY RemovedFrom
<1>2. SUFFICES ASSUME NEW i \in 1..(Len(q) - 1), NEW j \in 1..(Len(q) - 1), r[i] = r[j]
               PROVE  i = j
  BY <1>1 DEF IsInjective
<1>3. After(p, i) = After(p, j)
  BY <1>1, <1>2 DEF IsInjective
<1> QED
  BY <1>1, <1>3 DEF After

LEMMA RemovedOrdered ==
    ASSUME NEW T, NEW q \in Seq(T), NEW p \in 1..Len(q), NEW r \in Seq(T), Removes(q, p, r),
           NEW prio, Ordered(q, prio)
    PROVE  Ordered(r, prio)
<1>1. /\ DOMAIN q = 1..Len(q) /\ DOMAIN r = 1..(Len(q) - 1) /\ Len(q) \in Nat
      /\ \A i \in 1..(Len(q) - 1) :
            After(p, i) \in 1..Len(q) /\ After(p, i) # p /\ r[i] = q[After(p, i)]
  BY RemovedFrom
<1>2. SUFFICES ASSUME NEW i \in 1..(Len(q) - 1), NEW j \in 1..(Len(q) - 1), i < j
               PROVE  prio[r[i]] >= prio[r[j]]
  BY <1>1 DEF Ordered
<1>3. After(p, i) < After(p, j)
  BY <1>1, <1>2 DEF After
<1> QED
  BY <1>1, <1>3 DEF Ordered

\* q holds the threads of S, each once, in the order of prio.
Queue(T, q, S, prio) ==
    q \in Seq(T) /\ IsInjective(q) /\ ToSet(q) = S /\ Ordered(q, prio)

LEMMA QueueInsert ==
    ASSUME NEW T, NEW q, NEW S, NEW prio \in [T -> Nat], NEW t \in T \ S, Queue(T, q, S, prio)
    PROVE  Queue(T, PrioInsert(q, t, prio), S \cup {t}, prio)
<1>1. q \in Seq(T) /\ IsInjective(q) /\ ToSet(q) = S /\ Ordered(q, prio) /\ t \in T
  BY DEF Queue
<1>2. PICK p : /\ PrioPlace(q, t, prio, p)
               /\ PrioInsert(q, t, prio) = IF p = Len(q) + 1 THEN Append(q, t) ELSE InsertAt(q, p, t)
  BY <1>1, InsertPlace
<1>3. p \in 1..(Len(q) + 1)
  BY <1>2 DEF PrioPlace
<1> DEFINE r == PrioInsert(q, t, prio)
<1>4. r \in Seq(T) /\ Inserts(q, t, p, r)
  BY <1>1, <1>2, <1>3, InsertedAt DEF Inserts
<1> HIDE DEF r
<1>5. ToSet(r) = S \cup {t}
  BY <1>1, <1>3, <1>4, InsertedMembers
<1>6. IsInjective(r)
  BY <1>1, <1>3, <1>4, InsertedInjective
<1>7. Ordered(r, prio)
  BY <1>1, <1>2, <1>3, <1>4, InsertedOrdered
<1> QED
  BY <1>4, <1>5, <1>6, <1>7 DEF Queue, r

LEMMA RemovedAt ==
    ASSUME NEW T, NEW q \in Seq(T), NEW p \in 1..Len(q)
    PROVE  RemoveAt(q, p) \in Seq(T) /\ Removes(q, p, RemoveAt(q, p))
<1> DEFINE a == SubSeq(q, 1, p - 1)
           b == SubSeq(q, p + 1, Len(q))
           r == a \o b
<1>1. /\ a \in Seq(T) /\ Len(a) = p - 1 /\ \A i \in 1..(p - 1) : a[i] = q[i]
  OBVIOUS
<1>2. /\ b \in Seq(T) /\ Len(b) = Len(q) - p /\ \A i \in 1..(Len(q) - p) : b[i] = q[p + i]
  OBVIOUS
<1>3. r = RemoveAt(q, p)
  BY DEF RemoveAt
<1>4. Len(q) \in Nat
  OBVIOUS
<1> HIDE DEF a, b
<1>5. /\ r \in Seq(T) /\ Len(r) = Len(a) + Len(b)
      /\ \A i \in 1..(Len(a) + Len(b)) : r[i] = IF i <= Len(a) THEN a[i] ELSE b[i - Len(a)]
  BY <1>1, <1>2, ConcatProperties
<1> HIDE DEF r
<1>6. ASSUME NEW i \in 1..(p - 1) PROVE r[i] = q[i]
  <2>1. i \in 1..(Len(a) + Len(b)) /\ i <= Len(a)
    BY <1>1, <1>2, <1>4
  <2>2. r[i] = a[i]
    BY <2>1, <1>5
  <2> QED
    BY <2>2, <1>1
<1>7. ASSUME NEW i \in p..(Len(q) - 1) PROVE r[i] = q[i + 1]
  <2>1. i \in 1..(Len(a) + Len(b)) /\ ~(i <= Len(a)) /\ i - (p - 1) \in 1..(Len(q) - p)
    BY <1>1, <1>2, <1>4
  <2>2. r[i] = b[i - (p - 1)]
    BY <2>1, <1>1, <1>5
  <2>3. b[i - (p - 1)] = q[p + (i - (p - 1))] /\ p + (i - (p - 1)) = i + 1
    BY <2>1, <1>2, <1>4
  <2> QED
    BY <2>2, <2>3
<1>8. Removes(q, p, r)
  BY <1>1, <1>2, <1>4, <1>5, <1>6, <1>7 DEF Removes
<1> QED
  BY <1>3, <1>5, <1>8

LEMMA QueueRemove ==
    ASSUME NEW T, NEW q, NEW S, NEW prio, NEW t \in S, Queue(T, q, S, prio)
    PROVE  Queue(T, RemoveFirst(q, t), S \ {t}, prio)
<1>1. q \in Seq(T) /\ IsInjective(q) /\ ToSet(q) = S /\ Ordered(q, prio)
  BY DEF Queue
<1>2. PICK p \in 1..Len(q) : q[p] = t
  BY <1>1 DEF ToSet
<1>3. \A i \in 1..Len(q) : q[i] = t <=> i = p
  BY <1>1, <1>2 DEF IsInjective
<1> DEFINE r == RemoveAt(q, p)
<1>4. RemoveFirst(q, t) = r
  <2> DEFINE I == {i \in 1..Len(q) : q[i] = t}
  <2>1. RemoveFirst(q, t) = RemoveAt(q, IF I # {} THEN Min(I) ELSE 0)
    BY <1>2 DEF RemoveFirst, SelectInSeq
  <2>2. I = {p}
    BY <1>2, <1>3
  <2>3. Min({p}) = p
    <3>1. {p} \subseteq Nat /\ {p} # {}
      OBVIOUS
    <3> QED
      BY <3>1, MinIsLeast
  <2> HIDE DEF I
  <2> QED
    BY <2>1, <2>2, <2>3
<1>5. r \in Seq(T) /\ Removes(q, p, r)
  BY <1>1, RemovedAt
<1> HIDE DEF r
<1>6. ToSet(r) = S \ {t}
  BY <1>1, <1>2, <1>5, RemovedMembers
<1>7. IsInjective(r)
  BY <1>1, <1>5, RemovedInjective
<1>8. Ordered(r, prio)
  BY <1>1, <1>5, RemovedOrdered
<1> QED
  BY <1>4, <1>5, <1>6, <1>7, <1>8 DEF Queue

LEMMA QueueTail ==
    ASSUME NEW T, NEW q, NEW S, NEW prio \in [T -> Nat], Queue(T, q, S, prio), q # <<>>
    PROVE  /\ Head(q) \in S
           /\ \A u \in S : prio[u] <= prio[Head(q)]
           /\ Queue(T, Tail(q), S \ {Head(q)}, prio)
<1>1. q \in Seq(T) /\ IsInjective(q) /\ ToSet(q) = S /\ Ordered(q, prio)
  BY DEF Queue
<1>2. Len(q) \in Nat \ {0} /\ Head(q) = q[1] /\ 1 \in 1..Len(q)
  BY <1>1, EmptySeq
<1>3. /\ Tail(q) \in Seq(T) /\ Len(Tail(q)) = Len(q) - 1
      /\ \A i \in 1..(Len(q) - 1) : Tail(q)[i] = q[i + 1]
  BY <1>1, HeadTailProperties
<1>4. Removes(q, 1, Tail(q))
  BY <1>2, <1>3 DEF Removes
<1>5. ToSet(Tail(q)) = S \ {Head(q)} /\ IsInjective(Tail(q)) /\ Ordered(Tail(q), prio)
  <2> DEFINE r == Tail(q)
  <2>1. r \in Seq(T) /\ Removes(q, 1, r)
    BY <1>3, <1>4
  <2> HIDE DEF r
  <2>2. ToSet(r) = ToSet(q) \ {q[1]}
    BY <1>1, <1>2, <2>1, RemovedMembers
  <2>3. IsInjective(r)
    BY <1>1, <1>2, <2>1, RemovedInjective
  <2>4. Ordered(r, prio)
    BY <1>1, <1>2, <2>1, RemovedOrdered
  <2> QED
    BY <2>2, <2>3, <2>4, <1>1, <1>2 DEF r
<1>6. Head(q) \in S
  BY <1>1, <1>2 DEF ToSet
<1>7. ASSUME NEW u \in S PROVE prio[u] <= prio[Head(q)]
  <2>1. PICK i \in 1..Len(q) : q[i] = u
    BY <1>1 DEF ToSet
  <2>2. prio[u] \in Nat /\ prio[q[1]] \in Nat
    BY <1>1, <1>2, <2>1
  <2>3. CASE i = 1
    BY <2>1, <2>2, <2>3, <1>2
  <2>4. CASE i > 1
    BY <2>1, <2>2, <2>4, <1>1, <1>2 DEF Ordered
  <2> QED
    BY <2>3, <2>4
<1> QED
  BY <1>3, <1>5, <1>6, <1>7 DEF Queue

LEMMA QueueSame ==
    ASSUME NEW T, NEW q, NEW S, NEW prio, NEW new, Queue(T, q, S, prio),
           \A u \in S : new[u] = prio[u]
    PROVE  Queue(T, q, S, new)
BY DEF Queue, Ordered, ToSet

LEMMA QueueEmpty ==
    ASSUME NEW T, NEW q, NEW S, NEW prio, Queue(T, q, S, prio)
    PROVE  q = <<>> <=> S = {}
<1>1. q \in Seq(T) /\ ToSet(q) = S
  BY DEF Queue
<1>2. CASE q = <<>>
  BY <1>1, <1>2 DEF ToSet
<1>3. CASE q # <<>>
  <2>1. 1 \in DOMAIN q
    BY <1>1, <1>3, EmptySeq
  <2> QED
    BY <1>1, <1>3, <2>1 DEF ToSet
<1> QED
  BY <1>2, <1>3

Stopped == {"WTMTX", "WTQUEUE", "SUSPENDED", "SLEEPING"}
Ready(k) == {t \in Threads : k.p_state[t] = "READY"}

States == Stopped \cup {"READY", "CURRENT"}

SchedType == [rlist : Seq(Threads), currp : Threads, r_preempt : 0..Quantum,
              p_prio : [Threads -> Nat], p_realprio : [Threads -> Nat],
              p_state : [Threads -> States]]

\* The tables of the scheduler are consistent.
SchedInv(k) ==
    /\ k \in SchedType
    /\ Queue(Threads, k.rlist, Ready(k), k.p_prio)
    /\ \A t \in Threads : k.p_state[t] = "CURRENT" <=> t = k.currp
    /\ k.p_state[Idle] \notin Stopped

\* What stops thread t, if anything does.
Stop(k, t) == IF k.p_state[t] \in Stopped THEN k.p_state[t] ELSE "runs"

SamePrio(k, n) == n.p_prio = k.p_prio /\ n.p_realprio = k.p_realprio

LEMMA SchedFields ==
    ASSUME NEW k \in SchedType
    PROVE  /\ k.rlist \in Seq(Threads) /\ k.currp \in Threads /\ k.r_preempt \in 0..Quantum
           /\ k.p_prio \in [Threads -> Nat] /\ k.p_realprio \in [Threads -> Nat]
           /\ k.p_state \in [Threads -> States]
BY DEF SchedType

Changed(k, l, c, r, s) == [k EXCEPT !.rlist = l, !.currp = c, !.r_preempt = r, !.p_state = s]

LEMMA ChangedFields ==
    ASSUME NEW k \in SchedType, NEW l \in Seq(Threads), NEW c \in Threads, NEW r \in 0..Quantum,
           NEW s \in [Threads -> States]
    PROVE  LET n == Changed(k, l, c, r, s)
           IN  /\ n \in SchedType
               /\ n.rlist = l /\ n.currp = c /\ n.p_state = s
               /\ SamePrio(k, n)
BY DEF SchedType, Changed, SamePrio

LEMMA ReadyIKeeps ==
    ASSUME NEW k, NEW t \in Threads, SchedInv(k), k.p_state[t] \in Stopped
    PROVE  LET n == ReadyI(k, t)
           IN  /\ SchedInv(n) /\ SamePrio(k, n) /\ n.currp = k.currp
               /\ Stop(n, t) = "runs"
               /\ \A u \in Threads \ {t} : Stop(n, u) = Stop(k, u)
               /\ Ready(n) = Ready(k) \cup {t}
<1>1. /\ k \in SchedType
      /\ Queue(Threads, k.rlist, Ready(k), k.p_prio)
      /\ \A u \in Threads : k.p_state[u] = "CURRENT" <=> u = k.currp
      /\ k.p_state[Idle] \notin Stopped
  BY DEF SchedInv
<1>2. t \notin Ready(k) /\ t # k.currp
  BY <1>1 DEF Ready, Stopped
<1> DEFINE l == PrioInsert(k.rlist, t, k.p_prio)
           s == [k.p_state EXCEPT ![t] = "READY"]
           n == Changed(k, l, k.currp, k.r_preempt, s)
<1>3. ReadyI(k, t) = n
  BY <1>1 DEF ReadyI, Changed, SchedType
<1>4. Queue(Threads, l, Ready(k) \cup {t}, k.p_prio)
  BY <1>1, <1>2, QueueInsert, SchedFields
<1>5. s \in [Threads -> States] /\ \A u \in Threads : s[u] = IF u = t THEN "READY" ELSE k.p_state[u]
  BY <1>1, SchedFields DEF States
<1>6. n \in SchedType /\ n.rlist = l /\ n.currp = k.currp /\ n.p_state = s /\ SamePrio(k, n)
  <2>1. l \in Seq(Threads)
    BY <1>4 DEF Queue
  <2> HIDE DEF l, s
  <2> QED
    BY <1>1, <1>5, <2>1, SchedFields, ChangedFields
<1> HIDE DEF n, l, s
<1>7. Ready(n) = Ready(k) \cup {t}
  BY <1>5, <1>6 DEF Ready
<1>8. SchedInv(n)
  <2>1. Queue(Threads, n.rlist, Ready(n), n.p_prio)
    BY <1>4, <1>6, <1>7 DEF SamePrio
  <2>2. \A u \in Threads : n.p_state[u] = "CURRENT" <=> u = n.currp
    BY <1>1, <1>2, <1>5, <1>6
  <2>3. n.p_state[Idle] \notin Stopped
    BY <1>1, <1>5, <1>6, ThreadsAssumption DEF Stopped
  <2> QED
    BY <1>6, <2>1, <2>2, <2>3 DEF SchedInv
<1>9. Stop(n, t) = "runs" /\ \A u \in Threads \ {t} : Stop(n, u) = Stop(k, u)
  BY <1>5, <1>6 DEF Stop, Stopped
<1> QED
  BY <1>3, <1>6, <1>7, <1>8, <1>9

\* In terms of sets: no thread that is ready has a higher priority.
HighestReady(k) == \A u \in Ready(k) : k.p_prio[u] <= k.p_prio[k.currp]

LEMMA HighestIsReady ==
    ASSUME NEW k, SchedInv(k)
    PROVE  HighestRuns(k) <=> HighestReady(k)
BY DEF SchedInv, HighestRuns, HighestReady, Queue, ToSet

\* Thread h takes the processor and the running one goes into state s.
Moved(k, h, s) == [[k.p_state EXCEPT ![k.currp] = s] EXCEPT ![h] = "CURRENT"]
StillReady(k, h, s) == (Ready(k) \ {h}) \cup (IF s = "READY" THEN {k.currp} ELSE {})

TakesOver(k, n, h, s) ==
    /\ SchedInv(n) /\ SamePrio(k, n) /\ HighestReady(n)
    /\ Stop(n, h) = "runs"
    /\ Stop(n, k.currp) = IF s = "READY" THEN "runs" ELSE s
    /\ \A u \in Threads \ {h, k.currp} : Stop(n, u) = Stop(k, u)

LEMMA TakeOver ==
    ASSUME NEW k, NEW n, NEW h \in Threads \ {k.currp}, NEW l, NEW s \in Stopped \cup {"READY"},
           SchedInv(k), k.currp = Idle => s = "READY",
           n = Changed(k, l, h, Quantum, Moved(k, h, s)),
           Queue(Threads, l, StillReady(k, h, s), k.p_prio),
           \A u \in Ready(k) : k.p_prio[u] <= k.p_prio[h],
           s = "READY" => k.p_prio[k.currp] <= k.p_prio[h]
    PROVE  TakesOver(k, n, h, s)
<1>1. /\ k \in SchedType
      /\ \A u \in Threads : k.p_state[u] = "CURRENT" <=> u = k.currp
      /\ k.p_state[Idle] \notin Stopped
  BY DEF SchedInv
<1> DEFINE p == Moved(k, h, s)
<1>2. k.currp \in Threads /\ k.p_state \in [Threads -> States]
  BY <1>1, SchedFields
<1>3. /\ p \in [Threads -> States]
      /\ \A u \in Threads : p[u] = IF u = h THEN "CURRENT" ELSE IF u = k.currp THEN s ELSE k.p_state[u]
  BY <1>2 DEF States, Moved
<1>4. n \in SchedType /\ n.rlist = l /\ n.currp = h /\ n.p_state = p /\ SamePrio(k, n)
  <2>1. l \in Seq(Threads) /\ Quantum \in 0..Quantum
    BY QuantumAssumption DEF Queue
  <2> QED
    BY <1>1, <1>3, <2>1, ChangedFields
<1> HIDE DEF p
<1>5. s # "CURRENT" /\ (s = "READY" <=> s \notin Stopped)
  BY DEF Stopped
<1>6. Ready(n) = StillReady(k, h, s)
  BY <1>1, <1>2, <1>3, <1>4 DEF Ready, StillReady
<1>7. SchedInv(n)
  <2>1. Queue(Threads, n.rlist, Ready(n), n.p_prio)
    BY <1>4, <1>6 DEF SamePrio
  <2>2. \A u \in Threads : n.p_state[u] = "CURRENT" <=> u = n.currp
    BY <1>1, <1>2, <1>3, <1>4, <1>5
  <2>3. n.p_state[Idle] \notin Stopped
    BY <1>1, <1>3, <1>4, <1>5, ThreadsAssumption DEF Stopped
  <2> QED
    BY <1>4, <2>1, <2>2, <2>3 DEF SchedInv
<1>8. HighestReady(n)
  BY <1>4, <1>6 DEF HighestReady, SamePrio, StillReady
<1>9. /\ Stop(n, h) = "runs"
      /\ Stop(n, k.currp) = IF s = "READY" THEN "runs" ELSE s
      /\ \A u \in Threads \ {h, k.currp} : Stop(n, u) = Stop(k, u)
  BY <1>2, <1>3, <1>4, <1>5 DEF Stop, Stopped
<1> QED
  BY <1>4, <1>7, <1>8, <1>9 DEF TakesOver

LEMMA CurrentRuns ==
    ASSUME NEW k, SchedInv(k)
    PROVE  /\ k.currp \in Threads /\ k.currp \notin Ready(k) /\ Stop(k, k.currp) = "runs"
           /\ k.p_prio \in [Threads -> Nat] /\ k.p_prio[k.currp] \in Nat
           /\ \A u \in Ready(k) : u \in Threads /\ k.p_prio[u] \in Nat /\ Stop(k, u) = "runs"
           /\ Queue(Threads, k.rlist, Ready(k), k.p_prio)
           /\ k \in SchedType
<1>1. /\ k \in SchedType
      /\ Queue(Threads, k.rlist, Ready(k), k.p_prio)
      /\ \A u \in Threads : k.p_state[u] = "CURRENT" <=> u = k.currp
  BY DEF SchedInv
<1>2. k.currp \in Threads /\ k.p_prio \in [Threads -> Nat]
  BY <1>1, SchedFields
<1>3. k.p_state[k.currp] = "CURRENT"
  BY <1>1, <1>2
<1> QED
  BY <1>1, <1>2, <1>3 DEF Ready, Stop, Stopped

LEMMA GoSleepKeeps ==
    ASSUME NEW k, NEW s \in Stopped, SchedInv(k), k.currp # Idle
    PROVE  LET n == GoSleepS(k, s)
           IN  /\ SchedInv(n) /\ SamePrio(k, n) /\ HighestReady(n)
               /\ Stop(n, k.currp) = s
               /\ \A u \in Threads \ {k.currp} : Stop(n, u) = Stop(k, u)
<1> DEFINE h == Head(k.rlist)
<1>1. /\ k.currp \in Threads /\ k.currp \notin Ready(k)
      /\ k.p_prio \in [Threads -> Nat]
      /\ \A u \in Ready(k) : u \in Threads /\ Stop(k, u) = "runs"
      /\ Queue(Threads, k.rlist, Ready(k), k.p_prio)
      /\ k \in SchedType
  BY CurrentRuns
<1>2. k.rlist # <<>>
  <2>1. Idle \in Ready(k)
    BY ThreadsAssumption, SchedFields DEF SchedInv, Ready, States
  <2> QED
    BY <1>1, <2>1, QueueEmpty
<1>3. /\ h \in Ready(k) /\ \A u \in Ready(k) : k.p_prio[u] <= k.p_prio[h]
      /\ Queue(Threads, Tail(k.rlist), Ready(k) \ {h}, k.p_prio)
  BY <1>1, <1>2, QueueTail
<1>4. GoSleepS(k, s) = Changed(k, Tail(k.rlist), h, Quantum, Moved(k, h, s))
  BY <1>1 DEF GoSleepS, Switched, Changed, SchedType, Moved
<1> HIDE DEF h
<1>5. h \in Threads \ {k.currp} /\ s # "READY" /\ Stop(k, h) = "runs"
  BY <1>1, <1>3 DEF Stopped
<1>6. StillReady(k, h, s) = Ready(k) \ {h}
  BY <1>5 DEF StillReady
<1> DEFINE n == GoSleepS(k, s)
<1>7. TakesOver(k, n, h, s)
  <2>1. s \in Stopped \cup {"READY"}
    OBVIOUS
  <2> QED
    BY <1>3, <1>4, <1>5, <1>6, <2>1, TakeOver
<1> HIDE DEF n
<1> QED
  BY <1>5, <1>7 DEF n, TakesOver

LEMMA WakeupKeeps ==
    ASSUME NEW k, NEW t \in Threads, SchedInv(k), k.p_state[t] \in Stopped,
           \A u \in Ready(k) : k.p_prio[u] <= k.p_prio[k.currp] \/ k.p_prio[u] <= k.p_prio[t]
    PROVE  LET n == WakeupS(k, t)
           IN  /\ SchedInv(n) /\ SamePrio(k, n) /\ HighestReady(n)
               /\ Stop(n, t) = "runs"
               /\ \A u \in Threads \ {t} : Stop(n, u) = Stop(k, u)
<1> DEFINE n == WakeupS(k, t)
<1>1. /\ k.currp \in Threads /\ k.currp \notin Ready(k) /\ Stop(k, k.currp) = "runs"
      /\ k.p_prio \in [Threads -> Nat] /\ k.p_prio[k.currp] \in Nat /\ k.p_prio[t] \in Nat
      /\ \A u \in Ready(k) : u \in Threads /\ k.p_prio[u] \in Nat
      /\ Queue(Threads, k.rlist, Ready(k), k.p_prio)
      /\ k \in SchedType
  BY CurrentRuns
<1>2. CASE k.p_prio[t] <= k.p_prio[k.currp]
  <2>1. n = ReadyI(k, t)
    BY <1>2 DEF WakeupS
  <2>2. /\ SchedInv(n) /\ SamePrio(k, n) /\ n.currp = k.currp
        /\ Stop(n, t) = "runs"
        /\ \A u \in Threads \ {t} : Stop(n, u) = Stop(k, u)
        /\ Ready(n) = Ready(k) \cup {t}
    BY <2>1, ReadyIKeeps
  <2> HIDE DEF n
  <2>3. HighestReady(n)
    BY <1>1, <1>2, <2>2 DEF HighestReady, SamePrio
  <2> QED
    BY <2>2, <2>3 DEF n
<1>3. CASE ~(k.p_prio[t] <= k.p_prio[k.currp])
  <2>1. t \in Threads \ {k.currp} /\ t \notin Ready(k)
    BY <1>1, <1>3 DEF Ready, Stopped
  <2> DEFINE l == PrioInsert(k.rlist, k.currp, k.p_prio)
  <2>2. n = Changed(k, l, t, Quantum, Moved(k, t, "READY"))
    BY <1>1, <1>3 DEF WakeupS, ReadyI, Changed, SchedType, Moved
  <2> HIDE DEF n
  <2>3. Queue(Threads, l, Ready(k) \cup {k.currp}, k.p_prio)
    BY <1>1, QueueInsert
  <2>4. StillReady(k, t, "READY") = Ready(k) \cup {k.currp}
    BY <2>1 DEF StillReady
  <2> HIDE DEF l
  <2>5. /\ \A u \in Ready(k) : k.p_prio[u] <= k.p_prio[t]
        /\ k.p_prio[k.currp] <= k.p_prio[t]
    BY <1>1, <1>3
  <2>6. TakesOver(k, n, t, "READY")
    BY <2>1, <2>2, <2>3, <2>4, <2>5, TakeOver
  <2> QED
    BY <1>1, <2>6 DEF n, TakesOver
<1> QED
  BY <1>2, <1>3

LEMMA EpilogueKeeps ==
    ASSUME NEW k, SchedInv(k)
    PROVE  LET n == IrqEpilogue(k)
           IN  /\ SchedInv(n) /\ SamePrio(k, n) /\ HighestReady(n)
               /\ \A u \in Threads : Stop(n, u) = Stop(k, u)
<1> DEFINE n == IrqEpilogue(k)
           h == Head(k.rlist)
<1>1. /\ k.currp \in Threads /\ k.currp \notin Ready(k) /\ Stop(k, k.currp) = "runs"
      /\ k.p_prio \in [Threads -> Nat] /\ k.p_prio[k.currp] \in Nat
      /\ \A u \in Ready(k) : u \in Threads /\ k.p_prio[u] \in Nat /\ Stop(k, u) = "runs"
      /\ Queue(Threads, k.rlist, Ready(k), k.p_prio)
      /\ k \in SchedType
  BY CurrentRuns
<1>2. CASE k.rlist = <<>>
  <2>1. n = k
    BY <1>2 DEF IrqEpilogue, IsPreemptionRequired, AnyReady
  <2>2. Ready(k) = {}
    BY <1>1, <1>2, QueueEmpty
  <2> HIDE DEF n
  <2> QED
    BY <2>1, <2>2 DEF HighestReady, SamePrio, n
<1>3. CASE k.rlist # <<>>
  <2>1. /\ h \in Ready(k) /\ \A u \in Ready(k) : k.p_prio[u] <= k.p_prio[h]
        /\ Queue(Threads, Tail(k.rlist), Ready(k) \ {h}, k.p_prio)
    BY <1>1, <1>3, QueueTail
  <2>2. h \in Threads \ {k.currp}
    <3> HIDE DEF h
    <3> QED
      BY <1>1, <2>1
  <2>3. CASE ~IsPreemptionRequired(k)
    <3>1. n = k
      BY <2>3 DEF IrqEpilogue
    <3>2. k.p_prio[h] <= k.p_prio[k.currp]
      <4>1. k.r_preempt \in Nat
        BY <1>1, SchedFields, QuantumAssumption
      <4>2. k.p_prio[h] \in Nat
        <5> HIDE DEF h
        <5> QED
          BY <1>1, <2>2
      <4> QED
        BY <1>1, <1>3, <2>3, <4>1, <4>2 DEF IsPreemptionRequired, AnyReady, FirstPrio
    <3> HIDE DEF n, h
    <3> QED
      BY <1>1, <2>1, <3>1, <3>2 DEF HighestReady, SamePrio, n
  <2>4. CASE IsPreemptionRequired(k)
    <3>1. k.p_prio[k.currp] <= k.p_prio[h]
      <4>1. k.p_prio[h] \in Nat
        <5> HIDE DEF h
        <5> QED
          BY <1>1, <2>2
      <4> QED
        BY <1>1, <2>4, <4>1 DEF IsPreemptionRequired, FirstPrio
    <3> DEFINE l == PrioInsert(Tail(k.rlist), k.currp, k.p_prio)
    <3>2. n = Changed(k, l, h, Quantum, Moved(k, h, "READY"))
      <4>1. [[k.p_state EXCEPT ![h] = "CURRENT"] EXCEPT ![k.currp] = "READY"]
              = [[k.p_state EXCEPT ![k.currp] = "READY"] EXCEPT ![h] = "CURRENT"]
        <5> HIDE DEF h
        <5> QED
          BY <2>2
      <4>2. n = ReadyI(Switched(k), k.currp)
        BY <2>4 DEF IrqEpilogue, DoReschedule
      <4>3. Switched(k) = Changed(k, Tail(k.rlist), h, Quantum, [k.p_state EXCEPT ![h] = "CURRENT"])
        BY <1>1 DEF Switched, Changed, SchedType
      <4>4. ReadyI(Changed(k, Tail(k.rlist), h, Quantum, [k.p_state EXCEPT ![h] = "CURRENT"]), k.currp)
              = Changed(k, l, h, Quantum, [[k.p_state EXCEPT ![h] = "CURRENT"] EXCEPT ![k.currp] = "READY"])
        <5> HIDE DEF h
        <5> QED
          BY <1>1 DEF ReadyI, Changed, SchedType
      <4> QED
        BY <4>1, <4>2, <4>3, <4>4 DEF Moved
    <3> HIDE DEF n, h
    <3>3. Queue(Threads, l, StillReady(k, h, "READY"), k.p_prio)
      <4>1. Queue(Threads, l, (Ready(k) \ {h}) \cup {k.currp}, k.p_prio)
        BY <1>1, <2>1, QueueInsert
      <4> QED
        BY <4>1 DEF StillReady
    <3> HIDE DEF l
    <3>4. TakesOver(k, n, h, "READY")
      BY <2>1, <2>2, <3>1, <3>2, <3>3, TakeOver
    <3> QED
      BY <1>1, <2>1, <3>4 DEF n, TakesOver
  <2> QED
    BY <2>3, <2>4
<1> QED
  BY <1>2, <1>3

LEMMA TickKeeps ==
    ASSUME NEW k, SchedInv(k)
    PROVE  LET n == QuantumTick(k)
           IN  /\ SchedInv(n) /\ SamePrio(k, n) /\ \A u \in Threads : Stop(n, u) = Stop(k, u)
<1> DEFINE r == IF k.r_preempt > 0 THEN k.r_preempt - 1 ELSE 0
           n == Changed(k, k.rlist, k.currp, r, k.p_state)
<1>1. k \in SchedType
  BY DEF SchedInv
<1>2. QuantumTick(k) = n
  BY <1>1 DEF QuantumTick, Changed, SchedType
<1>3. r \in 0..Quantum
  BY <1>1, SchedFields, QuantumAssumption
<1>4. n \in SchedType /\ n.rlist = k.rlist /\ n.currp = k.currp /\ n.p_state = k.p_state /\ SamePrio(k, n)
  <2> HIDE DEF r
  <2> QED
    BY <1>1, <1>3, SchedFields, ChangedFields
<1> HIDE DEF n
<1>5. SchedInv(n) /\ \A u \in Threads : Stop(n, u) = Stop(k, u)
  BY <1>4 DEF SchedInv, Ready, Stop, SamePrio
<1> QED
  BY <1>2, <1>4, <1>5

LEMMA StartedQueue ==
    ASSUME NEW prio, NEW started \in SetToSeqs(Threads), Ordered(started, prio)
    PROVE  Queue(Threads, started, Threads, prio) /\ started # <<>>
<1> DEFINE N == Cardinality(Threads)
<1>1. N \in Nat /\ N # 0 /\ IsFiniteSet(Threads)
  BY ThreadsAssumption, FS_CardinalityType, FS_EmptySet
<1>2. started \in [1..N -> Threads] /\ \A i, j \in 1..N : i # j => started[i] # started[j]
  BY DEF SetToSeqs
<1> HIDE DEF N
<1>3. DOMAIN started = 1..N /\ IsInjective(started)
  BY <1>2 DEF IsInjective
<1>4. started \in Injection(1..N, Threads)
  BY <1>2, <1>3 DEF Injection
<1>5. Cardinality(1..N) = N
  BY <1>1, FS_Interval
<1>6. started \in Surjection(1..N, Threads)
  BY <1>1, <1>4, <1>5, FS_Injection DEF N
<1>7. \A t \in Threads : \E i \in 1..N : started[i] = t
  BY <1>6 DEF Surjection
<1>8. ToSet(started) = Threads
  BY <1>2, <1>3, <1>7 DEF ToSet
<1>9. started \in Seq(Threads) /\ started # <<>>
  <2>1. started \in Seq(Threads)
    BY <1>1, <1>2
  <2>2. 1 \in DOMAIN started
    BY <1>1, <1>3
  <2> QED
    BY <2>1, <2>2
<1> QED
  BY <1>3, <1>8, <1>9 DEF Queue

\* The threads as they are started make a scheduler.
LEMMA StartedKeeps ==
    ASSUME NEW prio \in [Threads -> Nat], NEW order \in SetToSeqs(Threads), Ordered(order, prio)
    PROVE  LET k == Started(order, prio)
           IN  /\ SchedInv(k) /\ HighestReady(k)
               /\ k.p_prio = prio /\ k.p_realprio = prio
               /\ \A t \in Threads : Stop(k, t) = "runs"
<1> DEFINE h == Head(order)
           l == Tail(order)
           k == Started(order, prio)
<1>1. /\ h \in Threads /\ \A u \in Threads : prio[u] <= prio[h]
      /\ Queue(Threads, l, Threads \ {h}, prio)
  BY StartedQueue, QueueTail
<1>2. l \in Seq(Threads)
  BY <1>1 DEF Queue
<1>3. k = [rlist |-> l, currp |-> h, r_preempt |-> Quantum, p_prio |-> prio, p_realprio |-> prio,
           p_state |-> [t \in Threads |-> IF t = h THEN "CURRENT" ELSE "READY"]]
  BY DEF Started
<1> HIDE DEF h, l, k
<1>4. /\ k \in SchedType /\ k.rlist = l /\ k.currp = h /\ k.p_prio = prio /\ k.p_realprio = prio
      /\ \A t \in Threads : k.p_state[t] = IF t = h THEN "CURRENT" ELSE "READY"
  BY <1>1, <1>2, <1>3, QuantumAssumption DEF SchedType, States
<1>5. Ready(k) = Threads \ {h} /\ \A t \in Threads : Stop(k, t) = "runs"
  BY <1>4 DEF Ready, Stop, Stopped
<1>6. SchedInv(k) /\ HighestReady(k)
  BY <1>1, <1>4, <1>5, ThreadsAssumption DEF SchedInv, HighestReady, Stopped
<1> QED
  BY <1>4, <1>5, <1>6 DEF k
=============================================================================
