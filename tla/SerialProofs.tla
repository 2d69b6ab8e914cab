---------------------------- MODULE SerialProofs ---------------------------
(***************************************************************************)
(* The serial driver, for every size of its queues and all bytes: the      *)
(* circular buffers are queues, queued output stays armed, nobody waits    *)
(* for what is there, and the driver with its buffers and registers        *)
(* implements Link.                                                        *)
(***************************************************************************)
EXTENDS Serial, FiniteSetTheorems, SequenceTheorems, TLAPS

----------------------------------------------------------------------------
(* The circular buffers: storing appends to the contents, taking removes   *)
(* the oldest byte, across the wrap-around.                                *)

\* A ring of n places that holds c bytes of the set B.
Places(n) == 0..(n - 1)
At(q, n, i) == IF q.rdptr + i < n THEN q.rdptr + i ELSE q.rdptr + i - n
Rings(n, B) ==
    [buffer : [Places(n) -> B \cup {Stale}], rdptr : Places(n), wrptr : Places(n), counter : Int]
Ring(q, n, c, B) ==
    /\ q \in Rings(n, B)
    /\ c \in 0..n
    /\ q.wrptr = At(q, n, c)
    /\ \A i \in 0..(c - 1) : q.buffer[At(q, n, i)] \in B

\* Wrapping once around.
LEMMA Wrap ==
    ASSUME NEW n \in Nat \ {0}, NEW a \in Nat, a < 2 * n
    PROVE  a % n = IF a < n THEN a ELSE a - n
OBVIOUS

\* The number of places is what the buffer was declared with.
LEMMA RingSize ==
    ASSUME NEW q, NEW n \in Nat \ {0}, NEW B, q.buffer \in [Places(n) -> B]
    PROVE  QSize(q) = n
<1>1. DOMAIN q.buffer = 0..(n - 1)
  BY DEF Places
<1>2. Cardinality(0..(n - 1)) = n
  BY FS_Interval
<1> QED BY <1>1, <1>2 DEF QSize

\* The contents, place by place.
Reads(q, n, c, B) ==
    /\ Held(q, c) \in Seq(B) /\ Len(Held(q, c)) = c
    /\ \A i \in 1..c : Held(q, c)[i] = q.buffer[At(q, n, i - 1)]

LEMMA HeldAt ==
    ASSUME NEW q, NEW n \in Nat \ {0}, NEW c, NEW B, Ring(q, n, c, B)
    PROVE  Reads(q, n, c, B)
<1>1. QSize(q) = n
  BY RingSize DEF Ring, Rings
<1>2. ASSUME NEW i \in 1..c
      PROVE  /\ (q.rdptr + i - 1) % QSize(q) = At(q, n, i - 1)
             /\ q.buffer[At(q, n, i - 1)] \in B
  <2>1. q.rdptr \in Int /\ q.rdptr + i - 1 \in Nat /\ q.rdptr + i - 1 < 2 * n /\ i - 1 \in 0..(c - 1)
    BY DEF Ring, Rings, Places
  <2>2. (q.rdptr + i - 1) % n = IF q.rdptr + i - 1 < n THEN q.rdptr + i - 1 ELSE q.rdptr + i - 1 - n
    <3>1. PICK a \in Nat : a = q.rdptr + i - 1 /\ a < 2 * n
      BY <2>1
    <3>2. a % n = IF a < n THEN a ELSE a - n
      BY <3>1, Wrap
    <3> QED BY <2>1, <3>1, <3>2
  <2>3. (q.rdptr + i - 1) % n = At(q, n, i - 1)
    BY <2>1, <2>2 DEF At, Ring, Places
  <2> QED BY <1>1, <2>1, <2>3 DEF Ring
<1>3. Held(q, c) = [i \in 1..c |-> q.buffer[At(q, n, i - 1)]]
  BY <1>2 DEF Held
<1>4. c \in Nat
  BY DEF Ring
<1>5. [i \in 1..c |-> q.buffer[At(q, n, i - 1)]] \in [1..c -> B]
  BY <1>2
<1> QED BY <1>3, <1>4, <1>5 DEF Reads

\* What storing and taking do to buffer and pointers.
IsStored(q, r, b) ==
    /\ r.buffer = [q.buffer EXCEPT ![q.wrptr] = b]
    /\ r.rdptr = q.rdptr /\ r.wrptr = Advanced(q, q.wrptr)
IsTaken(q, r) ==
    /\ r.buffer = [q.buffer EXCEPT ![q.rdptr] = Stale]
    /\ r.rdptr = Advanced(q, q.rdptr) /\ r.wrptr = q.wrptr

\* Ring r holds what q holds and then e.
Appended(q, r, n, c, B, e) ==
    /\ Ring(r, n, c + 1, B)
    /\ Held(r, c + 1) = Append(Held(q, c), e)

\* Storing a byte where there is room appends it.
LEMMA StoredAppends ==
    ASSUME NEW q, NEW n \in Nat \ {0}, NEW c, NEW B, Ring(q, n, c, B), c < n,
           NEW e \in B, NEW r \in Rings(n, B),
           IsStored(q, r, e)
    PROVE  Appended(q, r, n, c, B, e)
<1>0. /\ r.buffer = [q.buffer EXCEPT ![q.wrptr] = e]
      /\ r.rdptr = q.rdptr /\ r.wrptr = Advanced(q, q.wrptr)
  BY DEF IsStored
<1>1. QSize(q) = n
  BY RingSize DEF Ring, Rings
<1>2. q \in Rings(n, B)
  BY DEF Ring
<1>3. /\ c \in Nat /\ c < n /\ q.rdptr \in Nat /\ q.rdptr < n
      /\ q.wrptr = IF q.rdptr + c < n THEN q.rdptr + c ELSE q.rdptr + c - n
  BY DEF Ring, Rings, Places, At
<1>4. r.wrptr = At(r, n, c + 1) /\ r.wrptr \in Places(n)
  BY <1>0, <1>1, <1>3 DEF Advanced, At, Places
<1>5. \A i \in 0..(c - 1) : At(r, n, i) = At(q, n, i) /\ At(q, n, i) \in Places(n) /\ At(q, n, i) # q.wrptr
  BY <1>0, <1>2, <1>3 DEF At, Places
<1>6. At(r, n, c) = q.wrptr
  BY <1>0, <1>2, <1>3 DEF At
<1>7. /\ r.buffer \in [Places(n) -> B \cup {Stale}]
      /\ r.buffer[q.wrptr] = e
      /\ \A i \in 0..(c - 1) : r.buffer[At(r, n, i)] = q.buffer[At(q, n, i)]
  BY <1>0, <1>2, <1>5 DEF Ring, Rings
<1>8. \A i \in 0..c : r.buffer[At(r, n, i)] \in B
  <2> TAKE i \in 0..c
  <2>1. CASE i = c
    BY <2>1, <1>6, <1>7
  <2>2. CASE i # c
    <3>1. i \in 0..(c - 1)
      BY <2>2, <1>3
    <3> QED BY <3>1, <1>7 DEF Ring
  <2> QED BY <2>1, <2>2
<1>9. Ring(r, n, c + 1, B)
  <2>1. c + 1 \in 0..n /\ 0..(c + 1 - 1) = 0..c
    BY <1>3
  <2> QED BY <2>1, <1>2, <1>4, <1>7, <1>8 DEF Ring
<1>10. /\ Held(q, c) \in Seq(B) /\ Len(Held(q, c)) = c
       /\ \A i \in 1..c : Held(q, c)[i] = q.buffer[At(q, n, i - 1)]
  <2>1. Reads(q, n, c, B)
    BY HeldAt
  <2> QED BY <2>1 DEF Reads
<1>11. /\ Held(r, c + 1) \in Seq(B) /\ Len(Held(r, c + 1)) = c + 1
       /\ \A i \in 1..(c + 1) : Held(r, c + 1)[i] = r.buffer[At(r, n, i - 1)]
  <2>1. Reads(r, n, c + 1, B)
    BY <1>9, HeldAt
  <2> QED BY <2>1 DEF Reads
<1>12. /\ Append(Held(q, c), e) \in Seq(B)
       /\ Len(Append(Held(q, c), e)) = c + 1
       /\ \A i \in 1..c : Append(Held(q, c), e)[i] = Held(q, c)[i]
       /\ Append(Held(q, c), e)[c + 1] = e
  BY <1>10, AppendProperties
<1>13. ASSUME NEW i \in 1..(c + 1)
       PROVE  Held(r, c + 1)[i] = Append(Held(q, c), e)[i]
  <2>1. CASE i = c + 1
    <3>1. i - 1 = c
      BY <2>1, <1>3
    <3>2. Held(r, c + 1)[i] = r.buffer[At(r, n, c)]
      BY <3>1, <1>11
    <3> QED BY <2>1, <3>2, <1>6, <1>7, <1>12
  <2>2. CASE i # c + 1
    <3>1. i \in 1..c /\ i - 1 \in 0..(c - 1)
      BY <2>2, <1>3
    <3>2. Held(r, c + 1)[i] = q.buffer[At(q, n, i - 1)]
      BY <3>1, <1>7, <1>11
    <3> QED BY <3>1, <3>2, <1>10, <1>12
  <2> QED BY <2>1, <2>2
<1>14. Held(r, c + 1) = Append(Held(q, c), e)
  <2> HIDE DEF Held
  <2>1. \A i \in 1..Len(Held(r, c + 1)) : Held(r, c + 1)[i] = Append(Held(q, c), e)[i]
    BY <1>11, <1>13
  <2> QED BY <2>1, <1>11, <1>12, SeqEqual
<1> QED BY <1>9, <1>14 DEF Appended

\* Taking a byte removes the oldest.
LEMMA TakenIsHead ==
    ASSUME NEW q, NEW n \in Nat \ {0}, NEW c, NEW B, Ring(q, n, c, B), c > 0,
           NEW r \in Rings(n, B),
           IsTaken(q, r)
    PROVE  /\ Ring(r, n, c - 1, B)
           /\ Next1(q) \in B
           /\ Held(q, c) # <<>>
           /\ Next1(q) = Head(Held(q, c))
           /\ Held(r, c - 1) = Tail(Held(q, c))
<1>0. /\ r.buffer = [q.buffer EXCEPT ![q.rdptr] = Stale]
      /\ r.rdptr = Advanced(q, q.rdptr) /\ r.wrptr = q.wrptr
  BY DEF IsTaken
<1>1. QSize(q) = n
  BY RingSize DEF Ring, Rings
<1>2. q \in Rings(n, B)
  BY DEF Ring
<1>3. /\ c \in Nat /\ c > 0 /\ c <= n /\ q.rdptr \in Nat /\ q.rdptr < n
      /\ q.wrptr = IF q.rdptr + c < n THEN q.rdptr + c ELSE q.rdptr + c - n
  BY DEF Ring, Rings, Places, At
<1>4. r.rdptr = IF q.rdptr + 1 >= n THEN 0 ELSE q.rdptr + 1
  BY <1>0, <1>1, <1>2 DEF Advanced
<1>5. r.rdptr \in Places(n) /\ r.wrptr = At(r, n, c - 1)
  BY <1>0, <1>2, <1>3, <1>4 DEF At, Places
<1>6. \A i \in 0..(c - 2) : /\ At(r, n, i) = At(q, n, i + 1)
                            /\ At(q, n, i + 1) \in Places(n) /\ At(q, n, i + 1) # q.rdptr
  BY <1>0, <1>3, <1>4 DEF At, Places
<1>7. /\ r.buffer \in [Places(n) -> B \cup {Stale}]
      /\ \A i \in 0..(c - 2) : r.buffer[At(r, n, i)] = q.buffer[At(q, n, i + 1)]
  BY <1>0, <1>2, <1>6 DEF Ring, Rings
<1>8. Ring(r, n, c - 1, B)
  <2>1. c - 1 \in 0..n /\ 0..(c - 1 - 1) = 0..(c - 2)
    BY <1>3
  <2>2. \A i \in 0..(c - 2) : r.buffer[At(r, n, i)] \in B
    BY <1>0, <1>3, <1>7 DEF Ring
  <2> QED BY <2>1, <2>2, <1>2, <1>5, <1>7 DEF Ring
<1>9. /\ Held(q, c) \in Seq(B) /\ Len(Held(q, c)) = c
      /\ \A i \in 1..c : Held(q, c)[i] = q.buffer[At(q, n, i - 1)]
  <2>1. Reads(q, n, c, B)
    BY HeldAt
  <2> QED BY <2>1 DEF Reads
<1>10. /\ Held(r, c - 1) \in Seq(B) /\ Len(Held(r, c - 1)) = c - 1
       /\ \A i \in 1..(c - 1) : Held(r, c - 1)[i] = r.buffer[At(r, n, i - 1)]
  <2>1. Reads(r, n, c - 1, B)
    BY <1>8, HeldAt
  <2> QED BY <2>1 DEF Reads
<1>11. Held(q, c) # <<>> /\ Head(Held(q, c)) = Held(q, c)[1]
  BY <1>3, <1>9
<1>12. At(q, n, 0) = q.rdptr
  BY <1>3 DEF At
<1>13. Next1(q) = Head(Held(q, c)) /\ Next1(q) \in B
  <2>1. 1 \in 1..c /\ 0 \in 0..(c - 1)
    BY <1>3
  <2>2. Held(q, c)[1] = q.buffer[q.rdptr]
    BY <2>1, <1>9, <1>12
  <2>3. q.buffer[q.rdptr] \in B
    BY <2>1, <1>12 DEF Ring
  <2> QED BY <2>2, <2>3, <1>11 DEF Next1
<1>14. /\ Tail(Held(q, c)) \in Seq(B) /\ Len(Tail(Held(q, c))) = c - 1
       /\ \A i \in 1..(c - 1) : Tail(Held(q, c))[i] = Held(q, c)[i + 1]
  BY <1>9, <1>11, HeadTailProperties
<1>15. ASSUME NEW i \in 1..(c - 1)
       PROVE  Held(r, c - 1)[i] = Tail(Held(q, c))[i]
  <2>1. i - 1 \in 0..(c - 2) /\ i + 1 \in 1..c /\ i + 1 - 1 = i /\ i - 1 + 1 = i
    BY <1>3
  <2>2. Held(r, c - 1)[i] = q.buffer[At(q, n, i)]
    BY <2>1, <1>7, <1>10
  <2>3. Tail(Held(q, c))[i] = q.buffer[At(q, n, i)]
    BY <2>1, <1>9, <1>14
  <2> QED BY <2>2, <2>3
<1>16. Held(r, c - 1) = Tail(Held(q, c))
  <2>1. \A i \in 1..Len(Held(r, c - 1)) : Held(r, c - 1)[i] = Tail(Held(q, c))[i]
    BY <1>10, <1>15
  <2> QED BY <2>1, <1>10, <1>14, SeqEqual
<1> QED BY <1>8, <1>11, <1>13, <1>16

----------------------------------------------------------------------------
(* The queues                                                              *)

\* An input queue of n bytes, an output queue of n bytes.
InputQueue(q, n, B) == Ring(q, n, q.counter, B)
OutputQueue(q, n, B) == Ring(q, n, n - q.counter, B)

\* Pointers stay inside the buffer.
LEMMA AdvancedPlace ==
    ASSUME NEW q, NEW n \in Nat \ {0}, NEW c, NEW B, Ring(q, n, c, B), NEW p \in Places(n)
    PROVE  Advanced(q, p) \in Places(n)
<1>1. QSize(q) = n
  BY RingSize DEF Ring, Rings
<1> QED BY <1>1 DEF Advanced, Places

\* What storing and taking do to the fields.
LEMMA StoredFields ==
    ASSUME NEW q, NEW n \in Nat \ {0}, NEW c, NEW B, Ring(q, n, c, B), NEW b \in B, NEW k \in Int
    PROVE  LET r == [Stored(q, b) EXCEPT !.counter = k]
           IN  /\ r \in Rings(n, B) /\ r.counter = k
               /\ IsStored(q, r, b)
<1>1. q \in Rings(n, B) /\ Advanced(q, q.wrptr) \in Places(n)
  <2>1. q \in Rings(n, B) /\ q.wrptr \in Places(n)
    BY DEF Ring, Rings
  <2> QED BY <2>1, AdvancedPlace
<1> QED BY <1>1 DEF Stored, Rings, IsStored

LEMMA TakenFields ==
    ASSUME NEW q, NEW n \in Nat \ {0}, NEW c, NEW B, Ring(q, n, c, B), NEW k \in Int
    PROVE  LET r == [Taken(q) EXCEPT !.counter = k]
           IN  /\ r \in Rings(n, B) /\ r.counter = k
               /\ IsTaken(q, r)
<1>1. q \in Rings(n, B) /\ Advanced(q, q.rdptr) \in Places(n)
  <2>1. q \in Rings(n, B) /\ q.rdptr \in Places(n)
    BY DEF Ring, Rings
  <2> QED BY <2>1, AdvancedPlace
<1> QED BY <1>1 DEF Taken, Rings, IsTaken

\* The tests for full and empty tell what the pointers alone do not.
LEMMA Tests ==
    ASSUME NEW q, NEW n \in Nat \ {0}, NEW B
    PROVE  /\ InputQueue(q, n, B) =>
                 /\ q.counter \in 0..n
                 /\ IQIsEmpty(q) <=> q.counter = 0
                 /\ IQIsFull(q) <=> q.counter = n
           /\ OutputQueue(q, n, B) =>
                 /\ q.counter \in 0..n /\ n - q.counter \in 0..n
                 /\ OQIsEmpty(q) <=> q.counter = n
                 /\ OQIsFull(q) <=> q.counter = 0
<1>1. ASSUME InputQueue(q, n, B)
      PROVE  /\ q.counter \in 0..n
             /\ IQIsEmpty(q) <=> q.counter = 0
             /\ IQIsFull(q) <=> q.counter = n
  <2>1. /\ q.counter \in Nat /\ q.counter <= n /\ q.rdptr \in Nat /\ q.rdptr < n
        /\ q.wrptr = IF q.rdptr + q.counter < n THEN q.rdptr + q.counter
                     ELSE q.rdptr + q.counter - n
    BY <1>1 DEF InputQueue, Ring, Rings, Places, At
  <2>2. IQIsEmpty(q) <=> q.counter = 0
    BY <2>1 DEF IQIsEmpty
  <2>3. IQIsFull(q) <=> q.counter = n
    <3>1. q.wrptr = q.rdptr <=> q.counter = 0 \/ q.counter = n
      <4>1. PICK w, p, k \in Int : w = q.wrptr /\ p = q.rdptr /\ k = q.counter
        BY <2>1
      <4>2. w = p <=> k = 0 \/ k = n
        BY <2>1, <4>1
      <4> QED BY <4>1, <4>2
    <3> QED BY <3>1 DEF IQIsFull
  <2> QED BY <2>1, <2>2, <2>3
<1>2. ASSUME OutputQueue(q, n, B)
      PROVE  /\ q.counter \in 0..n /\ n - q.counter \in 0..n
             /\ OQIsEmpty(q) <=> q.counter = n
             /\ OQIsFull(q) <=> q.counter = 0
  <2>1. /\ q.counter \in Nat /\ q.counter <= n /\ n - q.counter \in 0..n
        /\ q.rdptr \in Nat /\ q.rdptr < n
        /\ q.wrptr = IF q.rdptr + (n - q.counter) < n THEN q.rdptr + (n - q.counter)
                     ELSE q.rdptr + (n - q.counter) - n
    BY <1>2 DEF OutputQueue, Ring, Rings, Places, At
  <2>2. OQIsEmpty(q) <=> q.counter = n
    <3>1. q.wrptr = q.rdptr <=> q.counter = 0 \/ q.counter = n
      <4>1. PICK w, p, k \in Int : w = q.wrptr /\ p = q.rdptr /\ k = q.counter
        BY <2>1
      <4>2. /\ k \in Nat /\ k <= n /\ p \in Nat /\ p < n
            /\ w = IF p + (n - k) < n THEN p + (n - k) ELSE p + (n - k) - n
        BY <2>1, <4>1
      <4>3. w = p <=> k = 0 \/ k = n
        BY <4>2
      <4> QED BY <4>1, <4>3
    <3> QED BY <3>1 DEF OQIsEmpty
  <2>3. OQIsFull(q) <=> q.counter = 0
    BY <2>1 DEF OQIsFull
  <2> QED BY <2>1, <2>2, <2>3
<1> QED BY <1>1, <1>2

\* What is put into an input queue that is not full comes last, what is got
\* from one that is not empty came first (chIQPutI, chIQGetTimeout).
THEOREM InputQueueIsFifo ==
    ASSUME NEW q, NEW n \in Nat \ {0}, NEW B, InputQueue(q, n, B)
    PROVE  /\ IQContents(q) \in Seq(B) /\ Len(IQContents(q)) = q.counter
           /\ ~IQIsFull(q) => \A b \in B :
                 /\ InputQueue(IQPut(q, b), n, B)
                 /\ IQContents(IQPut(q, b)) = Append(IQContents(q), b)
           /\ ~IQIsEmpty(q) =>
                 /\ InputQueue(IQGet(q), n, B)
                 /\ IQContents(q) # <<>> /\ Next1(q) \in B
                 /\ Next1(q) = Head(IQContents(q))
                 /\ IQContents(IQGet(q)) = Tail(IQContents(q))
<1> DEFINE c == q.counter
<1>1. Ring(q, n, c, B) /\ c \in 0..n
  BY Tests DEF InputQueue
<1>2. IQContents(q) \in Seq(B) /\ Len(IQContents(q)) = c
  <2>1. Reads(q, n, c, B)
    BY <1>1, HeldAt
  <2> QED BY <2>1 DEF Reads, IQContents
<1>3. ASSUME ~IQIsFull(q), NEW b \in B
      PROVE  /\ InputQueue(IQPut(q, b), n, B)
             /\ IQContents(IQPut(q, b)) = Append(IQContents(q), b)
  <2> DEFINE r == [Stored(q, b) EXCEPT !.counter = c + 1]
  <2>1. IQPut(q, b) = r
    BY DEF IQPut, Stored
  <2>2. c < n /\ c + 1 \in Int
    BY <1>1, <1>3, Tests
  <2>3. /\ r \in Rings(n, B) /\ r.counter = c + 1
        /\ IsStored(q, r, b)
    BY <1>1, <2>2, StoredFields
  <2> HIDE DEF r
  <2>4. Ring(r, n, c + 1, B) /\ Held(r, c + 1) = Append(Held(q, c), b)
    <3>1. r \in Rings(n, B) /\ IsStored(q, r, b)
      BY <2>3
    <3>2. Appended(q, r, n, c, B, b)
      BY <1>1, <2>2, <3>1, StoredAppends
    <3> QED BY <3>2 DEF Appended
  <2> QED BY <2>1, <2>3, <2>4 DEF InputQueue, IQContents
<1>4. ASSUME ~IQIsEmpty(q)
      PROVE  /\ InputQueue(IQGet(q), n, B)
             /\ IQContents(q) # <<>> /\ Next1(q) \in B
             /\ Next1(q) = Head(IQContents(q))
             /\ IQContents(IQGet(q)) = Tail(IQContents(q))
  <2> DEFINE r == [Taken(q) EXCEPT !.counter = c - 1]
  <2>1. IQGet(q) = r
    BY DEF IQGet, Taken
  <2>2. c > 0 /\ c - 1 \in Int
    BY <1>1, <1>4, Tests
  <2>3. /\ r \in Rings(n, B) /\ r.counter = c - 1
        /\ IsTaken(q, r)
    BY <1>1, <2>2, TakenFields
  <2> HIDE DEF r
  <2>4. /\ Ring(r, n, c - 1, B) /\ Next1(q) \in B /\ Held(q, c) # <<>>
        /\ Next1(q) = Head(Held(q, c)) /\ Held(r, c - 1) = Tail(Held(q, c))
    BY <1>1, <2>2, <2>3, TakenIsHead
  <2> QED BY <2>1, <2>3, <2>4 DEF InputQueue, IQContents
<1> QED BY <1>2, <1>3, <1>4

\* The same of an output queue, whose counter counts the free places
\* (chOQPutTimeout, chOQGetI).
THEOREM OutputQueueIsFifo ==
    ASSUME NEW q, NEW n \in Nat \ {0}, NEW B, OutputQueue(q, n, B)
    PROVE  /\ OQContents(q) \in Seq(B) /\ Len(OQContents(q)) = n - q.counter
           /\ ~OQIsFull(q) => \A b \in B :
                 /\ OutputQueue(OQPut(q, b), n, B)
                 /\ OQContents(OQPut(q, b)) = Append(OQContents(q), b)
           /\ ~OQIsEmpty(q) =>
                 /\ OutputQueue(OQGet(q), n, B)
                 /\ OQContents(q) # <<>> /\ Next1(q) \in B
                 /\ Next1(q) = Head(OQContents(q))
                 /\ OQContents(OQGet(q)) = Tail(OQContents(q))
<1> DEFINE k == q.counter
           c == n - k
<1>1. Ring(q, n, c, B) /\ c \in 0..n /\ k \in 0..n
  BY Tests DEF OutputQueue
<1>2. /\ OQContents(q) \in Seq(B) /\ Len(OQContents(q)) = c
      /\ OQContents(q) = Held(q, c)
  <2>1. Reads(q, n, c, B)
    BY <1>1, HeldAt
  <2>2. QSize(q) = n
    BY <1>1, RingSize DEF Ring, Rings
  <2> QED BY <2>1, <2>2 DEF Reads, OQContents
<1>3. ASSUME ~OQIsFull(q), NEW b \in B
      PROVE  /\ OutputQueue(OQPut(q, b), n, B)
             /\ OQContents(OQPut(q, b)) = Append(OQContents(q), b)
  <2> DEFINE r == [Stored(q, b) EXCEPT !.counter = k - 1]
  <2>1. OQPut(q, b) = r
    BY DEF OQPut, Stored
  <2>2. c < n /\ k - 1 \in Int /\ n - (k - 1) = c + 1
    BY <1>1, <1>3, Tests
  <2>3. /\ r \in Rings(n, B) /\ r.counter = k - 1
        /\ IsStored(q, r, b)
    BY <1>1, <2>2, StoredFields
  <2> HIDE DEF r, c
  <2>4. Ring(r, n, c + 1, B) /\ Held(r, c + 1) = Append(Held(q, c), b)
    <3>1. r \in Rings(n, B) /\ IsStored(q, r, b)
      BY <2>3
    <3>2. Appended(q, r, n, c, B, b)
      BY <1>1, <2>2, <3>1, StoredAppends
    <3> QED BY <3>2 DEF Appended
  <2>5. QSize(r) = n
    BY <2>3, RingSize DEF Rings
  <2>6. OutputQueue(r, n, B)
    BY <2>2, <2>3, <2>4 DEF OutputQueue
  <2>7. OQContents(r) = Held(r, c + 1)
    BY <2>2, <2>3, <2>5 DEF OQContents
  <2> QED BY <1>2, <2>1, <2>4, <2>6, <2>7
<1>4. ASSUME ~OQIsEmpty(q)
      PROVE  /\ OutputQueue(OQGet(q), n, B)
             /\ OQContents(q) # <<>> /\ Next1(q) \in B
             /\ Next1(q) = Head(OQContents(q))
             /\ OQContents(OQGet(q)) = Tail(OQContents(q))
  <2> DEFINE r == [Taken(q) EXCEPT !.counter = k + 1]
  <2>1. OQGet(q) = r
    BY DEF OQGet, Taken
  <2>2. c > 0 /\ k + 1 \in Int /\ n - (k + 1) = c - 1
    BY <1>1, <1>4, Tests
  <2>3. /\ r \in Rings(n, B) /\ r.counter = k + 1
        /\ IsTaken(q, r)
    BY <1>1, <2>2, TakenFields
  <2> HIDE DEF r, c
  <2>4. /\ Ring(r, n, c - 1, B) /\ Next1(q) \in B /\ Held(q, c) # <<>>
        /\ Next1(q) = Head(Held(q, c)) /\ Held(r, c - 1) = Tail(Held(q, c))
    BY <1>1, <2>2, <2>3, TakenIsHead
  <2>5. QSize(r) = n
    BY <2>3, RingSize DEF Rings
  <2>6. OutputQueue(r, n, B)
    BY <2>2, <2>3, <2>4 DEF OutputQueue
  <2>7. OQContents(r) = Held(r, c - 1)
    BY <2>2, <2>3, <2>5 DEF OQContents
  <2> QED BY <1>2, <2>1, <2>4, <2>6, <2>7
<1> QED BY <1>2, <1>3, <1>4

\* Initially both are empty.
LEMMA InitialQueues ==
    ASSUME NEW n \in Nat \ {0}, NEW B
    PROVE  /\ InputQueue(IQInit(n), n, B) /\ IQIsEmpty(IQInit(n)) /\ IQContents(IQInit(n)) = <<>>
           /\ OutputQueue(OQInit(n), n, B) /\ OQIsEmpty(OQInit(n)) /\ OQContents(OQInit(n)) = <<>>
<1>1. /\ IQInit(n) \in Rings(n, B) /\ IQInit(n).counter = 0
      /\ IQInit(n).rdptr = 0 /\ IQInit(n).wrptr = 0
  BY DEF IQInit, Empty, Rings, Places
<1>2. /\ OQInit(n) \in Rings(n, B) /\ OQInit(n).counter = n
      /\ OQInit(n).rdptr = 0 /\ OQInit(n).wrptr = 0
  BY DEF OQInit, Empty, Rings, Places
<1>3. InputQueue(IQInit(n), n, B)
  BY <1>1 DEF InputQueue, Ring, At
<1>4. OutputQueue(OQInit(n), n, B)
  BY <1>2 DEF OutputQueue, Ring, At
<1>5. /\ IQContents(IQInit(n)) \in Seq(B) /\ Len(IQContents(IQInit(n))) = 0
      /\ OQContents(OQInit(n)) \in Seq(B) /\ Len(OQContents(OQInit(n))) = 0
  <2>1. n - n = 0
    OBVIOUS
  <2> QED BY <1>1, <1>2, <1>3, <1>4, <2>1, InputQueueIsFifo, OutputQueueIsFifo
<1>6. IQContents(IQInit(n)) = <<>> /\ OQContents(OQInit(n)) = <<>>
  BY <1>5, EmptySeq
<1>7. IQIsEmpty(IQInit(n)) /\ OQIsEmpty(OQInit(n))
  BY <1>1, <1>2, <1>3, <1>4, Tests
<1> QED BY <1>3, <1>4, <1>6, <1>7

----------------------------------------------------------------------------
(* The invariant                                                           *)

Registers ==
    [RXNE : BOOLEAN, ORE : BOOLEAN, RDR : Received \cup {Stale},
     TXE : BOOLEAN, TC : BOOLEAN, TDR : Written \cup {Stale}, busy : BOOLEAN,
     TXEIE : BOOLEAN, TCIE : BOOLEAN]

SerialTypeOK ==
    /\ usart \in Registers
    /\ InputQueue(iqueue, InSize, Received) /\ OutputQueue(oqueue, OutSize, Written)
    /\ wire \in Written /\ got \in Received
    /\ isr \in {"idle", "rx", "tx", "tc", "clear", "write"}
    /\ cr1 \in [TXEIE : BOOLEAN]
    /\ sr \in [RXNE : BOOLEAN, ORE : BOOLEAN, TXE : BOOLEAN, TC : BOOLEAN]
    /\ io \in {"run", "get", "put"} /\ waiting \in BOOLEAN

\* A full register holds a byte; what SR has shown is still there when the
\* handler comes to act on it.
Shown ==
    /\ ~usart.TXE => usart.TDR \in Written
    /\ usart.RXNE => usart.RDR \in Received
    /\ isr = "rx" /\ sr.RXNE => usart.RXNE
    /\ isr \in {"rx", "tx"} /\ sr.TXE => usart.TXE

\* The copy of CR1 that the handler will write back is as good as CR1.
Armed ==
    ~OQIsEmpty(oqueue) => usart.TXEIE /\ (isr \in {"rx", "tx", "tc"} => cr1.TXEIE)

\* A thread that runs is not in q_waiting.
Waits ==
    /\ waiting => io # "run"
    /\ waiting /\ io = "get" => IQIsEmpty(iqueue)
    /\ waiting /\ io = "put" => OQIsFull(oqueue)

SerialInv == SerialTypeOK /\ Shown /\ Armed /\ Waits

LEMMA SerialInitInv == Init => SerialInv
<1> SUFFICES ASSUME Init PROVE SerialInv
  OBVIOUS
<1>1. /\ InputQueue(iqueue, InSize, Received)
      /\ OutputQueue(oqueue, OutSize, Written) /\ OQIsEmpty(oqueue)
  BY SerialAssumption, InitialQueues DEF Init
<1>2. PICK tc \in BOOLEAN :
          usart = [RXNE |-> FALSE, ORE |-> FALSE, RDR |-> Stale,
                   TXE |-> TRUE, TC |-> tc, TDR |-> Stale, busy |-> FALSE,
                   TXEIE |-> FALSE, TCIE |-> FALSE]
  BY DEF Init
<1>3. usart \in Registers
  BY <1>2 DEF Registers
<1>4. SerialTypeOK
  BY <1>1, <1>3 DEF Init, SerialTypeOK, NoCr1, NoSr
<1>5. Shown
  BY <1>2 DEF Init, Shown
<1>6. Armed /\ Waits
  BY <1>1 DEF Init, Armed, Waits
<1> QED BY <1>4, <1>5, <1>6 DEF SerialInv

\* The device changes its registers only, and never a flag that the handler
\* has seen set.
LEMMA DeviceInv ==
    ASSUME SerialInv, Load \/ ShiftOut \/ \E b \in Received : Arrive(b)
    PROVE  SerialInv'
<1>1. /\ UNCHANGED <<iqueue, oqueue, handler, thread>>
      /\ usart' \in Registers /\ wire' \in Written
      /\ usart'.TXEIE = usart.TXEIE
      /\ usart.TXE => usart'.TXE
      /\ usart.RXNE => usart'.RXNE
      /\ ~usart'.TXE => usart'.TDR \in Written
      /\ usart'.RXNE => usart'.RDR \in Received
  <2>1. CASE Load
    <3>1. /\ UNCHANGED <<iqueue, oqueue, handler, thread>>
          /\ ~usart.TXE /\ wire' = usart.TDR
          /\ usart' = [usart EXCEPT !.busy = TRUE, !.TXE = TRUE, !.TDR = Stale]
      BY <2>1 DEF Load
    <3> QED BY <3>1 DEF SerialInv, SerialTypeOK, Shown, Registers
  <2>2. CASE ShiftOut
    <3>1. /\ UNCHANGED <<wire, iqueue, oqueue, handler, thread>>
          /\ usart' = [usart EXCEPT !.busy = FALSE, !.TC = usart.TC \/ usart.TXE]
      BY <2>2 DEF ShiftOut
    <3> QED BY <3>1 DEF SerialInv, SerialTypeOK, Shown, Registers
  <2>3. CASE \E b \in Received : Arrive(b)
    <3>0. PICK b \in Received : Arrive(b)
      BY <2>3
    <3>1. /\ UNCHANGED <<wire, iqueue, oqueue, handler, thread>>
          /\ usart' = IF usart.RXNE THEN [usart EXCEPT !.ORE = TRUE]
                      ELSE [usart EXCEPT !.RXNE = TRUE, !.RDR = b]
      BY <3>0 DEF Arrive
    <3> QED BY <3>1 DEF SerialInv, SerialTypeOK, Shown, Registers
  <2> QED BY <2>1, <2>2, <2>3
<1>2. SerialTypeOK'
  BY <1>1 DEF SerialInv, SerialTypeOK, handler, thread
<1>3. Shown'
  BY <1>1 DEF SerialInv, Shown, handler
<1>4. Armed' /\ Waits'
  BY <1>1 DEF SerialInv, Armed, Waits, handler, thread
<1> QED BY <1>2, <1>3, <1>4 DEF SerialInv

\* SR and CR1 are copied.
LEMMA EnterInv ==
    ASSUME SerialInv, Enter
    PROVE  SerialInv'
<1>1. /\ UNCHANGED <<usart, wire, iqueue, oqueue, io, waiting, got>>
      /\ isr' = "rx"
      /\ cr1' = [TXEIE |-> usart.TXEIE]
      /\ sr' = Flags
  BY DEF Enter, hardware, thread
<1>2. SerialTypeOK'
  BY <1>1 DEF SerialInv, SerialTypeOK, Registers, Flags
<1>3. Shown'
  BY <1>1 DEF SerialInv, Shown, Flags
<1>4. Armed' /\ Waits'
  BY <1>1 DEF SerialInv, Armed, Waits
<1> QED BY <1>2, <1>3, <1>4 DEF SerialInv

\* A byte that is accepted readies the reader; one that is not leaves the
\* queue as it was.
LEMMA IncomingInv ==
    ASSUME SerialInv, Incoming
    PROVE  SerialInv'
<1> DEFINE accepted == sr.RXNE /\ ~IQIsFull(iqueue)
<1>1. /\ UNCHANGED <<wire, oqueue, cr1, io, got>>
      /\ isr = "rx" /\ isr' = "tx"
      /\ sr' = [sr EXCEPT !.RXNE = FALSE, !.ORE = FALSE]
      /\ iqueue' = IF accepted THEN IQPut(iqueue, usart.RDR) ELSE iqueue
      /\ waiting' = (waiting /\ ~(io = "get" /\ accepted))
  BY DEF Incoming
<1>2. PICK ore \in BOOLEAN :
          usart' = [usart EXCEPT !.RXNE = FALSE, !.RDR = Stale, !.ORE = ore]
  <2>1. usart.ORE \in BOOLEAN
    BY DEF SerialInv, SerialTypeOK, Registers
  <2>2. PICK ore \in (IF sr.ORE THEN {FALSE} ELSE {usart.ORE}) :
            usart' = [usart EXCEPT !.RXNE = FALSE, !.RDR = Stale, !.ORE = ore]
    BY DEF Incoming
  <2>3. ore \in BOOLEAN
    BY <2>1
  <2> QED BY <2>2, <2>3
<1>3. InputQueue(iqueue', InSize, Received)
  <2>1. CASE accepted
    <3>1. usart.RDR \in Received /\ ~IQIsFull(iqueue)
      BY <1>1, <2>1 DEF SerialInv, Shown
    <3>2. InputQueue(iqueue, InSize, Received) /\ InSize \in Nat \ {0}
      BY SerialAssumption DEF SerialInv, SerialTypeOK
    <3>3. InputQueue(IQPut(iqueue, usart.RDR), InSize, Received)
      BY <3>1, <3>2, InputQueueIsFifo
    <3> QED BY <1>1, <2>1, <3>3
  <2>2. CASE ~accepted
    BY <1>1, <2>2 DEF SerialInv, SerialTypeOK
  <2> QED BY <2>1, <2>2
<1>4. /\ usart' \in Registers
      /\ usart'.TXE = usart.TXE /\ usart'.TDR = usart.TDR /\ usart'.RXNE = FALSE
      /\ usart'.TXEIE = usart.TXEIE
  BY <1>2 DEF SerialInv, SerialTypeOK, Registers
<1>5. waiting' \in BOOLEAN
  BY <1>1
<1>6. SerialTypeOK'
  BY <1>1, <1>3, <1>4, <1>5 DEF SerialInv, SerialTypeOK
<1>7. Shown'
  BY <1>1, <1>4 DEF SerialInv, Shown
<1>8. Armed'
  BY <1>1, <1>4 DEF SerialInv, Armed
<1>9. Waits'
  <2>1. waiting' => waiting /\ ~(io = "get" /\ accepted)
    BY <1>1, Zenon
  <2>2. io = "get" /\ waiting' => iqueue' = iqueue
    BY <1>1, <2>1, Zenon
  <2> QED BY <1>1, <2>1, <2>2 DEF SerialInv, Waits
<1> QED BY <1>6, <1>7, <1>8, <1>9 DEF SerialInv

\* The next byte is loaded, or the interrupt is disabled with the queue empty.
LEMMA OutgoingInv ==
    ASSUME SerialInv, Outgoing
    PROVE  SerialInv'
<1>1. /\ UNCHANGED <<wire, iqueue, cr1, io, got>>
      /\ isr = "tx" /\ isr' = "tc"
      /\ sr' = [sr EXCEPT !.TXE = FALSE]
  BY DEF Outgoing
<1>2. CASE ~(cr1.TXEIE /\ sr.TXE)
  <2>1. UNCHANGED <<usart, oqueue, waiting>>
    BY <1>2 DEF Outgoing
  <2> QED BY <1>1, <2>1 DEF SerialInv, SerialTypeOK, Shown, Armed, Waits
<1>3. CASE cr1.TXEIE /\ sr.TXE /\ OQIsEmpty(oqueue)
  <2>1. /\ usart' = [usart EXCEPT !.TXEIE = FALSE, !.TCIE = TRUE]
        /\ UNCHANGED <<oqueue, waiting>>
    BY <1>3 DEF Outgoing
  <2>2. /\ usart' \in Registers
        /\ usart'.TXE = usart.TXE /\ usart'.TDR = usart.TDR
        /\ usart'.RXNE = usart.RXNE /\ usart'.RDR = usart.RDR
    BY <2>1 DEF SerialInv, SerialTypeOK, Registers
  <2> QED BY <1>1, <1>3, <2>1, <2>2 DEF SerialInv, SerialTypeOK, Shown, Armed, Waits
<1>4. CASE cr1.TXEIE /\ sr.TXE /\ ~OQIsEmpty(oqueue)
  <2>1. /\ oqueue' = OQGet(oqueue)
        /\ usart' = [usart EXCEPT !.TDR = Next1(oqueue), !.TXE = FALSE, !.TC = FALSE]
        /\ waiting' = (waiting /\ io # "put")
    BY <1>4 DEF Outgoing
  <2>2. OutputQueue(oqueue', OutSize, Written) /\ Next1(oqueue) \in Written
    <3>1. OutputQueue(oqueue, OutSize, Written) /\ OutSize \in Nat \ {0}
      BY SerialAssumption DEF SerialInv, SerialTypeOK
    <3> QED BY <1>4, <2>1, <3>1, OutputQueueIsFifo
  <2>3. /\ usart' \in Registers
        /\ usart'.TDR = Next1(oqueue) /\ usart'.TXEIE = usart.TXEIE
        /\ usart'.RXNE = usart.RXNE /\ usart'.RDR = usart.RDR
    BY <2>1, <2>2 DEF SerialInv, SerialTypeOK, Registers
  <2>4. usart.TXEIE /\ cr1.TXEIE
    BY <1>1, <1>4 DEF SerialInv, Armed
  <2>5. waiting' \in BOOLEAN /\ (waiting' => waiting /\ io # "put")
    BY <2>1, Zenon
  <2>6. SerialTypeOK'
    BY <1>1, <2>2, <2>3, <2>5 DEF SerialInv, SerialTypeOK
  <2>7. Shown'
    BY <1>1, <2>2, <2>3 DEF SerialInv, Shown
  <2>8. Armed' /\ Waits'
    BY <1>1, <2>3, <2>4, <2>5 DEF SerialInv, Armed, Waits
  <2> QED BY <2>6, <2>7, <2>8 DEF SerialInv
<1> QED BY <1>2, <1>3, <1>4

\* The end of the handler.
LEMMA EndInv ==
    ASSUME SerialInv, EndOfTransmission \/ ReadFlags \/ WriteFlags
    PROVE  SerialInv'
<1>1. CASE EndOfTransmission
  <2>1. /\ UNCHANGED <<wire, iqueue, oqueue, io, waiting, got>>
        /\ isr = "tc" /\ isr' \in {"clear", "idle"}
        /\ usart' = IF sr.TC THEN [usart EXCEPT !.TXEIE = cr1.TXEIE, !.TCIE = FALSE] ELSE usart
        /\ cr1' = NoCr1 /\ sr' = NoSr
    BY <1>1 DEF EndOfTransmission, thread
  <2>2. /\ usart' \in Registers
        /\ usart'.TXE = usart.TXE /\ usart'.TDR = usart.TDR
        /\ usart'.RXNE = usart.RXNE /\ usart'.RDR = usart.RDR
        /\ usart.TXEIE /\ cr1.TXEIE => usart'.TXEIE
    BY <2>1 DEF SerialInv, SerialTypeOK, Registers
  <2>3. SerialTypeOK'
    BY <2>1, <2>2 DEF SerialInv, SerialTypeOK, NoCr1, NoSr
  <2>4. Shown'
    BY <2>1, <2>2 DEF SerialInv, Shown
  <2>5. Armed' /\ Waits'
    BY <2>1, <2>2 DEF SerialInv, Armed, Waits
  <2> QED BY <2>3, <2>4, <2>5 DEF SerialInv
<1>2. CASE ReadFlags
  <2>1. /\ UNCHANGED <<usart, wire, iqueue, oqueue, cr1, io, waiting, got>>
        /\ isr' = "write" /\ sr' = [NoSr EXCEPT !.RXNE = usart.RXNE]
    BY <1>2 DEF ReadFlags, thread, hardware
  <2>2. SerialTypeOK'
    <3>1. usart.RXNE \in BOOLEAN
      BY DEF SerialInv, SerialTypeOK, Registers
    <3>2. sr' \in [RXNE : BOOLEAN, ORE : BOOLEAN, TXE : BOOLEAN, TC : BOOLEAN]
      BY <2>1, <3>1 DEF NoSr
    <3> QED BY <2>1, <3>2 DEF SerialInv, SerialTypeOK
  <2>3. Shown'
    BY <2>1 DEF SerialInv, Shown
  <2>4. Armed' /\ Waits'
    BY <2>1 DEF SerialInv, Armed, Waits
  <2> QED BY <2>2, <2>3, <2>4 DEF SerialInv
<1>3. CASE WriteFlags
  <2>1. /\ UNCHANGED <<wire, iqueue, oqueue, cr1, io, waiting, got>>
        /\ isr' = "idle" /\ sr' = NoSr
        /\ usart' = [usart EXCEPT !.RXNE = usart.RXNE /\ sr.RXNE,
                                  !.RDR = IF sr.RXNE THEN usart.RDR ELSE Stale, !.TC = FALSE]
    BY <1>3 DEF WriteFlags, thread
  <2>2. /\ usart' \in Registers
        /\ usart'.TXE = usart.TXE /\ usart'.TDR = usart.TDR /\ usart'.TXEIE = usart.TXEIE
        /\ usart'.RXNE => usart.RXNE /\ usart'.RDR = usart.RDR
    BY <2>1 DEF SerialInv, SerialTypeOK, Registers
  <2>3. SerialTypeOK'
    BY <2>1, <2>2 DEF SerialInv, SerialTypeOK, NoSr
  <2>4. Shown'
    BY <2>1, <2>2 DEF SerialInv, Shown
  <2>5. Armed' /\ Waits'
    BY <2>1, <2>2 DEF SerialInv, Armed, Waits
  <2> QED BY <2>3, <2>4, <2>5 DEF SerialInv
<1> QED BY <1>1, <1>2, <1>3

\* The thread calls the driver.
LEMMA CallInv ==
    ASSUME SerialInv, Call
    PROVE  SerialInv'
<1>1. /\ UNCHANGED <<usart, wire, iqueue, oqueue, isr, cr1, sr, waiting, got>>
      /\ io = "run" /\ io' \in {"get", "put"}
  BY DEF Call, hardware, handler
<1>2. ~waiting
  BY <1>1 DEF SerialInv, Waits
<1> QED BY <1>1, <1>2 DEF SerialInv, SerialTypeOK, Shown, Armed, Waits

\* The thread reads.
LEMMA ReaderInv ==
    ASSUME SerialInv, Get \/ GetTimedOut
    PROVE  SerialInv'
<1>0. InputQueue(iqueue, InSize, Received) /\ InSize \in Nat \ {0}
  BY SerialAssumption DEF SerialInv, SerialTypeOK
<1>1. CASE Get /\ IQIsEmpty(iqueue)
  <2>1. /\ UNCHANGED <<usart, wire, iqueue, oqueue, isr, cr1, sr, io, got>>
        /\ io = "get" /\ waiting' = TRUE
    BY <1>1 DEF Get, hardware, handler, Runs
  <2> QED BY <1>1, <2>1 DEF SerialInv, SerialTypeOK, Shown, Armed, Waits
<1>2. CASE Get /\ ~IQIsEmpty(iqueue)
  <2>1. /\ UNCHANGED <<usart, wire, oqueue, isr, cr1, sr, waiting>>
        /\ got' = Next1(iqueue) /\ iqueue' = IQGet(iqueue) /\ io' = "run"
        /\ ~waiting
    BY <1>2 DEF Get, hardware, handler, Runs
  <2>2. InputQueue(iqueue', InSize, Received) /\ got' \in Received
    BY <1>0, <1>2, <2>1, InputQueueIsFifo
  <2>3. SerialTypeOK'
    BY <2>1, <2>2 DEF SerialInv, SerialTypeOK
  <2>4. Shown' /\ Armed' /\ Waits'
    BY <2>1 DEF SerialInv, Shown, Armed, Waits
  <2> QED BY <2>3, <2>4 DEF SerialInv
<1>3. CASE GetTimedOut
  <2>1. /\ UNCHANGED <<usart, wire, iqueue, oqueue, isr, cr1, sr, got>>
        /\ io' = "run" /\ waiting' = FALSE
    BY <1>3 DEF GetTimedOut, hardware, handler
  <2> QED BY <2>1 DEF SerialInv, SerialTypeOK, Shown, Armed, Waits
<1> QED BY <1>1, <1>2, <1>3

\* The thread writes, and arms the interrupt.
LEMMA WriterInv ==
    ASSUME SerialInv, NEW b \in Written, Put(b)
    PROVE  SerialInv'
<1>0. OutputQueue(oqueue, OutSize, Written) /\ OutSize \in Nat \ {0}
  BY SerialAssumption DEF SerialInv, SerialTypeOK
<1>1. CASE OQIsFull(oqueue)
  <2>1. /\ UNCHANGED <<usart, wire, iqueue, oqueue, isr, cr1, sr, io, got>>
        /\ io = "put" /\ waiting' = TRUE
    BY <1>1 DEF Put, handler, Runs
  <2> QED BY <1>1, <2>1 DEF SerialInv, SerialTypeOK, Shown, Armed, Waits
<1>2. CASE ~OQIsFull(oqueue)
  <2>1. /\ UNCHANGED <<wire, iqueue, isr, cr1, sr, got, waiting>>
        /\ isr = "idle" /\ ~waiting
        /\ oqueue' = OQPut(oqueue, b) /\ io' = "run"
        /\ usart' = [usart EXCEPT !.TXEIE = TRUE]
    BY <1>2 DEF Put, handler, Runs
  <2>2. OutputQueue(oqueue', OutSize, Written)
    BY <1>0, <1>2, <2>1, OutputQueueIsFifo
  <2>3. /\ usart' \in Registers
        /\ usart'.TXE = usart.TXE /\ usart'.TDR = usart.TDR /\ usart'.TXEIE
        /\ usart'.RXNE = usart.RXNE /\ usart'.RDR = usart.RDR
    BY <2>1 DEF SerialInv, SerialTypeOK, Registers
  <2>4. SerialTypeOK'
    BY <2>1, <2>2, <2>3 DEF SerialInv, SerialTypeOK
  <2>5. Shown' /\ Armed' /\ Waits'
    BY <2>1, <2>3 DEF SerialInv, Shown, Armed, Waits
  <2> QED BY <2>4, <2>5 DEF SerialInv
<1> QED BY <1>1, <1>2

LEMMA SerialStepInv == SerialInv /\ [Next]_vars => SerialInv'
<1> SUFFICES ASSUME SerialInv, [Next]_vars PROVE SerialInv'
  OBVIOUS
<1>1. CASE Next
  BY <1>1, DeviceInv, EnterInv, IncomingInv, OutgoingInv, EndInv, CallInv, ReaderInv,
     WriterInv DEF Next, Handler
<1>2. CASE UNCHANGED vars
  BY <1>2 DEF vars, SerialInv, SerialTypeOK, Shown, Armed, Waits
<1> QED BY <1>1, <1>2

LEMMA SerialInvariance == Spec => []SerialInv
<1> QED BY SerialInitInv, SerialStepInv, PTL DEF Spec

\* Output that is queued is asked for: outside the handler the interrupt is
\* enabled, for every size of the queues and every timing of the device.
THEOREM OutputStaysArmed == Spec => []OutputArmed
<1>1. SerialInv => OutputArmed
  BY DEF SerialInv, Armed, OutputArmed
<1> QED BY <1>1, SerialInvariance, PTL

\* A thread that waits has nothing to go on with.
THEOREM NoWakeupLost == Spec => []WaitsForCause
<1>1. SerialInv => WaitsForCause
  BY DEF SerialInv, SerialTypeOK, Waits, WaitsForCause
<1> QED BY <1>1, SerialInvariance, PTL

----------------------------------------------------------------------------
(* The refinement                                                          *)

\* A byte put before a sequence is its head; one put behind it is appended.
LEMMA FirstByte ==
    ASSUME NEW B, NEW a \in B, NEW Q \in Seq(B)
    PROVE  <<a>> \o Q # <<>> /\ Head(<<a>> \o Q) = a /\ Tail(<<a>> \o Q) = Q
<1> DEFINE P == <<a>> \o Q
<1>1. <<a>> \in Seq(B) /\ Len(<<a>>) = 1 /\ <<a>>[1] = a
  OBVIOUS
<1>2. /\ P \in Seq(B) /\ Len(P) = 1 + Len(Q) /\ Len(Q) \in Nat
      /\ \A i \in 1..(1 + Len(Q)) : P[i] = IF i <= 1 THEN a ELSE Q[i - 1]
  BY <1>1, ConcatProperties, LenProperties
<1> HIDE DEF P
<1>3. P # <<>> /\ Head(P) = a
  BY <1>2
<1>4. /\ Tail(P) \in Seq(B) /\ Len(Tail(P)) = Len(Q)
      /\ \A i \in 1..Len(Q) : Tail(P)[i] = P[i + 1]
  BY <1>2, <1>3, HeadTailProperties
<1>5. \A i \in 1..Len(Q) : Tail(P)[i] = Q[i]
  BY <1>2, <1>4
<1>6. Tail(P) = Q
  BY <1>4, <1>5, SeqEqual
<1> QED BY <1>3, <1>6 DEF P

\* A sequence is its head put before its tail.
LEMMA HeadMoves ==
    ASSUME NEW B, NEW Q \in Seq(B), Q # <<>>
    PROVE  <<Head(Q)>> \o Tail(Q) = Q
<1>1. /\ Head(Q) \in B /\ Tail(Q) \in Seq(B) /\ <<Head(Q)>> \in Seq(B)
      /\ Len(Tail(Q)) = Len(Q) - 1 /\ Len(Q) \in Nat
      /\ \A i \in 1..Len(Tail(Q)) : Tail(Q)[i] = Q[i + 1]
  BY HeadTailProperties, LenProperties
<1> DEFINE P == <<Head(Q)>> \o Tail(Q)
<1>2. Len(<<Head(Q)>>) = 1 /\ <<Head(Q)>>[1] = Head(Q)
  OBVIOUS
<1>3. /\ P \in Seq(B) /\ Len(P) = 1 + (Len(Q) - 1)
      /\ \A i \in 1..(1 + (Len(Q) - 1)) : P[i] = IF i <= 1 THEN Head(Q) ELSE Tail(Q)[i - 1]
  BY <1>1, <1>2, ConcatProperties
<1> HIDE DEF P
<1>4. Len(P) = Len(Q) /\ Head(Q) = Q[1]
  BY <1>1, <1>3
<1>5. \A i \in 1..Len(P) : P[i] = Q[i]
  BY <1>1, <1>3, <1>4
<1>6. P = Q
  BY <1>3, <1>4, <1>5, SeqEqual
<1> QED BY <1>6 DEF P

\* The bytes in the buffers and registers are bytes of the two streams.
LEMMA Streams ==
    ASSUME SerialInv
    PROVE  /\ IQContents(iqueue) \in Seq(Received) /\ OQContents(oqueue) \in Seq(Written)
           /\ One(~usart.TXE, usart.TDR) \in Seq(Written)
<1>1. IQContents(iqueue) \in Seq(Received) /\ OQContents(oqueue) \in Seq(Written)
  <2>1. InputQueue(iqueue, InSize, Received) /\ OutputQueue(oqueue, OutSize, Written)
    BY DEF SerialInv, SerialTypeOK
  <2> QED BY <2>1, SerialAssumption, InputQueueIsFifo, OutputQueueIsFifo
<1>2. (~usart.TXE => usart.TDR \in Written) /\ (~usart.TXE) \in BOOLEAN
  BY DEF SerialInv, SerialTypeOK, Registers, Shown
<1>3. One(~usart.TXE, usart.TDR) \in Seq(Written)
  BY <1>2 DEF One
<1> QED BY <1>1, <1>3

\* A step of the driver is one of Link, or none.
LinkStep == [L!Next]_<<io, Out, wire, Line, IQContents(iqueue), got>>

\* What the bytes on their way depend on.
LEMMA SameIn ==
    ASSUME iqueue' = iqueue
    PROVE  IQContents(iqueue') = IQContents(iqueue)
BY DEF IQContents

LEMMA SameLine ==
    ASSUME usart'.RXNE = usart.RXNE, usart'.RDR = usart.RDR
    PROVE  Line' = Line
BY DEF Line

LEMMA SameOut ==
    ASSUME oqueue' = oqueue, usart'.TXE = usart.TXE, usart'.TDR = usart.TDR
    PROVE  Out' = Out
BY DEF Out

\* A byte that is not taken over when RXNE is reset is missed.
LEMMA Misses ==
    ASSUME usart.RXNE, ~usart'.RXNE, Out' = Out, UNCHANGED <<io, wire, iqueue, got>>
    PROVE  LinkStep
<1>1. Line # <<>> /\ Line' = <<>>
  BY DEF Line, One
<1>2. L!Miss
  BY <1>1, SameIn DEF L!Miss
<1> QED BY <1>2 DEF LinkStep, L!Next

\* The device: a byte arrives, leaves, or is complete.
LEMMA DeviceRefines ==
    ASSUME SerialInv, Load \/ ShiftOut \/ \E b \in Received : Arrive(b)
    PROVE  LinkStep
<1>0. usart \in Registers
  BY DEF SerialInv, SerialTypeOK
<1>1. CASE Load
  <2> DEFINE C == OQContents(oqueue)
  <2>1. /\ ~usart.TXE /\ wire' = usart.TDR
        /\ UNCHANGED <<iqueue, oqueue, io, got>>
        /\ usart' = [usart EXCEPT !.busy = TRUE, !.TXE = TRUE, !.TDR = Stale]
    BY <1>1 DEF Load, thread
  <2>2. usart'.RXNE = usart.RXNE /\ usart'.RDR = usart.RDR /\ usart'.TXE = TRUE
    BY <1>0, <2>1 DEF Registers
  <2>3. usart.TDR \in Written /\ C \in Seq(Written)
    BY <2>1, Streams DEF SerialInv, Shown
  <2>4. Out = <<usart.TDR>> \o C /\ Out' = <<>> \o C
    BY <2>1, <2>2 DEF Out, One
  <2> HIDE DEF C
  <2>5. Out # <<>> /\ wire' = Head(Out) /\ Out' = Tail(Out)
    BY <2>1, <2>3, <2>4, FirstByte, ConcatEmptySeq
  <2>6. L!Leave
    BY <2>1, <2>2, <2>5, SameIn, SameLine DEF L!Leave
  <2> QED BY <2>6 DEF LinkStep, L!Next
<1>2. CASE ShiftOut
  <2>1. /\ UNCHANGED <<wire, iqueue, oqueue, io, got>>
        /\ usart' = [usart EXCEPT !.busy = FALSE, !.TC = usart.TC \/ usart.TXE]
    BY <1>2 DEF ShiftOut, thread
  <2>2. /\ usart'.RXNE = usart.RXNE /\ usart'.RDR = usart.RDR
        /\ usart'.TXE = usart.TXE /\ usart'.TDR = usart.TDR
    BY <1>0, <2>1 DEF Registers
  <2> QED BY <2>1, <2>2, SameIn, SameLine, SameOut DEF LinkStep
<1>3. CASE \E b \in Received : Arrive(b)
  <2>0. PICK b \in Received : Arrive(b)
    BY <1>3
  <2>1. /\ UNCHANGED <<wire, iqueue, oqueue, io, got>>
        /\ usart' = IF usart.RXNE THEN [usart EXCEPT !.ORE = TRUE]
                    ELSE [usart EXCEPT !.RXNE = TRUE, !.RDR = b]
    BY <2>0 DEF Arrive, thread
  <2>2. usart'.TXE = usart.TXE /\ usart'.TDR = usart.TDR
    BY <1>0, <2>1 DEF Registers
  <2>3. CASE usart.RXNE
    <3>1. usart'.RXNE = usart.RXNE /\ usart'.RDR = usart.RDR
      BY <1>0, <2>1, <2>3 DEF Registers
    <3> QED BY <2>1, <2>2, <3>1, SameIn, SameLine, SameOut DEF LinkStep
  <2>4. CASE ~usart.RXNE
    <3>1. usart'.RXNE /\ usart'.RDR = b
      BY <1>0, <2>1, <2>4 DEF Registers
    <3>2. Line = <<>> /\ Line' = <<b>>
      BY <2>4, <3>1 DEF Line, One
    <3>3. L!Arrive(b)
      BY <2>1, <2>2, <3>2, SameIn, SameOut DEF L!Arrive
    <3> QED BY <3>3 DEF LinkStep, L!Next
  <2> QED BY <2>3, <2>4
<1> QED BY <1>1, <1>2, <1>3

\* The handler takes the byte over once, or it is missed.
LEMMA IncomingRefines ==
    ASSUME SerialInv, Incoming
    PROVE  LinkStep
<1> DEFINE accepted == sr.RXNE /\ ~IQIsFull(iqueue)
           C == IQContents(iqueue)
<1>1. /\ UNCHANGED <<wire, oqueue, io, got>> /\ isr = "rx"
      /\ iqueue' = IF accepted THEN IQPut(iqueue, usart.RDR) ELSE iqueue
  BY DEF Incoming
<1>2. PICK ore \in (IF sr.ORE THEN {FALSE} ELSE {usart.ORE}) :
          usart' = [usart EXCEPT !.RXNE = FALSE, !.RDR = Stale, !.ORE = ore]
  BY DEF Incoming
<1>3. usart'.TXE = usart.TXE /\ usart'.TDR = usart.TDR /\ usart'.RXNE = FALSE
  BY <1>2 DEF SerialInv, SerialTypeOK, Registers
<1>4. Out' = Out
  BY <1>1, <1>3, SameOut
<1>5. CASE accepted
  <2>1. usart.RXNE /\ usart.RDR \in Received
    BY <1>1, <1>5 DEF SerialInv, Shown
  <2>2. IQContents(iqueue') = Append(C, usart.RDR) /\ C \in Seq(Received)
    <3>1. InputQueue(iqueue, InSize, Received)
      BY DEF SerialInv, SerialTypeOK
    <3>2. /\ IQContents(IQPut(iqueue, usart.RDR)) = Append(C, usart.RDR)
          /\ C \in Seq(Received)
      BY <1>5, <2>1, <3>1, SerialAssumption, InputQueueIsFifo
    <3> QED BY <1>1, <1>5, <3>2
  <2>3. Line = <<usart.RDR>> /\ Line' = <<>>
    BY <1>3, <2>1 DEF Line, One
  <2> HIDE DEF C
  <2>4. IQContents(iqueue') = C \o Line
    BY <2>1, <2>2, <2>3, AppendIsConcat
  <2>5. L!Take
    BY <1>1, <1>4, <2>3, <2>4 DEF L!Take, C
  <2> QED BY <2>5 DEF LinkStep, L!Next
<1>6. CASE ~accepted /\ usart.RXNE
  BY <1>1, <1>3, <1>4, <1>6, Misses
<1>7. CASE ~accepted /\ ~usart.RXNE
  <2>1. Line' = Line
    BY <1>3, <1>7 DEF Line, One
  <2> QED BY <1>1, <1>4, <1>7, <2>1, SameIn DEF LinkStep
<1> QED BY <1>5, <1>6, <1>7

\* The handler moves a byte from the queue into the empty register.
LEMMA OutgoingRefines ==
    ASSUME SerialInv, Outgoing
    PROVE  LinkStep
<1>1. UNCHANGED <<wire, iqueue, io, got>> /\ isr = "tx"
  BY DEF Outgoing
<1>2. usart \in Registers
  BY DEF SerialInv, SerialTypeOK
<1>3. CASE ~(cr1.TXEIE /\ sr.TXE) \/ OQIsEmpty(oqueue)
  <2>1. oqueue' = oqueue /\ usart' \in {usart, [usart EXCEPT !.TXEIE = FALSE, !.TCIE = TRUE]}
    BY <1>3 DEF Outgoing
  <2>2. /\ usart'.TXE = usart.TXE /\ usart'.TDR = usart.TDR
        /\ usart'.RXNE = usart.RXNE /\ usart'.RDR = usart.RDR
    BY <1>2, <2>1 DEF Registers
  <2> QED BY <1>1, <2>1, <2>2, SameIn, SameLine, SameOut DEF LinkStep
<1>4. CASE cr1.TXEIE /\ sr.TXE /\ ~OQIsEmpty(oqueue)
  <2> DEFINE C == OQContents(oqueue)
  <2>1. /\ oqueue' = OQGet(oqueue)
        /\ usart' = [usart EXCEPT !.TDR = Next1(oqueue), !.TXE = FALSE, !.TC = FALSE]
    BY <1>4 DEF Outgoing
  <2>2. /\ usart'.TXE = FALSE /\ usart'.TDR = Next1(oqueue)
        /\ usart'.RXNE = usart.RXNE /\ usart'.RDR = usart.RDR
    BY <1>2, <2>1 DEF Registers
  <2>3. C \in Seq(Written) /\ C # <<>> /\ Next1(oqueue) = Head(C) /\ OQContents(oqueue') = Tail(C)
    <3>1. OutputQueue(oqueue, OutSize, Written)
      BY DEF SerialInv, SerialTypeOK
    <3> QED BY <1>4, <2>1, <3>1, SerialAssumption, OutputQueueIsFifo
  <2>4. usart.TXE
    BY <1>1, <1>4 DEF SerialInv, Shown
  <2>5. Out = <<>> \o C /\ Out' = <<Head(C)>> \o Tail(C)
    BY <2>2, <2>3, <2>4 DEF Out, One
  <2> HIDE DEF C
  <2>6. Out' = Out
    BY <2>3, <2>5, HeadMoves, ConcatEmptySeq
  <2> QED BY <1>1, <2>2, <2>6, SameIn, SameLine DEF LinkStep
<1> QED BY <1>3, <1>4

\* Clearing TC can lose a byte; the other steps of the handler do not matter.
LEMMA EndRefines ==
    ASSUME SerialInv, Enter \/ EndOfTransmission \/ ReadFlags \/ WriteFlags
    PROVE  LinkStep
<1>1. UNCHANGED <<wire, iqueue, oqueue, io, got>>
  BY DEF Enter, EndOfTransmission, ReadFlags, WriteFlags, hardware, thread
<1>2. /\ usart'.TXE = usart.TXE /\ usart'.TDR = usart.TDR
      /\ \/ usart'.RXNE = usart.RXNE /\ (usart.RXNE => usart'.RDR = usart.RDR)
         \/ usart.RXNE /\ ~usart'.RXNE
  <2>1. usart \in Registers
    BY DEF SerialInv, SerialTypeOK
  <2>2. CASE Enter \/ ReadFlags
    BY <2>2 DEF Enter, ReadFlags, hardware
  <2>3. CASE EndOfTransmission
    BY <2>1, <2>3 DEF EndOfTransmission, Registers
  <2>4. CASE WriteFlags
    BY <2>1, <2>4 DEF WriteFlags, Registers
  <2> QED BY <2>2, <2>3, <2>4
<1>3. Out' = Out
  BY <1>1, <1>2, SameOut
<1>4. CASE usart'.RXNE = usart.RXNE /\ (usart.RXNE => usart'.RDR = usart.RDR)
  <2>1. Line' = Line
    BY <1>4 DEF Line, One
  <2> QED BY <1>1, <1>3, <2>1, SameIn DEF LinkStep
<1>5. CASE usart.RXNE /\ ~usart'.RXNE
  BY <1>1, <1>3, <1>5, Misses
<1> QED BY <1>2, <1>4, <1>5

\* The thread calls; the reader takes the first byte that came in.
LEMMA ReaderRefines ==
    ASSUME SerialInv, Call \/ Get \/ GetTimedOut
    PROVE  LinkStep
<1>1. UNCHANGED <<usart, wire, oqueue>>
  BY DEF Call, Get, GetTimedOut, hardware
<1>2. Out' = Out /\ Line' = Line
  BY <1>1, SameOut, SameLine
<1>3. CASE Call
  <2>1. L!Call
    BY <1>1, <1>2, <1>3, SameIn DEF Call, L!Call
  <2> QED BY <2>1 DEF LinkStep, L!Next
<1>4. CASE Get /\ IQIsEmpty(iqueue)
  BY <1>1, <1>2, <1>4, SameIn DEF Get, LinkStep
<1>5. CASE Get /\ ~IQIsEmpty(iqueue)
  <2> DEFINE C == IQContents(iqueue)
  <2>1. got' = Next1(iqueue) /\ iqueue' = IQGet(iqueue) /\ io = "get" /\ io' = "run"
    BY <1>5 DEF Get, Runs
  <2>2. C # <<>> /\ got' = Head(C) /\ IQContents(iqueue') = Tail(C)
    <3>1. InputQueue(iqueue, InSize, Received)
      BY DEF SerialInv, SerialTypeOK
    <3> QED BY <1>5, <2>1, <3>1, SerialAssumption, InputQueueIsFifo
  <2>3. L!Read
    BY <1>1, <1>2, <2>1, <2>2 DEF L!Read
  <2> QED BY <2>3 DEF LinkStep, L!Next
<1>6. CASE GetTimedOut
  <2>1. L!GiveUp
    BY <1>1, <1>2, <1>6, SameIn DEF GetTimedOut, L!GiveUp
  <2> QED BY <2>1 DEF LinkStep, L!Next
<1> QED BY <1>3, <1>4, <1>5, <1>6

\* The writer appends its byte to those on their way.
LEMMA WriterRefines ==
    ASSUME SerialInv, NEW b \in Written, Put(b)
    PROVE  LinkStep
<1>1. UNCHANGED <<wire, iqueue, got>> /\ io = "put"
  BY DEF Put, Runs
<1>2. usart \in Registers
  BY DEF SerialInv, SerialTypeOK
<1>3. usart' \in {usart, [usart EXCEPT !.TXEIE = TRUE]}
  BY DEF Put
<1>4. /\ usart'.TXE = usart.TXE /\ usart'.TDR = usart.TDR
      /\ usart'.RXNE = usart.RXNE /\ usart'.RDR = usart.RDR
  BY <1>2, <1>3 DEF Registers
<1>5. Line' = Line
  BY <1>4, SameLine
<1>6. CASE OQIsFull(oqueue)
  <2>1. oqueue' = oqueue /\ io' = io
    BY <1>6 DEF Put
  <2> QED BY <1>1, <1>4, <1>5, <2>1, SameIn, SameOut DEF LinkStep
<1>7. CASE ~OQIsFull(oqueue)
  <2> DEFINE Y == One(~usart.TXE, usart.TDR)
             C == OQContents(oqueue)
  <2>1. oqueue' = OQPut(oqueue, b) /\ io' = "run"
    BY <1>7 DEF Put
  <2>2. OQContents(oqueue') = Append(C, b)
    <3>1. OutputQueue(oqueue, OutSize, Written)
      BY DEF SerialInv, SerialTypeOK
    <3> QED BY <1>7, <2>1, <3>1, SerialAssumption, OutputQueueIsFifo
  <2>3. Y \in Seq(Written) /\ C \in Seq(Written)
    BY Streams
  <2>4. Out = Y \o C /\ Out' = Y \o Append(C, b)
    BY <1>4, <2>2 DEF Out
  <2> HIDE DEF Y, C
  <2>5. Out' = Append(Out, b)
    <3>1. <<b>> \in Seq(Written) /\ Y \o C \in Seq(Written)
      BY <2>3, ConcatProperties
    <3>2. Append(C, b) = C \o <<b>> /\ Append(Y \o C, b) = (Y \o C) \o <<b>>
      BY <2>3, <3>1, AppendIsConcat
    <3> QED BY <2>3, <2>4, <3>1, <3>2, ConcatAssociative
  <2>6. L!Write(b)
    BY <1>1, <1>5, <2>1, <2>5, SameIn DEF L!Write
  <2> QED BY <2>6 DEF LinkStep, L!Next
<1> QED BY <1>6, <1>7

\* The driver with its buffers, its registers and its interrupt handler is the
\* link that its users are promised, whatever the sizes and the timing.
THEOREM DriverImplementsLink == Spec => ImplementsLink
<1>1. Init => L!Init
  <2> SUFFICES ASSUME Init PROVE L!Init
    OBVIOUS
  <2>1. IQContents(iqueue) = <<>> /\ OQContents(oqueue) = <<>>
    BY SerialAssumption, InitialQueues DEF Init
  <2>2. usart.RXNE = FALSE /\ usart.TXE = TRUE
    BY DEF Init
  <2>3. Line = <<>> /\ Out = <<>> \o <<>>
    BY <2>1, <2>2 DEF Line, Out, One
  <2>4. <<>> \o <<>> = <<>>
    <3>1. <<>> \in Seq(Written)
      OBVIOUS
    <3> QED BY <3>1, ConcatEmptySeq
  <2> QED BY <2>1, <2>3, <2>4 DEF Init, L!Init
<1>2. SerialInv /\ [Next]_vars => LinkStep
  <2> SUFFICES ASSUME SerialInv, [Next]_vars PROVE LinkStep
    OBVIOUS
  <2>1. CASE Next
    BY <2>1, DeviceRefines, IncomingRefines, OutgoingRefines, EndRefines, ReaderRefines,
       WriterRefines DEF Next, Handler
  <2>2. CASE UNCHANGED vars
    BY <2>2, SameIn, SameLine, SameOut DEF vars, LinkStep
  <2> QED BY <2>1, <2>2
<1> QED BY <1>1, <1>2, SerialInvariance, PTL DEF Spec, ImplementsLink, L!Spec, LinkStep
============================================================================
