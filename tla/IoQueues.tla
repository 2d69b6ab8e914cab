------------------------------ MODULE IoQueues -----------------------------
(***************************************************************************)
(* The input and output queues of the kernel (chqueues.c, chqueues.h) as   *)
(* operators on [buffer, rdptr, wrptr, counter]: a circular buffer of n    *)
(* places.  counter is the number of bytes in an input queue and of free   *)
(* places in an output queue; rdptr = wrptr is either empty or full.       *)
(* A place whose byte has been read holds Stale.                           *)
(***************************************************************************)
EXTENDS Naturals, FiniteSets, Sequences

CONSTANT Stale   \* no byte

Empty(n, counter) ==
    [buffer |-> [i \in 0..(n - 1) |-> Stale], rdptr |-> 0, wrptr |-> 0, counter |-> counter]

QSize(q) == Cardinality(DOMAIN q.buffer)

IQInit(n) == Empty(n, 0)
OQInit(n) == Empty(n, n)

IQIsEmpty(q) == q.counter <= 0
IQIsFull(q)  == q.wrptr = q.rdptr /\ q.counter # 0

\* Mutation: a full queue is taken for an empty one.
OQIsEmptyByPointers(q) == q.wrptr = q.rdptr

OQIsEmpty(q) == q.wrptr = q.rdptr /\ q.counter # 0
OQIsFull(q)  == q.counter <= 0

\* Pointers wrap around at q_top.
Advanced(q, p) == IF p + 1 >= QSize(q) THEN 0 ELSE p + 1

Stored(q, b) == [q EXCEPT !.buffer[q.wrptr] = b, !.wrptr = Advanced(q, q.wrptr)]
Taken(q) == [q EXCEPT !.buffer[q.rdptr] = Stale, !.rdptr = Advanced(q, q.rdptr)]

\* The byte that the next read returns.
Next1(q) == q.buffer[q.rdptr]

IQPut(q, b) == [Stored(q, b) EXCEPT !.counter = @ + 1]
IQGet(q)    == [Taken(q) EXCEPT !.counter = @ - 1]
OQPut(q, b) == [Stored(q, b) EXCEPT !.counter = @ - 1]
OQGet(q)    == [Taken(q) EXCEPT !.counter = @ + 1]

\* What a queue holds, oldest first, by its counter.
Held(q, n) == [i \in 1..n |-> q.buffer[(q.rdptr + i - 1) % QSize(q)]]
IQContents(q) == Held(q, q.counter)
OQContents(q) == Held(q, QSize(q) - q.counter)
============================================================================
