---------------------------- MODULE FrameGrammar ---------------------------
(***************************************************************************)
(* What the command link does, without a parser: the commands that have    *)
(* been executed are exactly the frames that occur in the received byte    *)
(* stream, each executed at the byte that completes it.  A command reads   *)
(* as many digits as its opcode takes, whatever the frame has announced:   *)
(* the frame's own and, where it is shorter than that, what an earlier     *)
(* frame, complete or broken off, left in the memory at their places.      *)
(***************************************************************************)
EXTENDS Integers, Sequences

CONSTANTS Bytes,       \* the byte values that arrive on the serial line
          BufferSize,  \* the most digits a frame can carry
          Reads,       \* how many digits the command of an opcode reads
          MaxBytes     \* bound on the length of the stream

VARIABLES rx,        \* every byte received so far
          memory,    \* the last digit received as the k-th of a frame
          executed   \* the commands executed so far, in order

\* The number of digits that the length letter 'a' + n asks for.
DigitsWanted(letter) ==
    IF letter - 97 \in 1..BufferSize THEN letter - 97 ELSE BufferSize

\* A frame opens at position i of s and its k-th digit is the last byte of s.
DigitAt(s, i, k) ==
    /\ Len(s) = i + 2 + k
    /\ s[i] = 37
    /\ s[i + 1] \in 97..122
    /\ s[i + 2] \in (97..122) \cup (65..90)
    /\ k <= DigitsWanted(s[i + 1])
    /\ \A j \in (i + 3)..Len(s) : s[j] \in 48..57

\* A frame opens at position i of s and its last digit is the last byte of s.
FrameAt(s, i) == i + 2 < Len(s) /\ DigitAt(s, i, DigitsWanted(s[i + 1]))

\* The command such a frame carries, over memory m.
CommandAt(s, i, m) ==
    [code   |-> s[i + 2],
     digits |-> [k \in 1..Reads[s[i + 2]] |->
                    IF k <= DigitsWanted(s[i + 1]) THEN s[i + 2 + k] - 48 ELSE m[k]]]

----------------------------------------------------------------------------
Init ==
    /\ rx = <<>> /\ executed = <<>>
    /\ memory \in [1..BufferSize -> 0..255]

Deliver(b) ==
    /\ rx' = Append(rx, b)
    /\ memory' = [k \in 1..BufferSize |->
                     IF \E i \in 1..Len(rx') : DigitAt(rx', i, k) THEN b - 48 ELSE memory[k]]
    /\ \/ \E i \in 1..Len(rx') :
             FrameAt(rx', i) /\ executed' = Append(executed, CommandAt(rx', i, memory'))
       \/ /\ \A i \in 1..Len(rx') : ~FrameAt(rx', i)
          /\ executed' = executed

Next == Len(rx) < MaxBytes /\ \E b \in Bytes : Deliver(b)

Spec == Init /\ [][Next]_<<rx, memory, executed>>
============================================================================
