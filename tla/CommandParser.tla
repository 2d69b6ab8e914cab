--------------------------- MODULE CommandParser ---------------------------
(***************************************************************************)
(* The framing half of Tortilla::ioLoop() as a process: every received     *)
(* byte drives the parser and a byte that completes a frame executes the   *)
(* command; every expired wait only moves timeout_counter.  What a command *)
(* does to the robot is module Tortilla's subject.                         *)
(***************************************************************************)
EXTENDS FrameParser, Sequences

CONSTANTS IO_FREQ,    \* the number of expired waits that trip the failsafe
          Reads,      \* of each opcode: the positions of command_data it reads
          MaxBytes    \* bound on the length of the byte stream

ASSUME FreqAssumption == IO_FREQ \in Nat \ {0}
ASSUME ReadsAssumption == Reads \in [0..255 -> 0..BufferSize]
ASSUME MaxBytesAssumption == MaxBytes \in Nat

VARIABLES parser,           \* state, command_length, command_code, ...
          timeout_counter,  \* consecutive expired waits
          rx,               \* history: every byte received
          executed          \* history: every command executed

vars == <<parser, timeout_counter, rx, executed>>

\* What the command switch reads: fixed positions of command_data, however
\* many digits the frame has brought.
Command(p) ==
    [code |-> p.code, digits |-> [k \in 1..Reads[p.code] |-> p.data[k - 1]]]

----------------------------------------------------------------------------
Init ==
    /\ \E data \in [Slots -> Junk] : parser = InitialParser(data)
    /\ timeout_counter = 0
    /\ rx = <<>>
    /\ executed = <<>>

\* chIOGetTimeout returned a byte.
ReceiveByte(c) ==
    /\ Len(rx) < MaxBytes
    /\ rx' = Append(rx, c)
    /\ timeout_counter' = 0
    /\ parser' = ParserStep(parser, c)
    /\ executed' = IF parser'.state = "DONE"
                   THEN Append(executed, Command(parser'))
                   ELSE executed

\* chIOGetTimeout returned Q_TIMEOUT: the parser keeps its place.
WaitExpired ==
    /\ timeout_counter' = IF timeout_counter + 1 = IO_FREQ
                          THEN 0 ELSE timeout_counter + 1
    /\ UNCHANGED <<parser, rx, executed>>

Next == (\E c \in Bytes : ReceiveByte(c)) \/ WaitExpired

Spec == Init /\ [][Next]_vars

----------------------------------------------------------------------------
\* Type invariant.  The index of the next digit stays inside command_data[]
\* whenever a digit can be stored, the array bound ioLoop relies on.
TypeOK ==
    /\ parser \in Parser
    /\ timeout_counter \in 0..(IO_FREQ - 1)
    /\ rx \in Seq(Bytes)
    /\ executed \in Seq([code : 0..255, digits : Seq(0..255)])

\* Between bytes the parser's place is a fact about the end of the stream:
\* the header and the digits it has stored are the last bytes received,
\* contiguous, in order.  A parser that kept a stale digit, lost its place or
\* merged two frames would break this (Tortilla_io.cpp, the switch on state).
StreamMatches ==
    LET n == Len(rx)
        k == parser.index
    IN  /\ parser.state = "LENGTH" => n >= 1 /\ rx[n] = IO_START
        /\ parser.state = "OPCODE" =>
              /\ n >= 2 /\ rx[n - 1] = IO_START
              /\ rx[n] = 97 + parser.length
        /\ parser.state \in {"DATA", "DONE"} =>
              /\ n >= k + 3 /\ rx[n - k - 2] = IO_START
              /\ rx[n - k - 1] = 97 + parser.length
              /\ rx[n - k] = parser.code /\ IsLetter(parser.code)
              /\ \A j \in 0..(k - 1) : /\ rx[n - k + 1 + j] = 48 + parser.data[j]
                                       /\ parser.data[j] \in 0..9
        /\ parser.state = "DATA" => k < BufferSize /\ (k = 0 \/ k # parser.length)
        /\ parser.state = "DONE" => k >= 1 /\ Complete(parser, k)
                                    /\ \A j \in 1..(k - 1) : ~Complete(parser, j)

\* The parser implements the grammar: a command is executed exactly when the
\* stream ends with a complete frame, with that frame's opcode, with its own
\* digits at the places that the frame fills and, at those it does not fill
\* although the opcode reads them (Tortilla_io.cpp 162-164, 193, 205), with
\* the last digit that any frame brought there, or what the stack held.
Memory(p) == [k \in 1..BufferSize |-> p.data[k - 1]]
Grammar == INSTANCE FrameGrammar WITH memory <- Memory(parser)
ImplementsGrammar == Grammar!Spec

----------------------------------------------------------------------------
(* Why: what the parser's place says of the stream, in both directions.    *)

\* The stream ends with an opening '%', with '%' and a length letter, or with
\* a header at position i and k digits.
AwaitsLength(s) == Len(s) >= 1 /\ s[Len(s)] = IO_START
AwaitsOpcode(s) == Len(s) >= 2 /\ s[Len(s) - 1] = IO_START /\ IsLower(s[Len(s)])
Begun(s, i, k) ==
    /\ Len(s) = i + 2 + k
    /\ s[i] = IO_START /\ IsLower(s[i + 1]) /\ IsLetter(s[i + 2])
    /\ \A j \in 1..k : IsDigit(s[i + 2 + j])

Wanted(p) == Grammar!DigitsWanted(97 + p.length)

\* The frame that parser p is in, or has just completed, is the end of stream s.
Holds(p, s) ==
    LET i == Len(s) - 2 - p.index
    IN  /\ i >= 1 /\ Begun(s, i, p.index)
        /\ s[i + 1] = 97 + p.length /\ s[i + 2] = p.code
        /\ \A j \in 1..p.index : p.data[j - 1] = s[i + 2 + j] - 48

Tracks(p, s) ==
    /\ AwaitsLength(s) <=> p.state = "LENGTH"
    /\ AwaitsOpcode(s) <=> p.state = "OPCODE"
    /\ p.state = "OPCODE" => s[Len(s)] = 97 + p.length
    /\ p.state = "DATA" => Holds(p, s) /\ p.index < Wanted(p)
    /\ p.state = "DONE" => Holds(p, s) /\ p.index = Wanted(p)
    /\ \A i \in 1..Len(s), k \in 0..(BufferSize - 1) :
          Begun(s, i, k) /\ k < Grammar!DigitsWanted(s[i + 1])
             => p.state = "DATA" /\ p.index = k

Inv == TypeOK /\ Tracks(parser, rx)
============================================================================
