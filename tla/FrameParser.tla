---------------------------- MODULE FrameParser ----------------------------
(***************************************************************************)
(* The byte-level state machine of Tortilla::ioLoop() as a function on     *)
(* parser records: what one received byte does to the parser.  Bytes are   *)
(* the numbers 0..255 the serial driver delivers, so the character tests   *)
(* are the code's own comparisons.                                         *)
(*                                                                         *)
(* A frame is  % length opcode digit...  where the length letter 'a' + n   *)
(* announces n digits.  The buffer check ends a frame whose announced      *)
(* length is never met: 'a' (length 0) needs a full buffer of digits,      *)
(* because the index is compared after it has been incremented.            *)
(***************************************************************************)
EXTENDS Integers

CONSTANTS Bytes,       \* the byte values that arrive on the serial line
          BufferSize,  \* COMMAND_DATA_BUFFER_SIZE
          Junk         \* what the uninitialized command_data[] may hold

ASSUME BytesAssumption == Bytes \subseteq 0..255
ASSUME BufferAssumption == BufferSize \in Nat \ {0}
ASSUME JunkAssumption == Junk \subseteq 0..255 /\ Junk # {}

IO_START == 37                             \* '%'
IsDigit(c)  == c \in 48..57                \* '0'..'9'
IsLower(c)  == c \in 97..122               \* 'a'..'z'
IsLetter(c) == IsLower(c) \/ c \in 65..90  \* or 'A'..'Z'

ParserStates == {"START", "LENGTH", "OPCODE", "DATA", "DONE"}

Slots == 0..(BufferSize - 1)

Parser == [state  : ParserStates,
           length : 0..25,
           code   : 0..255,
           data   : [Slots -> 0..255],
           index  : 0..BufferSize]

\* The locals of ioLoop before the first byte; command_data is uninitialized.
InitialParser(data) ==
    [state |-> "START", length |-> 0, code |-> 0, data |-> data, index |-> 0]

\* Mutation: a '%' inside a broken frame is thrown away with it.
ResyncLosing(p, c) ==
    [p EXCEPT !.state = IF c = IO_START /\ p.state = "START" THEN "LENGTH" ELSE "START"]

\* A byte that does not continue the frame: '%' opens a new one.
Resync(p, c) ==
    [p EXCEPT !.state = IF c = IO_START THEN "LENGTH" ELSE "START"]

OnLength(p, c) ==
    IF IsLower(c) THEN [p EXCEPT !.length = c - 97, !.state = "OPCODE"]
    ELSE Resync(p, c)

\* Mutation: the digit index survives from the frame before.
OnOpcodeStale(p, c) ==
    IF IsLetter(c) THEN [p EXCEPT !.code = c, !.state = "DATA"]
    ELSE Resync(p, c)

OnOpcode(p, c) ==
    IF IsLetter(c) THEN [p EXCEPT !.code = c, !.state = "DATA", !.index = 0]
    ELSE Resync(p, c)

\* Mutation: the end of the buffer does not end the frame.
CompleteUnbounded(p, n) == n = p.length

\* The digits are complete when the announced length or the buffer is reached.
Complete(p, n) == n = p.length \/ n >= BufferSize

OnData(p, c) ==
    IF IsDigit(c)
    THEN [p EXCEPT !.data[p.index] = c - 48,
                   !.index = p.index + 1,
                   !.state = IF Complete(p, p.index + 1) THEN "DONE" ELSE "DATA"]
    ELSE Resync(p, c)

\* The switch over the parser state: START and DONE only look for '%'.
ParserStep(p, c) ==
    CASE p.state = "LENGTH" -> OnLength(p, c)
      [] p.state = "OPCODE" -> OnOpcode(p, c)
      [] p.state = "DATA"   -> OnData(p, c)
      [] OTHER              -> Resync(p, c)
============================================================================
