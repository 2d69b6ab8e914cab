-------------------------- MODULE MCCommandParser --------------------------
(***************************************************************************)
(* A small alphabet with one byte of every kind the parser tells apart:    *)
(* '%', the length letters 'a' (0 digits) and 'b' (1), which are opcodes   *)
(* too, an upper-case opcode and a digit.  'M' reads the whole buffer, 'b' *)
(* one digit, 'a' none: a frame "%bM4" is shorter than its command reads,  *)
(* "%ab444" longer.                                                        *)
(***************************************************************************)
EXTENDS CommandParser

MCBytes == {37, 97, 98, 77, 52}
MCReads == [c \in 0..255 |-> CASE c = 77 -> BufferSize [] c = 98 -> 1 [] OTHER -> 0]
MCJunk == {200}
============================================================================
