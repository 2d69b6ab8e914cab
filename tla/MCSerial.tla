----------------------------- MODULE MCSerial ------------------------------
(* Two bytes, to be told apart on the way out and on the way in.           *)
EXTENDS Serial

CONSTANTS a, b, none

MCOne == {a}
MCTwo == {a, b}
MCStale == none
============================================================================
