------------------------------- MODULE MCBoot ------------------------------
(* Few readings over a bus that can disturb them; a diagnostic line longer *)
(* than the output queue.                                                  *)
EXTENDS Boot

MCRest == {-8388608, -3, 2, 8388607}
MCTransient == {-8388608, 70000}
MCTicks == {0, 1, 2, 3}
MCErrors == {1, 64, 127, 129, 255}
MCUndefined == {0, -1}
============================================================================
