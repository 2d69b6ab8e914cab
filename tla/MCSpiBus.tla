----------------------------- MODULE MCSpiBus ------------------------------
(* Four threads above the idle thread and two buses: mid can wait for bus  *)
(* 2, with high beside it in the queue, while it has bus 1, for which top  *)
(* waits.                                                                  *)
EXTENDS SpiBus

CONSTANTS idle, low, mid, high, top, none

MCThreads == {idle, low, mid, high, top}
MCIdle == idle
MCNone == none
MCBuses == {1, 2}
MCUses ==
    [t \in MCThreads |-> CASE t = idle -> {} [] t = mid -> {1, 2} [] t = top -> {1} [] OTHER -> {2}]
\* All different, for chains of inheritance, and two of them equal.
MCRealPrios ==
    LET Prio(h) == [t \in MCThreads |->
                       CASE t = idle -> 0 [] t = low -> 1 [] t = mid -> 2 [] t = high -> h [] t = top -> 4]
    IN  {Prio(3), Prio(4)}
============================================================================
