---------------------------- MODULE MCTimedWaits ---------------------------
(* Two readers of different priority and a third of the lower one.         *)
EXTENDS TimedWaits

CONSTANTS idle, io, main, other

MCIdle == idle
MCThreads == {idle, io, main, other}
MCTimers == {io, main, other}
MCPrio == [t \in MCThreads |-> IF t = idle THEN 0 ELSE IF t = main THEN 2 ELSE 1]
MCTimeouts == {1, 3, 4}
============================================================================
