--------------------------- MODULE AtomicControl ---------------------------
(***************************************************************************)
(* What the IO thread promises, as if every command were executed in one   *)
(* step: received commands take effect one at a time, whole, in the order  *)
(* of the input queue, and IO_FREQ silent waits in a row cut the throttle. *)
(***************************************************************************)
EXTENDS Commands, Sequences

CONSTANTS IO_FREQ,  \* the number of expired waits that trip the failsafe
          InCap     \* the capacity of the serial input queue

VARIABLES inq,      \* received and not yet executed
          drive,    \* the effect of everything executed so far
          silence   \* waits expired in a row, up to IO_FREQ

avars == <<inq, drive, silence>>

Init == inq = <<>> /\ drive = InitialDrive /\ silence = 0

\* A byte arrives; a full queue drops it.
Receive(e) ==
    /\ inq' = IF Len(inq) < InCap THEN Append(inq, e) ELSE inq
    /\ UNCHANGED <<drive, silence>>

\* The oldest byte takes effect.
Execute ==
    /\ inq # <<>>
    /\ inq' = Tail(inq)
    /\ drive' = Effect(drive, Head(inq))
    /\ silence' = 0

\* A wait for a byte expires.
Expire ==
    /\ silence' = IF silence < IO_FREQ THEN silence + 1 ELSE silence
    /\ drive' = IF silence' = IO_FREQ THEN [drive EXCEPT !.throttle = 0] ELSE drive
    /\ UNCHANGED inq

Next == (\E e \in Events : Receive(e)) \/ Execute \/ Expire

Spec == Init /\ [][Next]_avars
============================================================================
