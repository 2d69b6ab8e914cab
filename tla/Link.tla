-------------------------------- MODULE Link -------------------------------
(***************************************************************************)
(* What the serial driver promises its user and the peer: bytes written    *)
(* reach the peer, each once and in their order; bytes read are bytes the  *)
(* peer sent, in their order and none twice.  A byte is taken from the     *)
(* line once, or missed; one that has been taken is not lost.  A byte goes *)
(* out only for a call of the user's.                                      *)
(***************************************************************************)
EXTENDS Sequences

CONSTANTS Written,   \* the bytes that can be written
          Received   \* the bytes that can arrive

VARIABLES user,   \* what the user does: "run", or its call, "get" or "put"
          out,    \* bytes written that have not left yet
          wire,   \* the byte that left last
          line,   \* the byte that has arrived, until it is taken or missed
          in,     \* bytes taken that have not been read yet
          got     \* the byte that was read last

Init ==
    /\ user = "run"
    /\ out = <<>> /\ line = <<>> /\ in = <<>>
    /\ wire \in Written /\ got \in Received

Call ==
    /\ user = "run" /\ user' \in {"get", "put"}
    /\ UNCHANGED <<out, wire, line, in, got>>

Write(b) ==
    /\ user = "put" /\ user' = "run"
    /\ out' = Append(out, b)
    /\ UNCHANGED <<wire, line, in, got>>

Leave ==
    /\ out # <<>>
    /\ wire' = Head(out) /\ out' = Tail(out)
    /\ UNCHANGED <<user, line, in, got>>

Arrive(b) ==
    /\ line = <<>> /\ line' = <<b>>
    /\ UNCHANGED <<user, out, wire, in, got>>

Take ==
    /\ line # <<>> /\ line' = <<>>
    /\ in' = in \o line
    /\ UNCHANGED <<user, out, wire, got>>

Miss ==
    /\ line # <<>> /\ line' = <<>>
    /\ UNCHANGED <<user, out, wire, in, got>>

Read ==
    /\ user = "get" /\ user' = "run"
    /\ in # <<>>
    /\ got' = Head(in) /\ in' = Tail(in)
    /\ UNCHANGED <<out, wire, line>>

\* The time of a call to read is over.
GiveUp ==
    /\ user = "get" /\ user' = "run"
    /\ UNCHANGED <<out, wire, line, in, got>>

Next ==
    \/ Call \/ Leave \/ Take \/ Miss \/ Read \/ GiveUp
    \/ (\E b \in Written : Write(b)) \/ (\E b \in Received : Arrive(b))

Spec == Init /\ [][Next]_<<user, out, wire, line, in, got>>
============================================================================
