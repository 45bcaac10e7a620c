----------------------------- MODULE MCProcess -----------------------------
(***************************************************************************)
(* A small instance of Process: one request of the client, and one of the  *)
(* server's own under the same id.                                         *)
(***************************************************************************)
EXTENDS Process

CONSTANTS r1, call

MCCallId == [c \in {call} |-> r1]
=============================================================================
