--------------------------- MODULE MCProxySession ---------------------------
(***************************************************************************)
(* Small instances of ProxySession.  Two requests are the least with which *)
(* one answer can come while another is awaited; the server makes one call *)
(* of its own, whose id is also the id of a request of the client.         *)
(***************************************************************************)
EXTENDS ProxySession

CONSTANTS r1, r2, call

MCCallId == [c \in {call} |-> r1]
=============================================================================
