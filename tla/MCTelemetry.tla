---------------------------- MODULE MCTelemetry ----------------------------
(***************************************************************************)
(* Three requests, two under one id, and a notification: a span may be     *)
(* swept while another is answered and a third is decided.                 *)
(***************************************************************************)
EXTENDS Telemetry

CONSTANTS c1, c2, c3, n, i1, i2

MCIdOf == [c \in Calls |->
             IF c = n THEN NoId ELSE IF c = c2 THEN i2 ELSE i1]

\* Of the two calls that share an id one may be unreadable and one refused.
MCVerdicts ==
  [c \in Calls |-> CASE c = c1 -> {"allow", "unread"}
                     [] c = c3 -> {"allow", "deny"}
                     [] OTHER  -> {"allow"}]
MCBreaches == [c \in Calls |-> {"allow", "breach"}]
=============================================================================
