------------------------------- MODULE Relay -------------------------------
(***************************************************************************)
(* What a proxied session promises the client about each of its requests,  *)
(* whatever goroutines, pipes and timers stand between it and the server:  *)
(*                                                                         *)
(*   - a request is either refused by the proxy or sent upstream, never    *)
(*     both, and gets at most one answer;                                  *)
(*   - the server is told that its input has ended only once everything    *)
(*     sent upstream has been answered, or the proxy is excused (it waited *)
(*     long enough, or the session is being torn down);                    *)
(*   - a session that ended its input unexcused and ended cleanly has      *)
(*     delivered every answer it received.                                 *)
(***************************************************************************)
CONSTANT Requests

VARIABLES
  phase,    \* where each request has got to
  eoi,      \* the server has been told that its input has ended
  excused,  \* the proxy no longer owes an orderly end
  outcome   \* how the session ended

vars == <<phase, eoi, excused, outcome>>

Init ==
  /\ phase = [r \in Requests |-> "unseen"]
  /\ eoi = FALSE /\ excused = FALSE /\ outcome = "none"

Move(r, from, to) ==
  /\ phase[r] = from
  /\ phase' = [phase EXCEPT ![r] = to]
  /\ UNCHANGED <<eoi, excused, outcome>>

Refuse(r)  == ~eoi /\ Move(r, "unseen", "refused")
Forward(r) == ~eoi /\ Move(r, "unseen", "upstream")
Settle(r)  == Move(r, "upstream", "settled")
Deliver(r) == outcome = "none" /\ Move(r, "settled", "answered")

Excuse == ~eoi /\ excused' = TRUE /\ UNCHANGED <<phase, eoi, outcome>>

EndInput ==
  /\ excused \/ \A r \in Requests : phase[r] # "upstream"
  /\ eoi' = TRUE
  /\ UNCHANGED <<phase, excused, outcome>>

Fail == outcome = "none" /\ outcome' = "error" /\ UNCHANGED <<phase, eoi, excused>>

End ==
  /\ outcome = "none" /\ outcome' = "nil"
  /\ (eoi /\ ~excused) => \A r \in Requests : phase[r] # "settled"
  /\ UNCHANGED <<phase, eoi, excused>>

Next ==
  \/ \E r \in Requests : Refuse(r) \/ Forward(r) \/ Settle(r) \/ Deliver(r)
  \/ Excuse \/ EndInput \/ Fail \/ End

Spec == Init /\ [][Next]_vars
=============================================================================
