----------------------------- MODULE MCGateway -----------------------------
(***************************************************************************)
(* Small instances of Gateway: two listings, so that a definition can      *)
(* change between them, and two calls, so that a limit of one is reached.  *)
(***************************************************************************)
EXTENDS Gateway, TLC

Rule(when, effect, always) == [when |-> when, effect |-> effect, always |-> always]

\* Everything is audited, which lets it through; a rule set of each kind, with
\* one that fails at run time and one that only audits; and deny by default.
MCPolicies == {
  [rules |-> <<>>, default |-> "audit"],
  [rules |-> <<Rule("broken", "deny", TRUE), Rule("any", "audit", FALSE),
               Rule("changed", "deny", TRUE), Rule("burst", "deny", FALSE)>>,
   default |-> "allow"],
  [rules |-> <<Rule("changed", "deny", FALSE), Rule("burst", "allow", FALSE)>>,
   default |-> "deny"]}

\* One policy, for the runs about what the records say.
MCDriftPolicies == {[rules |-> <<Rule("changed", "deny", FALSE)>>, default |-> "allow"]}

\* The calls are alike: one tool, and no id of theirs collides.  Definitions are
\* only ever compared with each other.
GatewaySymmetry == Permutations(Calls) \cup Permutations(Defs)
=============================================================================
