------------------------------- MODULE Policy -------------------------------
(***************************************************************************)
(* policy.Policy.Evaluate over compiled rules.  A CEL expression is reduced *)
(* to the one fact it tests: a rule is                                     *)
(*   [when, effect, always]                                                *)
(* with "when" the fact, or "any" for a catch-all rule, or "broken" for an *)
(* expression that fails at run time.  A policy is [rules, default], and   *)
(* the facts of a request are the set of those that hold of it.            *)
(***************************************************************************)
EXTENDS Naturals, Sequences, FiniteSetsExt

Effects == {"allow", "deny", "audit"}

\* The shape Compile accepts: always_enforce goes with deny only, and the default
\* effect may be any of the three.
Rules == [when : STRING, effect : Effects, always : BOOLEAN]
WellFormed(policy) ==
  /\ policy.default \in Effects /\ policy.rules \in Seq(Rules)
  /\ \A i \in DOMAIN policy.rules :
       policy.rules[i].always => policy.rules[i].effect = "deny"

\* A rule that cannot be evaluated does not match.
Matches(rule, facts) == rule.when = "any" \/ rule.when \in facts

\* The first rule that matches and is not an audit decides.
Evaluate(policy, facts) ==
  LET decisive == {i \in DOMAIN policy.rules :
                     /\ Matches(policy.rules[i], facts)
                     /\ policy.rules[i].effect # "audit"}
  IN  IF decisive = {}
        THEN [effect |-> policy.default, always |-> FALSE]
        ELSE LET rule == policy.rules[Min(decisive)]
             IN  [effect |-> rule.effect, always |-> rule.always]

HasAlwaysEnforce(policy) ==
  \E i \in DOMAIN policy.rules : policy.rules[i].always
=============================================================================
