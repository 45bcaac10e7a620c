------------------------------ MODULE Gateway ------------------------------
(***************************************************************************)
(* gateway.Gateway as the proxy's two pumps drive it: the client pump runs *)
(* inspectRequest on what the agent sends while the server pump runs       *)
(* inspectToolListing and completeResponse on what the server sends.  They *)
(* share the pending calls, the tool inventory and the detector, each      *)
(* behind a lock of its own that is taken and released several times in    *)
(* one decision; a step below is what happens under one hold of a lock.    *)
(*                                                                         *)
(* Each message is handled once and is its own id.  A call names a tool;   *)
(* targets, arguments and scores are left out, and the facts a rule can    *)
(* test are "changed" (tool_definition_changed) and "burst" (more than     *)
(* Limit calls in the rate window, which the model takes to be the whole   *)
(* session).                                                               *)
(***************************************************************************)
EXTENDS Inventory, Policy, FiniteSets

CONSTANTS
  Calls,        \* tools/call and resources/read
  Lists,        \* tools/list
  Prompts,      \* prompts/get: observed, never gated
  Unreadable,   \* refused before any rule: ambiguous or malformed
  Unparseable,  \* refused before Intercept: jsonrpc.Parse fails
  Silent,       \* those of them that are notifications
  Colliding,    \* ids the server uses for requests of its own
  Policies,     \* the policies a session may run under
  Limit         \* calls in the window beyond which "burst" holds

\* A message is of one kind, and a session has finitely many.
ASSUME GatewayAssumption ==
  /\ Calls \cap (Lists \cup Prompts \cup Unreadable \cup Unparseable) = {}
  /\ Lists \cap (Prompts \cup Unreadable \cup Unparseable) = {}
  /\ Prompts \cap (Unreadable \cup Unparseable) = {}
  /\ IsFiniteSet(Calls) /\ IsFiniteSet(Prompts)
  /\ Silent \subseteq Calls \cup Prompts \cup Unreadable
  /\ Colliding \subseteq Calls \cup Lists
  /\ \A p \in Policies : WellFormed(p)
  /\ Limit \in Nat

Msgs  == Calls \cup Lists \cup Prompts \cup Unreadable \cup Unparseable
HasId(m) == m \notin Silent \cup Unparseable

VARIABLES
  policy, monitor,  \* the configuration, fixed for the session
  \* The agent and the server.
  unsent,    \* messages the agent has not sent
  toolOf,    \* the tool each call sent names
  view,      \* the definition of each tool the agent was last shown
  inbox,     \* sent by the agent, not read by the client pump
  inflight,  \* forwarded, not answered
  outbox,    \* sent by the server, not read by the server pump
  called,    \* colliding ids the server has used
  \* Gateway and detect.Session.
  pending,   \* ids of calls in flight
  listings,  \* ids of tools/list in flight
  denials,   \* messages counted in Gateway.denials
  violations, \* messages counted in Gateway.violations
  observed,  \* calls the detector has recorded
  \* The pumps.
  cpc, cmsg, \* client pump: where it is, the message in its hands
  facts,     \* the facts it has collected about it
  decision,  \* what the policy said of it
  spc, smsg, \* server pump
  \* What the observers were told: the audit log, the telemetry.
  decided,   \* the DecisionEvent of each message
  completed, \* the CompletionEvents
  \* History.
  suspect,   \* calls sent by an agent shown what the first listing did not say
  reached,   \* messages forwarded to the server
  delivered  \* messages whose response was forwarded to the agent

confVars  == <<policy, monitor>>
peerVars  == <<unsent, toolOf, view, inbox, inflight, outbox, called>>
stateVars == <<pending, listings, denials, violations, observed>>
cVars     == <<cpc, cmsg, facts, decision>>
sVars     == <<spc, smsg>>
eventVars == <<decided, completed>>
histVars  == <<suspect, reached, delivered>>
vars == <<inventoryVars, confVars, peerVars, stateVars, cVars, sVars, eventVars, histVars>>

NoEvent == [effect |-> "none", enforced |-> FALSE, changed |-> FALSE]
NoDecision == [effect |-> "none", always |-> FALSE]

Init ==
  /\ InventoryInit
  /\ policy \in Policies /\ monitor \in BOOLEAN
  /\ unsent = Msgs /\ toolOf \in [Calls -> Tools] /\ view = Nothing
  /\ inbox = <<>> /\ inflight = {} /\ outbox = <<>> /\ called = {}
  /\ pending = {} /\ listings = {} /\ denials = {} /\ violations = {} /\ observed = 0
  /\ cpc = "read" /\ cmsg = "none" /\ facts = {} /\ decision = NoDecision
  /\ spc = "read" /\ smsg = <<>>
  /\ decided = [m \in Msgs |-> NoEvent] /\ completed = {}
  /\ suspect = {} /\ reached = {} /\ delivered = {}

-----------------------------------------------------------------------------
(* The agent and the server.                                               *)

AgentSends(m) ==
  /\ m \in unsent /\ inbox = <<>>
  /\ unsent' = unsent \ {m} /\ inbox' = <<m>>
  /\ suspect' = IF /\ m \in Calls
                   /\ view[toolOf[m]] \notin {base[toolOf[m]], Absent}
                  THEN suspect \cup {m} ELSE suspect
  /\ UNCHANGED <<toolOf, view, inflight, outbox, called, reached, delivered>>
  /\ UNCHANGED <<inventoryVars, confVars, stateVars, cVars, sVars, eventVars>>

\* A server message is <<kind, id, listing>>, a listing or Nothing.
ServerSends(kind, m, listing) ==
  /\ outbox = <<>> /\ outbox' = <<<<kind, m, listing>>>>
  /\ UNCHANGED <<unsent, toolOf, view, inbox>>
  /\ UNCHANGED <<inventoryVars, confVars, stateVars, cVars, sVars, eventVars, histVars>>

\* A server may change what it advertises from one listing to the next.
ServerAnswers(m) ==
  /\ m \in inflight /\ HasId(m)
  /\ inflight' = inflight \ {m} /\ UNCHANGED called
  /\ \/ m \in Lists /\ \E listing \in Listings : ServerSends("listing", m, listing)
     \/ m \notin Lists /\ ServerSends("result", m, Nothing)
     \/ ServerSends("error", m, Nothing)

ServerCalls(m) ==
  /\ m \in Colliding \ called /\ called' = called \cup {m}
  /\ ServerSends("call", m, Nothing) /\ UNCHANGED inflight

-----------------------------------------------------------------------------
(* The client pump: inspectRequest.                                        *)

\* Variant: monitor mode forwards whatever it cannot read.
RefusesUnreadInEnforce == ~monitor
Unenforced(always) == monitor /\ ~always

\* RejectUnparseable, and refuseUnreadable: what cannot be read cannot be
\* shown not to break an always_enforce rule.
RefusesUnread == ~Unenforced(HasAlwaysEnforce(policy))

GRead ==
  /\ cpc = "read" /\ inbox # <<>>
  /\ cmsg' = Head(inbox) /\ inbox' = Tail(inbox)
  /\ cpc' = CASE cmsg' \in Calls -> "observe"
              [] cmsg' \in Lists -> "track"
              [] cmsg' \in Prompts -> "prompt"
              [] OTHER           -> "unread"
  /\ UNCHANGED <<facts, decision, unsent, toolOf, view, inflight, outbox, called>>
  /\ UNCHANGED <<inventoryVars, confVars, stateVars, sVars, eventVars, histVars>>

\* methodPromptsGet.
ObservePrompt ==
  /\ cpc = "prompt"
  /\ observed' = observed + 1 /\ cpc' = "forward"
  /\ UNCHANGED <<pending, listings, denials, violations, cmsg, facts, decision>>
  /\ UNCHANGED <<inventoryVars, confVars, peerVars, sVars, eventVars, histVars>>

TrackListing ==
  /\ cpc = "track"
  /\ listings' = listings \cup {cmsg} /\ cpc' = "forward"
  /\ UNCHANGED <<pending, denials, violations, observed, cmsg, facts, decision>>
  /\ UNCHANGED <<inventoryVars, confVars, peerVars, sVars, eventVars, histVars>>

Record(m, effect, enforced, drifted) ==
  /\ decided' = [decided EXCEPT ![m] =
                   [effect |-> effect, enforced |-> enforced, changed |-> drifted]]
  /\ UNCHANGED completed

\* Variant: a violation is counted as a denial.
CountAllDenied(m, enforced) == denials' = denials \cup {m} /\ UNCHANGED violations

\* recordDenial or recordViolation.
CountDenied(m, enforced) ==
  /\ denials' = IF enforced THEN denials \cup {m} ELSE denials
  /\ violations' = IF enforced THEN violations ELSE violations \cup {m}

\* refuseUnreadable and RecordUnparseable.  A refused notification is dropped
\* and a refused request is answered: neither goes upstream.
RefuseUnread ==
  /\ cpc = "unread"
  /\ Record(cmsg, "deny", RefusesUnread, FALSE)
  /\ CountDenied(cmsg, RefusesUnread)
  /\ cpc' = IF RefusesUnread THEN "read" ELSE "forward"
  /\ cmsg' = IF RefusesUnread THEN "none" ELSE cmsg
  /\ UNCHANGED <<pending, listings, observed, facts, decision>>
  /\ UNCHANGED <<inventoryVars, confVars, peerVars, sVars, histVars>>

\* Variant: the call is counted before its decision and again after it.
ObserveCallTwice ==
  /\ cpc = "observe"
  /\ observed' = observed + 2 /\ cpc' = "assess"
  /\ UNCHANGED <<pending, listings, denials, violations, cmsg, facts, decision>>
  /\ UNCHANGED <<inventoryVars, confVars, peerVars, sVars, eventVars, histVars>>

ObserveCall ==
  /\ cpc = "observe"
  /\ observed' = observed + 1 /\ cpc' = "assess"
  /\ UNCHANGED <<pending, listings, denials, violations, cmsg, facts, decision>>
  /\ UNCHANGED <<inventoryVars, confVars, peerVars, sVars, eventVars, histVars>>

\* Variant: the facts leave out the call being evaluated.
AssessBehind ==
  /\ cpc = "assess"
  /\ facts' = IF observed > Limit + 1 THEN {"burst"} ELSE {}
  /\ cpc' = "evaluate"
  /\ UNCHANGED <<cmsg, decision>>
  /\ UNCHANGED <<inventoryVars, confVars, peerVars, stateVars, sVars, eventVars, histVars>>

\* assess, scopeReport, distinctTargets, countsInWindow.
Assess ==
  /\ cpc = "assess"
  /\ facts' = IF observed > Limit THEN {"burst"} ELSE {}
  /\ cpc' = "evaluate"
  /\ UNCHANGED <<cmsg, decision>>
  /\ UNCHANGED <<inventoryVars, confVars, peerVars, stateVars, sVars, eventVars, histVars>>

\* Inventory.Changed, then the rules.
EvaluateCall ==
  /\ cpc = "evaluate"
  /\ facts' = IF toolOf[cmsg] \in changed THEN facts \cup {"changed"} ELSE facts
  /\ decision' = Evaluate(policy, facts')
  /\ cpc' = "report"
  /\ UNCHANGED cmsg
  /\ UNCHANGED <<inventoryVars, confVars, peerVars, stateVars, sVars, eventVars, histVars>>

\* Observer.ToolCallDecided.  The event asks the inventory again.
ReportDecision ==
  /\ cpc = "report"
  /\ Record(cmsg, decision.effect,
            decision.effect = "deny" /\ ~Unenforced(decision.always),
            toolOf[cmsg] \in changed)
  /\ cpc' = "act"
  /\ UNCHANGED <<cmsg, facts, decision>>
  /\ UNCHANGED <<inventoryVars, confVars, peerVars, stateVars, sVars, histVars>>

\* Variant: only what monitor mode lets through is correlated.
TrackPendingViolations(m) ==
  pending' = pending \cup {x \in {m} : HasId(x) /\ decision.effect = "deny"}

\* trackPending: by id, so never a notification.
TrackPending(m) == pending' = pending \cup {x \in {m} : HasId(x)}

\* The switch at the end of inspectCall.
Deny ==
  /\ cpc = "act" /\ decision.effect = "deny" /\ ~Unenforced(decision.always)
  /\ CountDenied(cmsg, TRUE)
  /\ cpc' = "read" /\ cmsg' = "none" /\ facts' = {} /\ decision' = NoDecision
  /\ UNCHANGED <<pending, listings, observed>>
  /\ UNCHANGED <<inventoryVars, confVars, peerVars, sVars, eventVars, histVars>>

Allow ==
  /\ cpc = "act"
  /\ \/ decision.effect # "deny" /\ UNCHANGED <<denials, violations>>
     \/ /\ decision.effect = "deny" /\ Unenforced(decision.always)
        /\ CountDenied(cmsg, FALSE)
  /\ TrackPending(cmsg)
  /\ cpc' = "forward" /\ facts' = {} /\ decision' = NoDecision
  /\ UNCHANGED <<cmsg, listings, observed>>
  /\ UNCHANGED <<inventoryVars, confVars, peerVars, sVars, eventVars, histVars>>

\* What Session.handle does with Forward.
ForwardUp ==
  /\ cpc = "forward"
  /\ inflight' = inflight \cup {cmsg} /\ reached' = reached \cup {cmsg}
  /\ cpc' = "read" /\ cmsg' = "none"
  /\ UNCHANGED <<facts, decision, unsent, toolOf, view, inbox, outbox, called>>
  /\ UNCHANGED <<inventoryVars, confVars, stateVars, sVars, eventVars, suspect, delivered>>

-----------------------------------------------------------------------------
(* The server pump: inspectToolListing, completeResponse, then Forward.    *)

SRead ==
  /\ spc = "read" /\ outbox # <<>>
  /\ smsg' = Head(outbox) /\ outbox' = Tail(outbox) /\ spc' = "listing"
  /\ UNCHANGED <<unsent, toolOf, view, inbox, inflight, called>>
  /\ UNCHANGED <<inventoryVars, confVars, stateVars, cVars, eventVars, histVars>>

\* Variant: whatever carries the id of a tools/list ends the wait for it.
InspectAnyMessage ==
  /\ spc = "listing" /\ spc' = "complete"
  /\ listings' = listings \ {smsg[2]}
  /\ IF smsg[1] = "listing" /\ smsg[2] \in listings
       THEN Observe(smsg[3]) ELSE UNCHANGED inventoryVars
  /\ UNCHANGED <<pending, denials, violations, observed, smsg>>
  /\ UNCHANGED <<confVars, peerVars, cVars, eventVars, histVars>>

\* Only a message with a result can be a listing.
InspectListing ==
  /\ spc = "listing" /\ spc' = "complete"
  /\ listings' = IF smsg[1] \in {"listing", "result"}
                   THEN listings \ {smsg[2]} ELSE listings
  /\ IF smsg[1] = "listing" /\ smsg[2] \in listings
       THEN Observe(smsg[3]) ELSE UNCHANGED inventoryVars
  /\ UNCHANGED <<pending, denials, violations, observed, smsg>>
  /\ UNCHANGED <<confVars, peerVars, cVars, eventVars, histVars>>

\* Whatever message carries a pending id completes it.
Completes(message) == message[2] \in pending

CompleteResponse ==
  /\ spc = "complete" /\ spc' = "forward"
  /\ pending' = pending \ {smsg[2]}
  /\ IF Completes(smsg)
       THEN /\ observed' = IF smsg[1] = "error" THEN observed + 1 ELSE observed
            /\ completed' = completed \cup {<<smsg[1], smsg[2]>>}
       ELSE UNCHANGED <<observed, completed>>
  /\ UNCHANGED <<listings, denials, violations, smsg, decided>>
  /\ UNCHANGED <<inventoryVars, confVars, peerVars, cVars, histVars>>

ForwardDown ==
  /\ spc = "forward" /\ spc' = "read" /\ smsg' = <<>>
  /\ view' = IF smsg[1] = "listing" THEN smsg[3] ELSE view
  /\ delivered' = IF smsg[1] = "call" THEN delivered ELSE delivered \cup {smsg[2]}
  /\ UNCHANGED <<unsent, toolOf, inbox, inflight, outbox, called, suspect, reached>>
  /\ UNCHANGED <<inventoryVars, confVars, stateVars, cVars, eventVars>>

-----------------------------------------------------------------------------
Agent  == \E m \in Msgs : AgentSends(m)
Server == \E m \in Msgs : ServerAnswers(m) \/ ServerCalls(m)
ClientPump ==
  \/ GRead \/ TrackListing \/ ObservePrompt \/ RefuseUnread \/ ObserveCall \/ Assess
  \/ EvaluateCall \/ ReportDecision \/ Deny \/ Allow \/ ForwardUp
ServerPump == SRead \/ InspectListing \/ CompleteResponse \/ ForwardDown

Next == Agent \/ Server \/ ClientPump \/ ServerPump
Spec == Init /\ [][Next]_vars

-----------------------------------------------------------------------------
TypeOK ==
  /\ InventoryType
  /\ policy \in Policies /\ monitor \in BOOLEAN
  /\ view \in Listings
  /\ unsent \subseteq Msgs /\ inflight \subseteq Msgs /\ called \subseteq Colliding
  /\ pending \subseteq Calls /\ listings \subseteq Lists
  /\ denials \subseteq Msgs /\ violations \subseteq Msgs
  /\ observed \in 0 .. 2 * Cardinality(Calls) + Cardinality(Prompts)
  /\ cpc \in {"read", "track", "prompt", "unread", "observe", "assess",
              "evaluate", "report", "act", "forward"}
  /\ spc \in {"read", "listing", "complete", "forward"}
  /\ facts \subseteq {"burst", "changed"}
  /\ \A m \in Msgs : decided[m].effect \in {"none"} \cup Effects
  /\ suspect \subseteq Calls /\ reached \subseteq Msgs /\ delivered \subseteq Msgs

\* policy stops a request of which the facts hold, in the session's mode.
Stops(fs) ==
  LET d == Evaluate(policy, fs) IN d.effect = "deny" /\ ~Unenforced(d.always)

\* The rug pull: an agent that has been shown a definition its server did not
\* give in the first listing, and then calls the tool, is stopped by a policy
\* that denies changed tools.  inspectToolListing has to have flagged the tool
\* before the listing is forwarded, however the two pumps interleave.
RugPullStopped ==
  Stops({"changed"}) /\ Stops({"changed", "burst"}) => suspect \cap reached = {}

\* A rate rule refuses the call that completes the burst, not the one after:
\* no more than Limit calls ever reach the server.
BurstBounded ==
  Stops({"burst"}) /\ Stops({"changed", "burst"})
    => Cardinality(reached \cap Calls) <= Limit

\* Once the client pump is done with a message, the report's counters, the
\* decision events and what reached the server tell one story.
LedgerAgrees ==
  cpc = "read" =>
    /\ denials = {m \in Msgs : decided[m].effect = "deny" /\ decided[m].enforced}
    /\ violations = {m \in Msgs : decided[m].effect = "deny" /\ ~decided[m].enforced}
    /\ denials \cap reached = {} /\ violations \subseteq reached

\* Under a policy with an always_enforce rule, what chokepoint cannot read does
\* not reach the server in monitor mode either.
UnreadNeverPasses ==
  ~monitor \/ HasAlwaysEnforce(policy)
    => reached \cap (Unreadable \cup Unparseable) = {}

\* A call whose response has been forwarded to the agent was completed in the
\* observers' records, exactly once, as it was answered, and after its decision.
CompletedOnce ==
  /\ \A c \in completed : c[2] \in Calls /\ decided[c[2]].effect # "none"
  /\ \A m \in delivered \cap Calls :
       Cardinality({c \in completed : c[2] = m}) = 1

\* "completeResponse attributes a response to the request that caused it": what
\* completes a call is an answer to it.
CompletionIsAnswer == \A c \in completed : c[1] # "call"

\* The attribute tool_definition_changed is recorded on every decision because
\* "this tool was verified unchanged at the moment of the call" is itself the
\* evidence: an event saying that the tool had changed is not the event of a
\* call let through by a policy that stops calls to changed tools.
EvidenceMatchesDecision ==
  \A m \in Calls :
    decided[m].changed /\ Stops({"changed"}) /\ Stops({"changed", "burst"})
      => decided[m].effect = "deny"
=============================================================================
