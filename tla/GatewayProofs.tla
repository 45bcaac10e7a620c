---------------------------- MODULE GatewayProofs ----------------------------
(***************************************************************************)
(* What the gateway promises of every session: any tools, messages, rules  *)
(* and limit, in both modes, however the two pumps interleave.             *)
(***************************************************************************)
EXTENDS Gateway, FiniteSetTheorems, MinMax

-----------------------------------------------------------------------------
(* The registry flags exactly the tools that have drifted from the first   *)
(* listing, over any number of listings, tools and definitions.            *)

\* What ChangedIsDrift rests on: the definition a tool is compared with is the
\* one of the first listing if it was in it, is one that was advertised, and
\* belongs to a tool that is flagged already when the first listing lacked it.
BaselineInv ==
  /\ ~listed => first = Nothing /\ base = Nothing /\ advertised = {} /\ changed = {}
  /\ \A t \in Tools : base[t] # Absent => first[t] = base[t]
  /\ \A t \in Tools : first[t] # Absent /\ base[t] = Absent => t \in changed

DriftInv == InventoryType /\ BaselineInv /\ ChangedIsDrift

\* The pairs a listing adds are its own.
LEMMA PairsOfListing ==
  ASSUME NEW listing \in Listings
  PROVE  /\ Pairs(listing) \subseteq Tools \X Defs
         /\ \A t \in Tools, d \in Defs : <<t, d>> \in Pairs(listing) <=> listing[t] = d
  <1>1. \A t \in Tools : listing[t] \in Defs \cup {Absent}
    BY DEF Listings
  <1> QED BY <1>1, InventoryAssumption DEF Pairs, Advertised

\* The first listing flags nothing: everything in it is what it says it is.
LEMMA BaselineStep ==
  ASSUME DriftInv, NEW listing \in Listings, Baseline(listing)
  PROVE  DriftInv'
  <1> USE DEF DriftInv
  <1>1. /\ first' = listing /\ base' = listing /\ listed' = TRUE
        /\ changed' = {} /\ advertised' = Pairs(listing) /\ removed' = removed
    BY DEF Baseline, BaselineInv
  <1>2. InventoryType'
    BY <1>1, PairsOfListing DEF InventoryType
  <1>3. BaselineInv'
    BY <1>1 DEF BaselineInv
  <1>4. ChangedIsDrift'
    BY <1>1, PairsOfListing DEF ChangedIsDrift
  <1> QED BY <1>2, <1>3, <1>4

\* A later listing flags what it is the first to advertise and what differs
\* from its first definition, which together is the drift it brings.
LEMMA CompareStep ==
  ASSUME DriftInv, NEW listing \in Listings, Compare(listing)
  PROVE  DriftInv'
  <1> USE DEF DriftInv
  <1>1. \A t \in Tools : /\ listing[t] \in Defs \cup {Absent}
                         /\ first[t] \in Defs \cup {Absent}
                         /\ base[t] \in Defs \cup {Absent}
    BY DEF Listings, InventoryType
  <1>2. /\ listed' = listed /\ base' = base /\ listed
        /\ advertised' = advertised \cup Pairs(listing)
        /\ removed' = removed \cup (Advertised(first) \ Advertised(listing))
    BY DEF Compare
  <1>3. \A t \in Tools :
          first'[t] = IF first[t] = Absent THEN listing[t] ELSE first[t]
    BY DEF Compare
  <1>4. \A t \in Tools :
          t \in changed' <=> t \in changed \/ (listing[t] # Absent /\ first[t] # listing[t])
    BY DEF Compare, Advertised
  <1>5. first' \in Listings
    BY <1>1 DEF Compare, Listings
  <1>6. changed' \subseteq Tools
    BY DEF Compare, Advertised, InventoryType
  <1>7. InventoryType'
    <2>1. removed' \subseteq Tools
      BY <1>2 DEF Advertised, InventoryType
    <2> QED BY <2>1, <1>2, <1>5, <1>6, PairsOfListing DEF InventoryType
  <1>8. BaselineInv'
    BY <1>1, <1>2, <1>3, <1>4, InventoryAssumption DEF BaselineInv
  <1>9. ChangedIsDrift'
    <2>1. ASSUME NEW t \in Tools
          PROVE  t \in changed'
                   <=> \E d \in Defs : <<t, d>> \in advertised' /\ base'[t] # d
      <3>1. t \in changed <=> \E d \in Defs : <<t, d>> \in advertised /\ base[t] # d
        BY DEF ChangedIsDrift
      <3>2. \A d \in Defs : <<t, d>> \in advertised'
                              <=> <<t, d>> \in advertised \/ listing[t] = d
        BY <1>2, PairsOfListing
      <3>3. CASE listing[t] = Absent
        BY <3>1, <3>2, <3>3, <1>2, <1>4, InventoryAssumption
      <3>4. CASE listing[t] # Absent
        <4>1. listing[t] \in Defs
          BY <3>4, <1>1
        <4>2. t \in changed' <=> t \in changed \/ base[t] # listing[t]
          BY <3>4, <1>4 DEF BaselineInv
        <4> QED BY <4>1, <4>2, <3>1, <3>2, <1>2
      <3> QED BY <3>3, <3>4
    <2> QED BY <2>1, <1>6 DEF ChangedIsDrift
  <1> QED BY <1>7, <1>8, <1>9

LEMMA DriftInit == InventoryInit => DriftInv
  BY DEF InventoryInit, DriftInv, InventoryType, BaselineInv, ChangedIsDrift,
         Listings, Nothing

LEMMA DriftNext ==
  ASSUME DriftInv, [\E listing \in Listings : Observe(listing)]_inventoryVars
  PROVE  DriftInv'
  <1>1. ASSUME NEW listing \in Listings, Observe(listing)
        PROVE  DriftInv'
    BY <1>1, BaselineStep, CompareStep DEF Observe
  <1>2. CASE UNCHANGED inventoryVars
    BY <1>2 DEF inventoryVars, DriftInv, InventoryType, BaselineInv,
                ChangedIsDrift, Advertised
  <1> QED BY <1>1, <1>2

\* Registry.Changed cannot be laundered: over every history of listings, the
\* flagged tools are exactly those advertised otherwise than at first.
THEOREM DriftCorrect == InventorySpec => []ChangedIsDrift
  <1>1. DriftInv /\ [\E listing \in Listings : Observe(listing)]_inventoryVars => DriftInv'
    BY DriftNext
  <1>2. DriftInv => ChangedIsDrift
    BY DEF DriftInv
  <1> QED BY <1>1, <1>2, DriftInit, PTL DEF InventorySpec

-----------------------------------------------------------------------------
(* The invariant.                                                          *)

ServerMsgs == {"listing", "result", "error", "call"} \X Msgs \X Listings
Events == [effect : {"none"} \cup Effects, enforced : BOOLEAN, changed : BOOLEAN]
Decisions == [effect : {"none"} \cup Effects, always : BOOLEAN]

\* Each pump has at most one message before it and one in its hands.
ClientType ==
  /\ view \in Listings /\ toolOf \in [Calls -> Tools]
  /\ unsent \subseteq Msgs
  /\ inbox = <<>> \/ \E m \in Msgs : inbox = <<m>>
  /\ cpc # "read" => cmsg \in Msgs
  /\ cpc \in {"observe", "assess", "evaluate", "report", "act"} => cmsg \in Calls
  /\ cpc = "track" => cmsg \in Lists
  /\ cpc = "prompt" => cmsg \in Prompts
  /\ cpc = "unread" => cmsg \in Unreadable \cup Unparseable
  /\ cpc \in {"read", "track", "prompt", "unread", "observe", "assess",
              "evaluate", "report", "act", "forward"}
  /\ facts \subseteq {"burst", "changed"}
  /\ decision \in Decisions
  /\ cpc \in {"report", "act"} => decision.effect # "none"

ServerType ==
  /\ inflight \subseteq Msgs /\ called \subseteq Colliding
  /\ outbox = <<>> \/ \E x \in ServerMsgs : outbox = <<x>>
  /\ spc # "read" => smsg \in ServerMsgs
  /\ spc \in {"read", "listing", "complete", "forward"}

StateType ==
  /\ policy \in Policies /\ monitor \in BOOLEAN
  /\ pending \subseteq Calls /\ listings \subseteq Lists
  /\ denials \subseteq Msgs /\ violations \subseteq Msgs
  /\ decided \in [Msgs -> Events]
  /\ completed \subseteq {"listing", "result", "error", "call"} \X Calls
  /\ suspect \subseteq Calls /\ reached \subseteq Msgs /\ delivered \subseteq Msgs

GatewayType == ClientType /\ ServerType /\ StateType

\* A message is in one place: not sent, before the client pump, in its hands,
\* or forwarded; and forwarded it is with the server or on its way back.
Held(m) == cpc # "read" /\ cmsg = m
IsAnswer(x) == x[1] # "call"
PlaceInv ==
  /\ unsent \cap reached = {}
  /\ \A m \in Msgs : inbox = <<m>> => m \notin unsent \cup reached
  /\ \A m \in Msgs : Held(m) => m \notin unsent \cup reached /\ inbox # <<m>>
  /\ inflight \subseteq reached
  /\ \A x \in ServerMsgs : outbox = <<x>> /\ IsAnswer(x) =>
       x[2] \in reached \ inflight /\ HasId(x[2])
  /\ spc # "read" /\ IsAnswer(smsg) =>
       smsg[2] \in reached \ inflight /\ HasId(smsg[2])
  /\ \A x \in ServerMsgs : outbox = <<x>> /\ IsAnswer(x) /\ spc # "read" /\ IsAnswer(smsg) =>
       x[2] # smsg[2]
  /\ delivered \subseteq reached

\* What the agent has been shown, or is about to be, differs from the first
\* listing only in tools that are flagged: every listing the server owes is
\* still waited for, so none is forwarded without having been observed.
ShownInv ==
  /\ \A m \in Lists : m \in inflight \/ (cpc = "forward" /\ cmsg = m) => m \in listings
  /\ \A x \in ServerMsgs : outbox = <<x>> /\ x[1] = "listing" => x[2] \in listings
  /\ spc = "listing" /\ smsg[1] = "listing" => smsg[2] \in listings
  /\ \A t \in Tools : view[t] \notin {base[t], Absent} => t \in changed
  /\ spc \in {"complete", "forward"} /\ smsg[1] = "listing" =>
       \A t \in Tools : smsg[3][t] \notin {base[t], Absent} => t \in changed
  /\ \A m \in suspect : toolOf[m] \in changed /\ m \notin unsent

\* Of a call that is being forwarded, that it was not to be stopped.
StopsDecision == decision.effect = "deny" /\ ~Unenforced(decision.always)
RugPullInv ==
  Stops({"changed"}) /\ Stops({"changed", "burst"}) =>
    /\ suspect \cap reached = {}
    /\ cpc \in {"report", "act"} /\ cmsg \in suspect => StopsDecision
    /\ cpc = "forward" => cmsg \notin suspect

\* The calls the detector has recorded, and why.
ObservedCalls ==
  {m \in Calls : m \notin unsent /\ inbox # <<m>> /\ ~(cpc = "observe" /\ cmsg = m)}
ObservedPrompts ==
  {m \in Prompts : m \notin unsent /\ inbox # <<m>> /\ ~(cpc = "prompt" /\ cmsg = m)}
FailedCalls == {m \in Calls : <<"error", m>> \in completed}
CountInv ==
  observed = Cardinality(ObservedCalls) + Cardinality(ObservedPrompts)
               + Cardinality(FailedCalls)

\* A call that is not to be stopped was within the limit when it was assessed.
Passing ==
  \/ cpc = "evaluate" /\ "burst" \notin facts
  \/ cpc \in {"report", "act"} /\ ~StopsDecision
  \/ cpc = "forward"
BurstInv ==
  Stops({"burst"}) /\ Stops({"changed", "burst"}) =>
    /\ Cardinality(reached \cap Calls) <= Limit
    /\ Passing => Cardinality((reached \cup {cmsg}) \cap Calls) <= Limit

\* The ledger at every step: a call is entered in it once its event is out, and
\* counted when the pump has acted on it.
Acting(m) == cpc = "act" /\ cmsg = m
Undecided(m) ==
  \/ m \in unsent \/ inbox = <<m>>
  \/ /\ cpc \in {"track", "prompt", "unread", "observe", "assess", "evaluate", "report"}
     /\ cmsg = m
LedgerInv ==
  /\ \A m \in Msgs :
       /\ m \in denials <=>
            decided[m].effect = "deny" /\ decided[m].enforced /\ ~Acting(m)
       /\ m \in violations <=>
            decided[m].effect = "deny" /\ ~decided[m].enforced /\ ~Acting(m)
       /\ Undecided(m) => decided[m] = NoEvent
  /\ cpc = "act" => /\ decided[cmsg].effect = decision.effect
                    /\ decided[cmsg].enforced = StopsDecision
  /\ denials \cap reached = {}
  /\ cpc = "forward" => cmsg \notin denials
  /\ \A m \in violations : m \in reached \/ (cpc = "forward" /\ cmsg = m)

\* Only a breach let through in monitor mode goes up unread.
UnreadInv ==
  ~monitor \/ HasAlwaysEnforce(policy) =>
    /\ reached \cap (Unreadable \cup Unparseable) = {}
    /\ cpc = "forward" => cmsg \notin Unreadable \cup Unparseable

\* A call let through is pending or it has been completed once.
Admitted(m) == m \in reached \/ (cpc = "forward" /\ cmsg = m)
Completions(m) == {c \in completed : c[2] = m}
CompleteInv ==
  /\ \A m \in Calls :
       /\ m \in pending => Admitted(m) /\ HasId(m) /\ Completions(m) = {}
       /\ ~Admitted(m) => Completions(m) = {}
       /\ Admitted(m) /\ HasId(m) /\ m \notin pending =>
            \E kind \in {"listing", "result", "error", "call"} :
              Completions(m) = {<<kind, m>>}
       /\ Admitted(m) => decided[m].effect # "none"
       /\ m \in delivered => HasId(m) /\ m \notin pending
  /\ spc = "forward" /\ IsAnswer(smsg) => smsg[2] \notin pending

GatewayInv ==
  /\ DriftInv /\ GatewayType /\ PlaceInv /\ ShownInv /\ RugPullInv
  /\ CountInv /\ BurstInv /\ LedgerInv /\ UnreadInv /\ CompleteInv

-----------------------------------------------------------------------------
(* Types.                                                                  *)

\* A policy decides something of every request.
LEMMA EvaluateType ==
  ASSUME NEW p, WellFormed(p), NEW fs
  PROVE  /\ Evaluate(p, fs) \in Decisions
         /\ Evaluate(p, fs).effect # "none"
  <1> DEFINE decisive == {i \in DOMAIN p.rules : /\ Matches(p.rules[i], fs)
                                                /\ p.rules[i].effect # "audit"}
  <1>1. CASE decisive = {}
    BY <1>1 DEF Evaluate, WellFormed, Decisions, Effects
  <1>2. CASE decisive # {}
    <2>1. DOMAIN p.rules \subseteq Nat /\ \A i \in DOMAIN p.rules : p.rules[i] \in Rules
      BY DEF WellFormed
    <2>2. PICK m \in decisive : \A x \in decisive : m <= x
      <3>1. decisive \in SUBSET Nat
        BY <2>1
      <3> HIDE DEF decisive
      <3> QED BY <3>1, <1>2, LeastExists
    <2>3. Min(decisive) = m
      <3>1. decisive \in SUBSET Nat
        BY <2>1
      <3> HIDE DEF decisive
      <3> QED BY <3>1, <2>2, MinIs
    <2>4. Evaluate(p, fs) = [effect |-> p.rules[m].effect, always |-> p.rules[m].always]
      BY <1>2, <2>3 DEF Evaluate
    <2> QED BY <2>1, <2>2, <2>4 DEF Decisions, Rules, Effects
  <1> QED BY <1>1, <1>2

LEMMA SingletonSeq ==
  ASSUME NEW x
  PROVE  /\ <<x>> # <<>> /\ Head(<<x>>) = x /\ Tail(<<x>>) = <<>>
         /\ \A y : <<x>> = <<y>> => x = y
  OBVIOUS

LEMMA NothingIsListing == Nothing \in Listings
  BY DEF Nothing, Listings

LEMMA TypeInit == Init => GatewayType
  BY NothingIsListing DEF Init, GatewayType, ClientType, ServerType, StateType,
     Events, NoEvent, Decisions, NoDecision

LEMMA ClientTypeNext ==
  ASSUME GatewayType, [Next]_vars
  PROVE  ClientType'
  <1> USE DEF GatewayType, ClientType
  <1>1. CASE Agent
    BY <1>1 DEF Agent, AgentSends, confVars, stateVars, cVars, sVars, eventVars
  <1>2. CASE Server
    BY <1>2 DEF Server, ServerAnswers, ServerCalls, ServerSends, cVars
  <1>3. CASE GRead
    <2>1. PICK m \in Msgs : inbox = <<m>>
      BY <1>3 DEF GRead
    <2>2. cmsg' = m /\ inbox' = <<>>
      BY <1>3, <2>1, SingletonSeq DEF GRead
    <2> QED BY <1>3, <2>2 DEF GRead, Msgs
  <1>4. CASE TrackListing \/ ObservePrompt \/ RefuseUnread \/ ObserveCall
    BY <1>4 DEF TrackListing, ObservePrompt, RefuseUnread, ObserveCall, peerVars
  <1>5. CASE Assess
    BY <1>5 DEF Assess, peerVars
  <1>6. CASE EvaluateCall
    <2>1. WellFormed(policy)
      BY GatewayAssumption DEF StateType
    <2>2. decision' \in Decisions /\ decision'.effect # "none"
      BY <1>6, <2>1, EvaluateType DEF EvaluateCall
    <2>3. facts' \subseteq {"burst", "changed"}
      BY <1>6 DEF EvaluateCall
    <2> QED BY <1>6, <2>2, <2>3 DEF EvaluateCall, peerVars
  <1>7. CASE ReportDecision
    BY <1>7 DEF ReportDecision, peerVars
  <1>8. CASE Deny \/ Allow
    <2>1. NoDecision \in Decisions
      BY DEF NoDecision, Decisions
    <2> QED BY <1>8, <2>1 DEF Deny, Allow, peerVars
  <1>9. CASE ForwardUp
    BY <1>9 DEF ForwardUp
  <1>10. CASE SRead
    BY <1>10 DEF SRead, cVars
  <1>11. CASE InspectListing \/ CompleteResponse
    <2>1. CASE InspectListing
      BY <2>1 DEF InspectListing, peerVars, cVars
    <2>2. CASE CompleteResponse
      BY <2>2 DEF CompleteResponse, peerVars, cVars
    <2> QED BY <1>11, <2>1, <2>2
  <1>12. CASE ForwardDown
    BY <1>12 DEF ForwardDown, cVars, ServerType, ServerMsgs
  <1>13. CASE UNCHANGED vars
    BY <1>13 DEF vars, peerVars, cVars
  <1> QED BY <1>1, <1>2, <1>3, <1>4, <1>5, <1>6, <1>7, <1>8, <1>9, <1>10, <1>11,
             <1>12, <1>13 DEF Next, ClientPump, ServerPump

LEMMA ServerTypeNext ==
  ASSUME GatewayType, [Next]_vars
  PROVE  ServerType'
  <1> USE DEF GatewayType, ServerType
  <1>1. CASE Agent
    BY <1>1 DEF Agent, AgentSends, sVars
  <1>2. CASE Server
    <2>1. PICK kind \in {"listing", "result", "error", "call"}, m \in Msgs,
               listing \in Listings : ServerSends(kind, m, listing)
      BY <1>2, NothingIsListing DEF Server, ServerAnswers, ServerCalls
    <2>2. <<kind, m, listing>> \in ServerMsgs
      BY DEF ServerMsgs
    <2>3. inflight' \subseteq Msgs /\ called' \subseteq Colliding
      BY <1>2 DEF Server, ServerAnswers, ServerCalls
    <2> QED BY <2>1, <2>2, <2>3 DEF ServerSends, sVars
  <1>3. CASE ForwardUp
    BY <1>3 DEF ForwardUp, ClientType, sVars
  <1>4. CASE ClientPump /\ ~ForwardUp
    BY <1>4 DEF ClientPump, GRead, TrackListing, ObservePrompt, RefuseUnread, ObserveCall,
       Assess, EvaluateCall, ReportDecision, Deny, Allow, peerVars, sVars
  <1>5. CASE SRead
    <2>1. PICK x \in ServerMsgs : outbox = <<x>>
      BY <1>5 DEF SRead
    <2> QED BY <1>5, <2>1, SingletonSeq DEF SRead
  <1>6. CASE InspectListing \/ CompleteResponse \/ ForwardDown
    BY <1>6 DEF InspectListing, CompleteResponse, ForwardDown, peerVars
  <1>7. CASE UNCHANGED vars
    BY <1>7 DEF vars, peerVars, sVars
  <1> QED BY <1>1, <1>2, <1>3, <1>4, <1>5, <1>6, <1>7 DEF Next, ServerPump

LEMMA StateTypeNext ==
  ASSUME GatewayType, [Next]_vars
  PROVE  StateType'
  <1> USE DEF GatewayType, StateType
  <1>1. CASE Agent
    BY <1>1 DEF Agent, AgentSends, confVars, stateVars, eventVars
  <1>2. CASE Server
    BY <1>2 DEF Server, ServerAnswers, ServerCalls, ServerSends, confVars, stateVars,
       eventVars, histVars
  <1>3. CASE GRead \/ ObservePrompt \/ ObserveCall \/ Assess \/ EvaluateCall
    BY <1>3 DEF GRead, ObservePrompt, ObserveCall, Assess, EvaluateCall,
       confVars, stateVars, eventVars, histVars
  <1>4. CASE TrackListing
    BY <1>4 DEF TrackListing, ClientType, confVars, eventVars, histVars
  <1>5. CASE RefuseUnread
    <2>1. RefusesUnread \in BOOLEAN
      BY DEF RefusesUnread
    <2>2. decided' \in [Msgs -> Events]
      BY <1>5, <2>1 DEF RefuseUnread, Record, Events, Effects
    <2>3. denials' \subseteq Msgs /\ violations' \subseteq Msgs
      BY <1>5 DEF RefuseUnread, CountDenied, ClientType
    <2> QED BY <1>5, <2>2, <2>3 DEF RefuseUnread, Record, confVars, histVars
  <1>6. CASE ReportDecision
    <2>1. decided' \in [Msgs -> Events]
      BY <1>6 DEF ReportDecision, Record, Events, ClientType, Decisions
    <2> QED BY <1>6, <2>1 DEF ReportDecision, Record, confVars, stateVars, histVars
  <1>7. CASE Deny \/ Allow
    <2>1. denials' \subseteq Msgs /\ violations' \subseteq Msgs
      BY <1>7 DEF Deny, Allow, CountDenied, ClientType
    <2>2. pending' \subseteq Calls
      <3>1. CASE Deny
        BY <3>1 DEF Deny, ClientType
      <3>2. CASE Allow
        BY <3>2 DEF Allow, TrackPending, ClientType
      <3> QED BY <1>7, <3>1, <3>2
    <2> QED BY <1>7, <2>1, <2>2 DEF Deny, Allow, confVars, eventVars, histVars
  <1>8. CASE ForwardUp
    BY <1>8 DEF ForwardUp, ClientType, confVars, stateVars, eventVars
  <1>9. CASE SRead
    BY <1>9 DEF SRead, confVars, stateVars, eventVars, histVars
  <1>10. CASE InspectListing
    BY <1>10 DEF InspectListing, confVars, eventVars, histVars
  <1>11. CASE CompleteResponse
    <2>1. smsg \in ServerMsgs
      BY <1>11 DEF CompleteResponse, ServerType
    <2>2. completed' \subseteq {"listing", "result", "error", "call"} \X Calls
      BY <1>11, <2>1 DEF CompleteResponse, Completes, ServerMsgs
    <2> QED BY <1>11, <2>2 DEF CompleteResponse, confVars, histVars
  <1>12. CASE ForwardDown
    <2>1. smsg \in ServerMsgs
      BY <1>12 DEF ForwardDown, ServerType
    <2> QED BY <1>12, <2>1 DEF ForwardDown, ServerMsgs, confVars, stateVars, eventVars
  <1>13. CASE UNCHANGED vars
    BY <1>13 DEF vars, confVars, stateVars, eventVars, histVars
  <1> QED BY <1>1, <1>2, <1>3, <1>4, <1>5, <1>6, <1>7, <1>8, <1>9, <1>10, <1>11,
             <1>12, <1>13 DEF Next, ClientPump, ServerPump

-----------------------------------------------------------------------------
(* The inventory, and where each message is.                               *)

\* Only the server pump changes the inventory, with the listing in its hands.
LEMMA InventoryStep ==
  ASSUME GatewayType, [Next]_vars
  PROVE  [\E listing \in Listings : Observe(listing)]_inventoryVars
  <1>1. CASE InspectListing
    <2>1. smsg[3] \in Listings
      BY <1>1 DEF InspectListing, GatewayType, ServerType, ServerMsgs
    <2> QED BY <1>1, <2>1 DEF InspectListing
  <1>2. CASE ~InspectListing
    BY <1>2 DEF Next, vars, Agent, AgentSends, Server, ServerAnswers, ServerCalls,
       ServerSends, ClientPump, GRead, TrackListing, ObservePrompt, RefuseUnread,
       ObserveCall, Assess, EvaluateCall, ReportDecision, Deny, Allow, ForwardUp,
       ServerPump, SRead, CompleteResponse, ForwardDown
  <1> QED BY <1>1, <1>2

\* Each action leaves alone the variables that say where messages are, or moves
\* one message on.
LEMMA PlaceNext ==
  ASSUME GatewayType, PlaceInv, [Next]_vars
  PROVE  PlaceInv'
  <1> USE DEF GatewayType, ClientType, ServerType, StateType, PlaceInv, Held, IsAnswer
  <1>1. ASSUME NEW m \in Msgs, AgentSends(m)
        PROVE  PlaceInv'
    BY <1>1, SingletonSeq DEF AgentSends, cVars, sVars
  <1>2. ASSUME NEW m \in Msgs, ServerAnswers(m)
        PROVE  PlaceInv'
    <2>1. PICK kind \in {"listing", "result", "error"}, listing \in Listings :
            ServerSends(kind, m, listing)
      BY <1>2, NothingIsListing DEF ServerAnswers
    <2>2. /\ m \in inflight /\ HasId(m) /\ inflight' = inflight \ {m}
          /\ outbox = <<>> /\ outbox' = <<<<kind, m, listing>>>>
          /\ UNCHANGED <<unsent, inbox, cpc, cmsg, spc, smsg, reached, delivered>>
      BY <1>2, <2>1 DEF ServerAnswers, ServerSends, cVars, sVars, histVars
    <2>3. \A x : outbox' = <<x>> => x[2] = m
      BY <2>2, SingletonSeq
    <2> QED BY <2>2, <2>3
  <1>3. ASSUME NEW m \in Msgs, ServerCalls(m)
        PROVE  PlaceInv'
    <2>1. /\ outbox = <<>> /\ outbox' = <<<<"call", m, Nothing>>>>
          /\ UNCHANGED <<unsent, inbox, inflight, cpc, cmsg, spc, smsg, reached, delivered>>
      BY <1>3 DEF ServerCalls, ServerSends, cVars, sVars, histVars
    <2>2. \A x : outbox' = <<x>> => x[1] = "call"
      BY <2>1, SingletonSeq
    <2> QED BY <2>1, <2>2
  <1>4. CASE GRead
    <2>1. PICK m \in Msgs : inbox = <<m>>
      BY <1>4 DEF GRead
    <2>2. /\ cmsg' = m /\ inbox' = <<>>
          /\ UNCHANGED <<unsent, inflight, outbox, spc, smsg, reached, delivered>>
      BY <1>4, <2>1, SingletonSeq DEF GRead, sVars, histVars
    <2>3. \A x : inbox' # <<x>>
      BY <2>2, SingletonSeq
    <2> QED BY <1>4, <2>1, <2>2, <2>3
  <1>5. CASE TrackListing \/ ObservePrompt \/ RefuseUnread \/ ObserveCall \/ Assess
               \/ EvaluateCall \/ ReportDecision \/ Deny \/ Allow
    <2>1. /\ cpc # "read" /\ (cpc' = "read" \/ cmsg' = cmsg)
          /\ UNCHANGED <<unsent, inbox, inflight, outbox, spc, smsg, reached, delivered>>
      BY <1>5 DEF TrackListing, ObservePrompt, RefuseUnread, ObserveCall, Assess,
         EvaluateCall, ReportDecision, Deny, Allow, peerVars, sVars, histVars
    <2> QED BY <2>1
  <1>6. CASE ForwardUp
    <2>1. /\ cpc = "forward" /\ cpc' = "read"
          /\ inflight' = inflight \cup {cmsg} /\ reached' = reached \cup {cmsg}
          /\ UNCHANGED <<unsent, inbox, outbox, spc, smsg, delivered>>
      BY <1>6 DEF ForwardUp, sVars
    <2> QED BY <2>1
  <1>7. CASE SRead
    <2>1. PICK x \in ServerMsgs : outbox = <<x>>
      BY <1>7 DEF SRead
    <2>2. /\ smsg' = x /\ outbox' = <<>>
          /\ UNCHANGED <<unsent, inbox, inflight, cpc, cmsg, reached, delivered>>
      BY <1>7, <2>1, SingletonSeq DEF SRead, cVars, histVars
    <2>3. \A y : outbox' # <<y>>
      BY <2>2, SingletonSeq
    <2> QED BY <2>1, <2>2, <2>3
  <1>8. CASE InspectListing \/ CompleteResponse
    BY <1>8 DEF InspectListing, CompleteResponse, peerVars, cVars, histVars
  <1>9. CASE ForwardDown
    BY <1>9 DEF ForwardDown, cVars
  <1>10. CASE UNCHANGED vars
    BY <1>10 DEF vars, peerVars, cVars, sVars, histVars
  <1> QED BY <1>1, <1>2, <1>3, <1>4, <1>5, <1>6, <1>7, <1>8, <1>9, <1>10
          DEF Next, Agent, Server, ClientPump, ServerPump

\* A listing on its way is the answer to a tools/list that was tracked before it
\* was forwarded, so it is observed, and flags what it changes, before it is shown.
LEMMA ShownNext ==
  ASSUME GatewayType, DriftInv, DriftInv', PlaceInv, ShownInv, [Next]_vars
  PROVE  ShownInv'
  <1> USE DEF GatewayType, ClientType, ServerType, StateType, PlaceInv, Held, IsAnswer,
             ShownInv
  <1>1. ASSUME NEW m \in Msgs, AgentSends(m)
        PROVE  ShownInv'
    <2>1. /\ m \in unsent /\ unsent' = unsent \ {m}
          /\ \A n \in suspect' : n \in suspect
                \/ (n = m /\ m \in Calls /\ view[toolOf[m]] \notin {base[toolOf[m]], Absent})
          /\ UNCHANGED <<toolOf, view, inflight, outbox, listings, cpc, cmsg, spc, smsg,
                        base, changed>>
      BY <1>1 DEF AgentSends, stateVars, cVars, sVars, inventoryVars
    <2>2. \A n \in Calls : toolOf[n] \in Tools
      OBVIOUS
    <2> QED BY <2>1, <2>2
  <1>2. ASSUME NEW m \in Msgs, ServerAnswers(m)
        PROVE  ShownInv'
    <2>1. PICK kind \in {"listing", "result", "error"}, listing \in Listings :
            /\ ServerSends(kind, m, listing)
            /\ kind = "listing" => m \in Lists
      BY <1>2, NothingIsListing DEF ServerAnswers
    <2>2. /\ m \in inflight /\ inflight' = inflight \ {m}
          /\ outbox' = <<<<kind, m, listing>>>>
          /\ UNCHANGED <<unsent, toolOf, view, listings, cpc, cmsg, spc, smsg, base,
                        changed, suspect>>
      BY <1>2, <2>1 DEF ServerAnswers, ServerSends, stateVars, cVars, sVars,
         inventoryVars, histVars
    <2>3. \A x : outbox' = <<x>> => x = <<kind, m, listing>>
      BY <2>2, SingletonSeq
    <2> QED BY <2>1, <2>2, <2>3
  <1>3. ASSUME NEW m \in Msgs, ServerCalls(m)
        PROVE  ShownInv'
    <2>1. /\ outbox' = <<<<"call", m, Nothing>>>>
          /\ UNCHANGED <<unsent, toolOf, view, inflight, listings, cpc, cmsg, spc, smsg,
                        base, changed, suspect>>
      BY <1>3 DEF ServerCalls, ServerSends, stateVars, cVars, sVars, inventoryVars, histVars
    <2>2. \A x : outbox' = <<x>> => x[1] = "call"
      BY <2>1, SingletonSeq
    <2> QED BY <2>1, <2>2
  <1>4. CASE TrackListing
    <2>1. /\ listings' = listings \cup {cmsg}
          /\ UNCHANGED <<unsent, toolOf, view, inflight, outbox, cmsg, spc, smsg, base,
                        changed, suspect>>
      BY <1>4 DEF TrackListing, peerVars, sVars, inventoryVars, histVars
    <2> QED BY <2>1
  <1>5. CASE GRead \/ ObservePrompt \/ RefuseUnread \/ ObserveCall \/ Assess
               \/ EvaluateCall \/ ReportDecision \/ Deny \/ Allow
    <2>1. /\ cpc' = "forward" => cmsg' = cmsg /\ cmsg \notin Lists
          /\ UNCHANGED <<unsent, toolOf, view, inflight, outbox, listings, spc, smsg,
                        base, changed, suspect>>
      BY <1>5, GatewayAssumption DEF GRead, ObservePrompt, RefuseUnread, ObserveCall,
         Assess, EvaluateCall, ReportDecision, Deny, Allow, peerVars, sVars, stateVars,
         inventoryVars, histVars
    <2> QED BY <2>1
  <1>6. CASE ForwardUp
    <2>1. /\ cpc = "forward" /\ cpc' = "read" /\ inflight' = inflight \cup {cmsg}
          /\ UNCHANGED <<unsent, toolOf, view, outbox, listings, spc, smsg, base, changed,
                        suspect>>
      BY <1>6 DEF ForwardUp, stateVars, sVars, inventoryVars
    <2> QED BY <2>1
  <1>7. CASE SRead
    <2>1. PICK x \in ServerMsgs : outbox = <<x>>
      BY <1>7 DEF SRead
    <2>2. /\ smsg' = x /\ outbox' = <<>> /\ spc' = "listing"
          /\ UNCHANGED <<unsent, toolOf, view, inflight, listings, cpc, cmsg, base, changed,
                        suspect>>
      BY <1>7, <2>1, SingletonSeq DEF SRead, cVars, stateVars, inventoryVars, histVars
    <2>3. \A y : outbox' # <<y>>
      BY <2>2, SingletonSeq
    <2> QED BY <2>1, <2>2, <2>3
  <1>8. CASE InspectListing
    <2>1. /\ smsg \in ServerMsgs /\ smsg' = smsg /\ spc = "listing" /\ spc' = "complete"
          /\ listings' = IF smsg[1] \in {"listing", "result"}
                           THEN listings \ {smsg[2]} ELSE listings
          /\ IF smsg[1] = "listing" THEN Observe(smsg[3]) ELSE UNCHANGED inventoryVars
          /\ UNCHANGED <<unsent, toolOf, view, inflight, outbox, cpc, cmsg, suspect>>
      BY <1>8 DEF InspectListing, peerVars, cVars, histVars
    <2>2. changed \subseteq changed' /\ (base' = base \/ (base = Nothing /\ base' = smsg[3]))
      BY <2>1 DEF DriftInv, BaselineInv, Observe, Baseline, Compare, inventoryVars
    <2>3. ASSUME NEW t \in Tools, base' # base, view[t] \notin {base'[t], Absent}
          PROVE  t \in changed'
      <3>1. base[t] = Absent
        BY <2>2, <2>3 DEF Nothing
      <3> QED BY <2>1, <2>2, <2>3, <3>1
    <2>4. ASSUME smsg[1] = "listing", NEW t \in Tools, smsg[3][t] \notin {base'[t], Absent}
          PROVE  t \in changed'
      <3>1. smsg[3] \in Listings /\ smsg[3][t] \in Defs
        BY <2>1, <2>4 DEF ServerMsgs, Listings
      <3>2. <<t, smsg[3][t]>> \in advertised'
        <4>1. <<t, smsg[3][t]>> \in Pairs(smsg[3])
          BY <3>1, PairsOfListing
        <4> QED BY <4>1, <2>1, <2>4 DEF Observe, Baseline, Compare
      <3> QED BY <2>4, <3>1, <3>2 DEF DriftInv, ChangedIsDrift
    <2>5. \A m \in Lists : m \in inflight \/ (cpc = "forward" /\ cmsg = m) => m \in listings'
      BY <2>1 DEF ServerMsgs
    <2>6. \A x \in ServerMsgs : outbox = <<x>> /\ x[1] = "listing" => x[2] \in listings'
      BY <2>1 DEF ServerMsgs
    <2> QED BY <2>1, <2>2, <2>3, <2>4, <2>5, <2>6
  <1>9. CASE CompleteResponse
    BY <1>9 DEF CompleteResponse, peerVars, cVars, inventoryVars, histVars
  <1>10. CASE ForwardDown
    BY <1>10 DEF ForwardDown, cVars, stateVars, inventoryVars
  <1>11. CASE UNCHANGED vars
    BY <1>11 DEF vars, peerVars, cVars, sVars, stateVars, inventoryVars, histVars
  <1> QED BY <1>1, <1>2, <1>3, <1>4, <1>5, <1>6, <1>7, <1>8, <1>9, <1>10, <1>11
          DEF Next, Agent, Server, ClientPump, ServerPump

-----------------------------------------------------------------------------
(* What is stopped.                                                        *)

LEMMA ConfigurationFixed ==
  ASSUME [Next]_vars
  PROVE  UNCHANGED confVars
  BY DEF Next, vars, Agent, AgentSends, Server, ServerAnswers, ServerCalls,
     ServerSends, ClientPump, GRead, TrackListing, ObservePrompt, RefuseUnread,
     ObserveCall, Assess, EvaluateCall, ReportDecision, Deny, Allow, ForwardUp,
     ServerPump, SRead, InspectListing, CompleteResponse, ForwardDown

\* The policy decides of the next state's facts what Stops says of them.
LEMMA StopsAtEvaluate ==
  ASSUME EvaluateCall
  PROVE  StopsDecision' <=> Stops(facts')
  BY DEF EvaluateCall, StopsDecision, Stops, Unenforced, confVars

LEMMA StopsFixed ==
  ASSUME UNCHANGED confVars, NEW fs
  PROVE  Stops(fs)' <=> Stops(fs)
  BY DEF Stops, Unenforced, confVars

LEMMA RugPullNext ==
  ASSUME GatewayType, PlaceInv, ShownInv, RugPullInv, [Next]_vars
  PROVE  RugPullInv'
  <1> USE DEF GatewayType, ClientType, StateType
  <1> DEFINE Stopped ==
        /\ suspect \cap reached = {}
        /\ cpc \in {"report", "act"} /\ cmsg \in suspect => StopsDecision
        /\ cpc = "forward" => cmsg \notin suspect
  <1> SUFFICES ASSUME Stops({"changed"}), Stops({"changed", "burst"})
               PROVE  Stopped'
    BY ConfigurationFixed, StopsFixed, Zenon DEF RugPullInv
  <1>0. /\ suspect \cap reached = {}
        /\ cpc \in {"report", "act"} /\ cmsg \in suspect => StopsDecision
        /\ cpc = "forward" => cmsg \notin suspect
    BY DEF RugPullInv
  <1>c. UNCHANGED confVars
    BY ConfigurationFixed
  <1>1. ASSUME NEW m \in Msgs, AgentSends(m)
        PROVE  Stopped'
    <2>1. /\ m \notin reached /\ (cpc # "read" => cmsg # m)
      BY <1>1 DEF AgentSends, PlaceInv, Held
    <2>2. /\ suspect' \subseteq suspect \cup {m} 
          /\ UNCHANGED <<cpc, cmsg, decision, reached>>
      BY <1>1 DEF AgentSends, cVars
    <2>3. StopsDecision' <=> StopsDecision
      BY <2>2, <1>c DEF StopsDecision, Unenforced, confVars
    <2> QED BY <1>0, <2>1, <2>2, <2>3
  <1>2. CASE EvaluateCall
    <2>1. UNCHANGED <<suspect, reached, cmsg>> /\ cpc' = "report" /\ cmsg \in Calls
      BY <1>2 DEF EvaluateCall, histVars
    <2>2. ASSUME cmsg \in suspect
          PROVE  StopsDecision'
      <3>1. facts' = facts \cup {"changed"}
        BY <1>2, <2>2 DEF EvaluateCall, ShownInv
      <3>2. facts' = {"changed"} \/ facts' = {"changed", "burst"}
        BY <3>1
      <3> QED BY <3>2, <1>2, StopsAtEvaluate
    <2> QED BY <1>0, <2>1, <2>2
  <1>3. CASE Allow
    <2>1. /\ cpc = "act" /\ ~StopsDecision /\ cpc' = "forward"
          /\ UNCHANGED <<cmsg, suspect, reached>>
      BY <1>3 DEF Allow, StopsDecision, histVars
    <2> QED BY <1>0, <2>1
  <1>4. CASE ReportDecision
    <2>1. cpc = "report" /\ cpc' = "act" /\ UNCHANGED <<cmsg, decision, suspect, reached>>
      BY <1>4 DEF ReportDecision, histVars
    <2>2. StopsDecision' <=> StopsDecision
      BY <2>1, <1>c DEF StopsDecision, Unenforced, confVars
    <2> QED BY <1>0, <2>1, <2>2
  <1>5. CASE GRead \/ ObservePrompt \/ TrackListing \/ RefuseUnread \/ ObserveCall
               \/ Assess \/ Deny
    <2>1. /\ cpc' \notin {"report", "act"} /\ UNCHANGED <<suspect, reached>>
          /\ cpc' = "forward" => cmsg' \notin Calls
      BY <1>5, GatewayAssumption DEF GRead, ObservePrompt, TrackListing, RefuseUnread,
         ObserveCall, Assess, Deny, histVars
    <2> QED BY <1>0, <2>1
  <1>6. CASE ForwardUp
    <2>1. /\ cpc = "forward" /\ cpc' = "read" /\ reached' = reached \cup {cmsg}
          /\ suspect' = suspect
      BY <1>6 DEF ForwardUp
    <2> QED BY <1>0, <2>1
  <1>7. CASE Server \/ ServerPump \/ UNCHANGED vars
    <2>1. UNCHANGED <<cpc, cmsg, decision, suspect, reached>>
      BY <1>7 DEF Server, ServerAnswers, ServerCalls, ServerSends, ServerPump, SRead,
         InspectListing, CompleteResponse, ForwardDown, vars, cVars, histVars
    <2>2. StopsDecision' <=> StopsDecision
      BY <2>1, <1>c DEF StopsDecision, Unenforced, confVars
    <2> QED BY <1>0, <2>1, <2>2
  <1> HIDE DEF Stopped
  <1> QED BY <1>1, <1>2, <1>3, <1>4, <1>5, <1>6, <1>7 DEF Next, Agent, ClientPump

-----------------------------------------------------------------------------
(* What the detector has recorded.                                         *)

LEMMA AddOne ==
  ASSUME NEW S, IsFiniteSet(S), NEW x, x \notin S
  PROVE  Cardinality(S \cup {x}) = Cardinality(S) + 1 /\ Cardinality(S) \in Nat
  BY FS_AddElement, FS_CardinalityType

LEMMA RecordedFinite ==
  /\ IsFiniteSet(ObservedCalls) /\ Cardinality(ObservedCalls) \in 0 .. Cardinality(Calls)
  /\ IsFiniteSet(ObservedPrompts) /\ Cardinality(ObservedPrompts) \in 0 .. Cardinality(Prompts)
  /\ IsFiniteSet(FailedCalls) /\ Cardinality(FailedCalls) \in 0 .. Cardinality(Calls)
  /\ Cardinality(Calls) \in Nat /\ Cardinality(Prompts) \in Nat
  <1>1. ASSUME NEW T, IsFiniteSet(T), NEW S \in SUBSET T
        PROVE  IsFiniteSet(S) /\ Cardinality(S) \in 0 .. Cardinality(T) /\ Cardinality(T) \in Nat
    BY <1>1, FS_Subset, FS_CardinalityType
  <1>2. /\ ObservedCalls \in SUBSET Calls /\ ObservedPrompts \in SUBSET Prompts
        /\ FailedCalls \in SUBSET Calls
    BY DEF ObservedCalls, ObservedPrompts, FailedCalls
  <1>3. IsFiniteSet(Calls) /\ IsFiniteSet(Prompts)
    BY GatewayAssumption
  <1> QED BY <1>1, <1>2, <1>3

LEMMA CountNext ==
  ASSUME GatewayType, PlaceInv, CompleteInv, CountInv, [Next]_vars
  PROVE  CountInv'
  <1> USE DEF GatewayType, ClientType
  <1>1. ASSUME NEW m \in Msgs, AgentSends(m)
        PROVE  UNCHANGED <<ObservedCalls, ObservedPrompts, FailedCalls, observed>>
    <2>1. /\ m \in unsent /\ unsent' = unsent \ {m} /\ inbox = <<>> /\ inbox' = <<m>>
          /\ UNCHANGED <<cpc, cmsg, completed, observed>>
      BY <1>1 DEF AgentSends, cVars, stateVars, eventVars
    <2>2. \A n : inbox # <<n>> /\ (inbox' = <<n>> <=> n = m)
      BY <2>1, SingletonSeq
    <2> QED BY <2>1, <2>2 DEF ObservedCalls, ObservedPrompts, FailedCalls
  <1>2. CASE GRead
    <2>1. PICK m \in Msgs : inbox = <<m>>
      BY <1>2 DEF GRead
    <2>2. /\ cmsg' = m /\ inbox' = <<>> /\ cpc = "read"
          /\ m \in Calls => cpc' = "observe"
          /\ m \in Prompts => cpc' = "prompt"
          /\ UNCHANGED <<unsent, completed, observed>>
      BY <1>2, <2>1, SingletonSeq, GatewayAssumption DEF GRead, stateVars, eventVars
    <2>3. /\ m \notin Calls => cpc' # "observe"
          /\ m \notin Prompts => cpc' # "prompt"
      BY <1>2, <2>2 DEF GRead
    <2>4. \A n : inbox' # <<n>> /\ (inbox = <<n>> <=> n = m)
      BY <2>1, <2>2, SingletonSeq
    <2>5. UNCHANGED <<ObservedCalls, ObservedPrompts, FailedCalls>>
      BY <2>2, <2>3, <2>4 DEF ObservedCalls, ObservedPrompts, FailedCalls
    <2> QED BY <2>2, <2>5 DEF CountInv
  <1>3. CASE ObserveCall
    <2>1. /\ cpc = "observe" /\ cpc' = "assess" /\ observed' = observed + 1 /\ cmsg \in Calls
          /\ UNCHANGED <<unsent, inbox, cmsg, completed>>
      BY <1>3 DEF ObserveCall, peerVars, eventVars
    <2>2. cmsg \notin unsent /\ inbox # <<cmsg>>
      BY <2>1 DEF PlaceInv, Held
    <2>3. /\ ObservedCalls' = ObservedCalls \cup {cmsg} /\ cmsg \notin ObservedCalls
          /\ UNCHANGED <<ObservedPrompts, FailedCalls>>
      BY <2>1, <2>2 DEF ObservedCalls, ObservedPrompts, FailedCalls
    <2>4. Cardinality(ObservedCalls') = Cardinality(ObservedCalls) + 1
      BY <2>3, RecordedFinite, AddOne
    <2> QED BY <2>1, <2>3, <2>4, RecordedFinite DEF CountInv
  <1>4. CASE ObservePrompt
    <2>1. /\ cpc = "prompt" /\ cpc' = "forward" /\ observed' = observed + 1 /\ cmsg \in Prompts
          /\ UNCHANGED <<unsent, inbox, cmsg, completed>>
      BY <1>4 DEF ObservePrompt, peerVars, eventVars
    <2>2. cmsg \notin unsent /\ inbox # <<cmsg>> /\ cmsg \in Msgs
      BY <2>1 DEF PlaceInv, Held
    <2>3. /\ ObservedPrompts' = ObservedPrompts \cup {cmsg} /\ cmsg \notin ObservedPrompts
          /\ UNCHANGED <<ObservedCalls, FailedCalls>>
      BY <2>1, <2>2 DEF ObservedCalls, ObservedPrompts, FailedCalls
    <2>4. Cardinality(ObservedPrompts') = Cardinality(ObservedPrompts) + 1
      BY <2>3, RecordedFinite, AddOne
    <2> QED BY <2>1, <2>3, <2>4, RecordedFinite DEF CountInv
  <1>5. CASE CompleteResponse
    <2>1. /\ smsg \in ServerMsgs /\ UNCHANGED <<unsent, inbox, cpc, cmsg>>
      BY <1>5 DEF CompleteResponse, ServerType, peerVars, cVars
    <2>2. UNCHANGED <<ObservedCalls, ObservedPrompts>>
      BY <2>1 DEF ObservedCalls, ObservedPrompts
    <2>3. CASE Completes(smsg) /\ smsg[1] = "error"
      <3>1. smsg[2] \in Calls /\ Completions(smsg[2]) = {}
        BY <2>3 DEF Completes, StateType, CompleteInv
      <3>2. completed' = completed \cup {<<"error", smsg[2]>>} /\ observed' = observed + 1
        BY <1>5, <2>3 DEF CompleteResponse
      <3>3. FailedCalls' = FailedCalls \cup {smsg[2]} /\ smsg[2] \notin FailedCalls
        BY <3>1, <3>2 DEF FailedCalls, Completions
      <3>4. Cardinality(FailedCalls') = Cardinality(FailedCalls) + 1
        BY <3>3, RecordedFinite, AddOne
      <3> QED BY <2>2, <3>2, <3>4, RecordedFinite DEF CountInv
    <2>4. CASE ~(Completes(smsg) /\ smsg[1] = "error")
      <3>1. observed' = observed /\ FailedCalls' = FailedCalls
        BY <1>5, <2>4 DEF CompleteResponse, FailedCalls
      <3> QED BY <2>2, <3>1 DEF CountInv
    <2> QED BY <2>3, <2>4
  <1>6. CASE TrackListing \/ RefuseUnread \/ Assess \/ EvaluateCall \/ ReportDecision
               \/ Deny \/ Allow \/ ForwardUp
    <2>1. /\ cpc \notin {"observe", "prompt"} /\ cpc' \notin {"observe", "prompt"}
          /\ UNCHANGED <<unsent, inbox, completed, observed>>
      BY <1>6 DEF TrackListing, RefuseUnread, Assess, EvaluateCall, ReportDecision,
         Deny, Allow, ForwardUp, Record, peerVars, stateVars, eventVars
    <2>2. UNCHANGED <<ObservedCalls, ObservedPrompts, FailedCalls>>
      BY <2>1 DEF ObservedCalls, ObservedPrompts, FailedCalls
    <2> QED BY <2>1, <2>2 DEF CountInv
  <1>7. CASE Server \/ SRead \/ InspectListing \/ ForwardDown \/ UNCHANGED vars
    <2>1. UNCHANGED <<unsent, inbox, cpc, cmsg, completed, observed>>
      BY <1>7 DEF Server, ServerAnswers, ServerCalls, ServerSends, SRead, InspectListing,
         ForwardDown, vars, peerVars, stateVars, cVars, eventVars
    <2> QED BY <2>1 DEF CountInv, ObservedCalls, ObservedPrompts, FailedCalls
  <1>8. CASE Agent
    BY <1>1, <1>8 DEF Agent, CountInv
  <1> QED BY <1>2, <1>3, <1>4, <1>5, <1>6, <1>7, <1>8 DEF Next, ClientPump, ServerPump

LEMMA BurstNext ==
  ASSUME GatewayType, PlaceInv, CountInv, BurstInv, [Next]_vars
  PROVE  BurstInv'
  <1> USE DEF GatewayType, ClientType
  <1> DEFINE Bounded == /\ Cardinality(reached \cap Calls) <= Limit
                        /\ Passing => Cardinality((reached \cup {cmsg}) \cap Calls) <= Limit
  <1> SUFFICES ASSUME Stops({"burst"}), Stops({"changed", "burst"})
               PROVE  Bounded'
    BY ConfigurationFixed, StopsFixed, Zenon DEF BurstInv
  <1>0. Bounded
    BY DEF BurstInv
  <1>c. UNCHANGED confVars
    BY ConfigurationFixed
  <1>1. CASE TrackListing \/ ObservePrompt \/ RefuseUnread
    <2>1. cmsg \notin Calls /\ UNCHANGED reached /\ (cpc' = "forward" => cmsg' = cmsg)
          /\ cpc' \notin {"evaluate", "report", "act"}
      BY <1>1, GatewayAssumption DEF TrackListing, ObservePrompt, RefuseUnread, histVars
    <2>2. cpc' = "forward" => (reached' \cup {cmsg'}) \cap Calls = reached \cap Calls
      BY <2>1
    <2> QED BY <1>0, <2>1, <2>2 DEF Passing
  <1>2. CASE GRead \/ ObserveCall \/ Deny
    <2>1. cpc' \notin {"evaluate", "report", "act", "forward"} /\ UNCHANGED reached
      BY <1>2 DEF GRead, ObserveCall, Deny, histVars
    <2> QED BY <1>0, <2>1 DEF Passing
  <1>3. CASE Assess
    <2>1. /\ UNCHANGED <<reached, cmsg>> /\ cpc = "assess" /\ cpc' = "evaluate"
          /\ "burst" \notin facts' => ~(observed > Limit)
      BY <1>3 DEF Assess, histVars
    <2>2. ASSUME "burst" \notin facts'
          PROVE  Cardinality((reached' \cup {cmsg'}) \cap Calls) <= Limit
      <3>1. (reached \cup {cmsg}) \cap Calls \in SUBSET ObservedCalls
        BY <2>1 DEF PlaceInv, Held, ObservedCalls, StateType
      <3>2. Cardinality((reached \cup {cmsg}) \cap Calls) <= Cardinality(ObservedCalls)
            /\ Cardinality((reached \cup {cmsg}) \cap Calls) \in Nat
        BY <3>1, RecordedFinite, FS_Subset, FS_CardinalityType
      <3>3. Cardinality(ObservedCalls) <= observed /\ observed \in Nat
        BY RecordedFinite DEF CountInv
      <3> QED BY <2>1, <2>2, <3>2, <3>3, RecordedFinite, GatewayAssumption
    <2> QED BY <1>0, <2>1, <2>2 DEF Passing
  <1>4. CASE EvaluateCall
    <2>1. UNCHANGED <<reached, cmsg>> /\ cpc = "evaluate" /\ cpc' = "report"
      BY <1>4 DEF EvaluateCall, histVars
    <2>2. ASSUME "burst" \in facts
          PROVE  StopsDecision'
      <3>1. facts' = {"burst"} \/ facts' = {"changed", "burst"}
        BY <1>4, <2>2 DEF EvaluateCall
      <3> QED BY <1>4, <3>1, StopsAtEvaluate
    <2> QED BY <1>0, <2>1, <2>2 DEF Passing
  <1>5. CASE ReportDecision
    <2>1. UNCHANGED <<reached, cmsg, decision>> /\ cpc = "report" /\ cpc' = "act"
      BY <1>5 DEF ReportDecision, histVars
    <2>2. StopsDecision' <=> StopsDecision
      BY <2>1, <1>c DEF StopsDecision, Unenforced, confVars
    <2> QED BY <1>0, <2>1, <2>2 DEF Passing
  <1>6. CASE Allow
    <2>1. UNCHANGED <<reached, cmsg>> /\ cpc = "act" /\ cpc' = "forward" /\ ~StopsDecision
      BY <1>6 DEF Allow, StopsDecision, histVars
    <2> QED BY <1>0, <2>1 DEF Passing
  <1>7. CASE ForwardUp
    <2>1. reached' = reached \cup {cmsg} /\ cpc = "forward" /\ cpc' = "read"
      BY <1>7 DEF ForwardUp
    <2> QED BY <1>0, <2>1 DEF Passing
  <1>8. CASE Agent \/ Server \/ ServerPump \/ UNCHANGED vars
    <2>1. UNCHANGED <<reached, cpc, cmsg, facts, decision>>
      BY <1>8 DEF Agent, AgentSends, Server, ServerAnswers, ServerCalls, ServerSends,
         ServerPump, SRead, InspectListing, CompleteResponse, ForwardDown, vars, cVars,
         histVars
    <2>2. StopsDecision' <=> StopsDecision
      BY <2>1, <1>c DEF StopsDecision, Unenforced, confVars
    <2> QED BY <1>0, <2>1, <2>2 DEF Passing
  <1> HIDE DEF Bounded
  <1> QED BY <1>1, <1>2, <1>3, <1>4, <1>5, <1>6, <1>7, <1>8 DEF Next, ClientPump

-----------------------------------------------------------------------------
(* What is recorded.                                                       *)

LEMMA LedgerNext ==
  ASSUME GatewayType, PlaceInv, LedgerInv, [Next]_vars
  PROVE  LedgerInv'
  <1> USE DEF GatewayType, ClientType, StateType, LedgerInv, Acting, Undecided
  <1>c. UNCHANGED confVars
    BY ConfigurationFixed
  <1>1. ASSUME NEW m \in Msgs, AgentSends(m)
        PROVE  LedgerInv'
    <2>1. /\ m \in unsent /\ unsent' = unsent \ {m} /\ inbox = <<>> /\ inbox' = <<m>>
          /\ UNCHANGED <<cpc, cmsg, decision, decided, denials, violations, reached>>
      BY <1>1 DEF AgentSends, cVars, stateVars, eventVars
    <2>2. \A n : inbox' = <<n>> => n = m
      BY <2>1, SingletonSeq
    <2>3. StopsDecision' <=> StopsDecision
      BY <2>1, <1>c DEF StopsDecision, Unenforced, confVars
    <2>4. /\ cpc' = "act" => /\ decided'[cmsg'].effect = decision'.effect
                            /\ decided'[cmsg'].enforced = StopsDecision'
          /\ denials' \cap reached' = {}
          /\ cpc' = "forward" => cmsg' \notin denials'
          /\ \A n \in violations' : n \in reached' \/ (cpc' = "forward" /\ cmsg' = n)
      BY <2>1, <2>3
    <2>5. \A n \in Msgs : (Acting(n)' <=> Acting(n)) /\ (Undecided(n)' => Undecided(n))
      BY <2>1, <2>2
    <2> HIDE DEF Acting, Undecided
    <2>6. \A n \in Msgs :
            /\ n \in denials' <=>
                 decided'[n].effect = "deny" /\ decided'[n].enforced /\ ~Acting(n)'
            /\ n \in violations' <=>
                 decided'[n].effect = "deny" /\ ~decided'[n].enforced /\ ~Acting(n)'
            /\ Undecided(n)' => decided'[n] = NoEvent
      BY <2>1, <2>5
    <2> QED BY <2>4, <2>6
  <1>2. CASE GRead
    <2>1. PICK m \in Msgs : inbox = <<m>>
      BY <1>2 DEF GRead
    <2>2. /\ cpc = "read" /\ cpc' \in {"track", "prompt", "unread", "observe"}
          /\ cmsg' = m /\ inbox' = <<>>
          /\ UNCHANGED <<unsent, decided, denials, violations, reached>>
      BY <1>2, <2>1, SingletonSeq DEF GRead, stateVars, eventVars, histVars
    <2>3. \A n : inbox' # <<n>>
      BY <2>2, SingletonSeq
    <2> QED BY <2>1, <2>2, <2>3
  <1>3. CASE TrackListing \/ ObservePrompt
    <2>1. /\ cpc \in {"track", "prompt"} /\ cpc' = "forward"
          /\ UNCHANGED <<unsent, inbox, cmsg, decided, denials, violations, reached>>
      BY <1>3 DEF TrackListing, ObservePrompt, peerVars, stateVars, eventVars, histVars
    <2>2. cmsg \in Msgs /\ decided[cmsg] = NoEvent
      BY <2>1
    <2>3. cmsg \notin denials
      BY <2>2 DEF NoEvent
    <2> QED BY <2>1, <2>3
  <1>4. CASE ObserveCall \/ Assess \/ EvaluateCall
    <2>1. /\ cpc \in {"observe", "assess", "evaluate"}
          /\ cpc' \in {"assess", "evaluate", "report"}
          /\ UNCHANGED <<unsent, inbox, cmsg, decided, denials, violations, reached>>
      BY <1>4 DEF ObserveCall, Assess, EvaluateCall, peerVars, stateVars, eventVars, histVars
    <2> QED BY <2>1
  <1>5. CASE RefuseUnread
    <2>1. /\ cpc = "unread" /\ cmsg \in Msgs
          /\ decided' = [decided EXCEPT ![cmsg] =
               [effect |-> "deny", enforced |-> RefusesUnread, changed |-> FALSE]]
          /\ cpc' = IF RefusesUnread THEN "read" ELSE "forward"
          /\ cmsg' = IF RefusesUnread THEN "none" ELSE cmsg
          /\ denials' = IF RefusesUnread THEN denials \cup {cmsg} ELSE denials
          /\ violations' = IF RefusesUnread THEN violations ELSE violations \cup {cmsg}
          /\ UNCHANGED <<unsent, inbox, reached>>
      BY <1>5 DEF RefuseUnread, Record, CountDenied, peerVars, histVars
    <2>2. RefusesUnread \in BOOLEAN
      BY DEF RefusesUnread
    <2>3. cmsg \notin unsent /\ cmsg \notin reached /\ inbox # <<cmsg>>
      BY <2>1 DEF PlaceInv, Held
    <2>4. decided[cmsg] = NoEvent
      BY <2>1
    <2>5. cmsg \notin denials /\ cmsg \notin violations
      BY <2>1, <2>4 DEF NoEvent
    <2>6. CASE RefusesUnread
      BY <2>1, <2>3, <2>4, <2>5, <2>6
    <2>7. CASE ~RefusesUnread
      BY <2>1, <2>3, <2>4, <2>5, <2>7
    <2> QED BY <2>6, <2>7
  <1>6. CASE ReportDecision
    <2>1. /\ cpc = "report" /\ cpc' = "act" /\ cmsg \in Msgs
          /\ decided' = [decided EXCEPT ![cmsg] =
               [effect |-> decision.effect, enforced |-> StopsDecision,
                changed |-> toolOf[cmsg] \in changed]]
          /\ UNCHANGED <<unsent, inbox, cmsg, decision, denials, violations, reached>>
      BY <1>6 DEF ReportDecision, Record, StopsDecision, peerVars, stateVars, histVars
    <2>2. StopsDecision' <=> StopsDecision
      BY <2>1, <1>c DEF StopsDecision, Unenforced, confVars
    <2>3. cmsg \notin unsent /\ cmsg \notin reached /\ inbox # <<cmsg>>
      BY <2>1 DEF PlaceInv, Held
    <2>4. cmsg \notin denials /\ cmsg \notin violations
      BY <2>1 DEF NoEvent
    <2>5. StopsDecision \in BOOLEAN /\ StopsDecision' \in BOOLEAN
      BY DEF StopsDecision
    <2> QED BY <2>1, <2>2, <2>3, <2>4, <2>5
  <1>7. CASE Deny
    <2>1. /\ cpc = "act" /\ cpc' = "read" /\ decision.effect = "deny" /\ StopsDecision
          /\ denials' = denials \cup {cmsg} /\ violations' = violations
          /\ UNCHANGED <<unsent, inbox, decided, reached>>
      BY <1>7 DEF Deny, StopsDecision, CountDenied, peerVars, eventVars, histVars
    <2>2. cmsg \notin unsent /\ cmsg \notin reached /\ inbox # <<cmsg>>
      BY <2>1 DEF PlaceInv, Held
    <2> QED BY <2>1, <2>2
  <1>8. CASE Allow
    <2>1. /\ cpc = "act" /\ cpc' = "forward" /\ ~StopsDecision
          /\ denials' = denials
          /\ violations' = IF decision.effect = "deny" THEN violations \cup {cmsg}
                           ELSE violations
          /\ UNCHANGED <<unsent, inbox, cmsg, decided, reached>>
      BY <1>8 DEF Allow, StopsDecision, CountDenied, peerVars, eventVars, histVars
    <2>2. cmsg \notin unsent /\ cmsg \notin reached /\ inbox # <<cmsg>>
      BY <2>1 DEF PlaceInv, Held
    <2> QED BY <2>1, <2>2
  <1>9. CASE ForwardUp
    <2>1. /\ cpc = "forward" /\ cpc' = "read" /\ reached' = reached \cup {cmsg}
          /\ UNCHANGED <<unsent, inbox, decided, denials, violations>>
      BY <1>9 DEF ForwardUp, stateVars, eventVars
    <2> QED BY <2>1
  <1>10. CASE Server \/ ServerPump \/ UNCHANGED vars
    <2>1. UNCHANGED <<unsent, inbox, cpc, cmsg, decision, decided, denials, violations,
                      reached>>
      BY <1>10 DEF Server, ServerAnswers, ServerCalls, ServerSends, ServerPump, SRead,
         InspectListing, CompleteResponse, ForwardDown, vars, peerVars, stateVars, cVars,
         eventVars, histVars
    <2>2. StopsDecision' <=> StopsDecision
      BY <2>1, <1>c DEF StopsDecision, Unenforced, confVars
    <2> QED BY <2>1, <2>2
  <1> QED BY <1>1, <1>2, <1>3, <1>4, <1>5, <1>6, <1>7, <1>8, <1>9, <1>10
          DEF Next, Agent, ClientPump

LEMMA UnreadNext ==
  ASSUME GatewayType, UnreadInv, [Next]_vars
  PROVE  UnreadInv'
  <1> USE DEF GatewayType, ClientType, UnreadInv
  <1>c. UNCHANGED <<policy, monitor>>
    BY ConfigurationFixed DEF confVars
  <1>h. HasAlwaysEnforce(policy)' <=> HasAlwaysEnforce(policy)
    BY <1>c
  <1>1. CASE RefuseUnread
    <2>1. /\ cpc' = IF RefusesUnread THEN "read" ELSE "forward"
          /\ UNCHANGED reached
      BY <1>1 DEF RefuseUnread, histVars
    <2> QED BY <1>c, <1>h, <2>1 DEF RefusesUnread, Unenforced
  <1>2. CASE TrackListing \/ ObservePrompt \/ Allow
    <2>1. cmsg' = cmsg /\ cmsg \in Calls \cup Lists \cup Prompts /\ UNCHANGED reached
      BY <1>2 DEF TrackListing, ObservePrompt, Allow, histVars
    <2> QED BY <1>c, <1>h, <2>1, GatewayAssumption
  <1>3. CASE ForwardUp
    BY <1>c, <1>h, <1>3 DEF ForwardUp
  <1>4. CASE GRead \/ ObserveCall \/ Assess \/ EvaluateCall \/ ReportDecision \/ Deny
    <2>1. cpc' # "forward" /\ UNCHANGED reached
      BY <1>4 DEF GRead, ObserveCall, Assess, EvaluateCall, ReportDecision, Deny, histVars
    <2> QED BY <1>c, <1>h, <2>1
  <1>5. CASE Agent \/ Server \/ ServerPump \/ UNCHANGED vars
    <2>1. UNCHANGED <<cpc, cmsg, reached>>
      BY <1>5 DEF Agent, AgentSends, Server, ServerAnswers, ServerCalls, ServerSends,
         ServerPump, SRead, InspectListing, CompleteResponse, ForwardDown, vars, cVars,
         histVars
    <2> QED BY <1>c, <1>h, <2>1
  <1> QED BY <1>1, <1>2, <1>3, <1>4, <1>5 DEF Next, ClientPump

LEMMA CompleteNext ==
  ASSUME GatewayType, PlaceInv, LedgerInv, CompleteInv, [Next]_vars
  PROVE  CompleteInv'
  <1> USE DEF GatewayType, ClientType, ServerType, StateType, CompleteInv, Completions
  <1>1. CASE Allow
    <2>1. /\ cpc = "act" /\ cpc' = "forward" /\ cmsg \in Calls
          /\ pending' = pending \cup {x \in {cmsg} : HasId(x)}
          /\ UNCHANGED <<cmsg, spc, smsg, decided, completed, reached, delivered>>
      BY <1>1 DEF Allow, TrackPending, sVars, eventVars, histVars
    <2>2. /\ cmsg \notin reached /\ cmsg \notin delivered
          /\ spc = "forward" /\ IsAnswer(smsg) => smsg[2] # cmsg
      BY <2>1 DEF PlaceInv, Held
    <2>3. decided[cmsg].effect # "none"
      BY <2>1 DEF LedgerInv
    <2> QED BY <2>1, <2>2, <2>3 DEF Admitted, HasId
  <1>2. CASE TrackListing \/ ObservePrompt \/ RefuseUnread
    <2>1. /\ cpc # "forward" /\ cmsg \notin Calls /\ (cpc' = "forward" => cmsg' = cmsg)
          /\ \A m \in Calls : decided'[m] = decided[m]
          /\ UNCHANGED <<pending, spc, smsg, completed, reached, delivered>>
      BY <1>2, GatewayAssumption DEF TrackListing, ObservePrompt, RefuseUnread, Record,
         sVars, eventVars, histVars
    <2> QED BY <2>1 DEF Admitted, HasId
  <1>3. CASE ReportDecision
    <2>1. /\ cpc = "report" /\ cpc' = "act" /\ cmsg \in Calls
          /\ \A m \in Calls : m # cmsg => decided'[m] = decided[m]
          /\ UNCHANGED <<pending, spc, smsg, completed, reached, delivered>>
      BY <1>3 DEF ReportDecision, Record, stateVars, sVars, histVars
    <2>2. cmsg \notin reached
      BY <2>1 DEF PlaceInv, Held
    <2> QED BY <2>1, <2>2 DEF Admitted, HasId
  <1>4. CASE GRead \/ ObserveCall \/ Assess \/ EvaluateCall \/ Deny
    <2>1. /\ cpc # "forward" /\ cpc' # "forward"
          /\ UNCHANGED <<pending, spc, smsg, decided, completed, reached, delivered>>
      BY <1>4 DEF GRead, ObserveCall, Assess, EvaluateCall, Deny, stateVars, sVars,
         eventVars, histVars
    <2> QED BY <2>1 DEF Admitted, HasId
  <1>5. CASE ForwardUp
    <2>1. /\ cpc = "forward" /\ cpc' = "read" /\ reached' = reached \cup {cmsg}
          /\ UNCHANGED <<pending, spc, smsg, decided, completed, delivered>>
      BY <1>5 DEF ForwardUp, stateVars, sVars, eventVars
    <2> QED BY <2>1 DEF Admitted, HasId
  <1>6. CASE CompleteResponse
    <2>1. /\ spc = "complete" /\ spc' = "forward" /\ smsg \in ServerMsgs /\ smsg' = smsg
          /\ pending' = pending \ {smsg[2]}
          /\ completed' = IF Completes(smsg) THEN completed \cup {<<smsg[1], smsg[2]>>}
                           ELSE completed
          /\ UNCHANGED <<cpc, cmsg, decided, reached, delivered>>
      BY <1>6 DEF CompleteResponse, cVars, histVars
    <2>2. CASE Completes(smsg)
      <3>1. /\ smsg[2] \in Calls /\ Completions(smsg[2])' = {<<smsg[1], smsg[2]>>}
            /\ smsg[1] \in {"listing", "result", "error", "call"}
        BY <2>1, <2>2 DEF Completes, ServerMsgs
      <3>2. \A m \in Calls : m # smsg[2] => Completions(m)' = Completions(m)
        BY <2>1
      <3> QED BY <2>1, <2>2, <3>1, <3>2 DEF Admitted, HasId, Completes
    <2>3. CASE ~Completes(smsg)
      BY <2>1, <2>3 DEF Admitted, HasId, Completes
    <2> QED BY <2>2, <2>3
  <1>7. CASE ForwardDown
    <2>1. /\ spc = "forward" /\ spc' = "read"
          /\ delivered' = IF smsg[1] = "call" THEN delivered ELSE delivered \cup {smsg[2]}
          /\ UNCHANGED <<cpc, cmsg, pending, decided, completed, reached>>
      BY <1>7 DEF ForwardDown, cVars, stateVars, eventVars
    <2> QED BY <2>1 DEF Admitted, HasId, PlaceInv, IsAnswer
  <1>8. CASE SRead \/ InspectListing
    <2>1. /\ spc' # "forward"
          /\ UNCHANGED <<cpc, cmsg, pending, decided, completed, reached, delivered>>
      BY <1>8 DEF SRead, InspectListing, cVars, stateVars, eventVars, histVars
    <2> QED BY <2>1 DEF Admitted, HasId
  <1>9. CASE Agent \/ Server \/ UNCHANGED vars
    <2>1. UNCHANGED <<cpc, cmsg, spc, smsg, pending, decided, completed, reached, delivered>>
      BY <1>9 DEF Agent, AgentSends, Server, ServerAnswers, ServerCalls, ServerSends, vars,
         cVars, sVars, stateVars, eventVars, histVars
    <2> QED BY <2>1 DEF Admitted, HasId, IsAnswer
  <1> QED BY <1>1, <1>2, <1>3, <1>4, <1>5, <1>6, <1>7, <1>8, <1>9
          DEF Next, ClientPump, ServerPump

-----------------------------------------------------------------------------
(* Every session.                                                          *)

LEMMA GatewayInit == Init => GatewayInv
  <1> SUFFICES ASSUME Init
               PROVE  GatewayInv
    OBVIOUS
  <1>1. /\ inbox = <<>> /\ outbox = <<>> /\ \A x : <<>> # <<x>>
        /\ cpc = "read" /\ spc = "read" /\ unsent = Msgs /\ inflight = {} /\ pending = {}
        /\ listings = {} /\ denials = {} /\ violations = {} /\ observed = 0
        /\ completed = {} /\ suspect = {} /\ reached = {} /\ delivered = {}
        /\ view = Nothing /\ \A m \in Msgs : decided[m] = NoEvent
    BY DEF Init
  <1>2. DriftInv
    BY DriftInit DEF Init
  <1>3. GatewayType
    BY TypeInit
  <1>4. PlaceInv
    BY <1>1 DEF PlaceInv, Held
  <1>5. ShownInv
    BY <1>1 DEF ShownInv, Nothing
  <1>6. RugPullInv
    BY <1>1 DEF RugPullInv
  <1>7. CountInv
    <2>1. ObservedCalls = {} /\ ObservedPrompts = {} /\ FailedCalls = {}
      BY <1>1 DEF ObservedCalls, ObservedPrompts, FailedCalls, Msgs
    <2> QED BY <1>1, <2>1, FS_EmptySet DEF CountInv
  <1>8. BurstInv
    <2>1. reached \cap Calls = {}
      BY <1>1
    <2> QED BY <1>1, <2>1, FS_EmptySet, GatewayAssumption DEF BurstInv, Passing
  <1>9. LedgerInv
    BY <1>1 DEF LedgerInv, NoEvent
  <1>10. UnreadInv
    BY <1>1 DEF UnreadInv
  <1>11. CompleteInv
    BY <1>1 DEF CompleteInv, Admitted, Completions
  <1> QED BY <1>2, <1>3, <1>4, <1>5, <1>6, <1>7, <1>8, <1>9, <1>10, <1>11 DEF GatewayInv

LEMMA GatewayNext ==
  ASSUME GatewayInv, [Next]_vars
  PROVE  GatewayInv'
  <1> USE DEF GatewayInv
  <1>1. GatewayType'
    BY ClientTypeNext, ServerTypeNext, StateTypeNext DEF GatewayType
  <1>2. DriftInv'
    BY InventoryStep, DriftNext
  <1>3. PlaceInv' /\ CountInv' /\ LedgerInv' /\ UnreadInv' /\ CompleteInv'
    BY PlaceNext, CountNext, LedgerNext, UnreadNext, CompleteNext
  <1>4. ShownInv' /\ RugPullInv' /\ BurstInv'
    BY <1>2, ShownNext, RugPullNext, BurstNext
  <1> QED BY <1>1, <1>2, <1>3, <1>4

LEMMA GatewayInvariant == Spec => []GatewayInv
  <1>1. GatewayInv /\ [Next]_vars => GatewayInv'
    BY GatewayNext
  <1> QED BY <1>1, GatewayInit, PTL DEF Spec

\* Every variable of the gateway keeps its type, and the detector records each
\* call at most twice, once when it is made and once when it fails.
THEOREM GatewayTypeCorrect == Spec => []TypeOK
  <1>1. GatewayInv => TypeOK
    <2> SUFFICES ASSUME GatewayInv
                 PROVE  TypeOK
      OBVIOUS
    <2>1. observed \in 0 .. 2 * Cardinality(Calls) + Cardinality(Prompts)
      BY RecordedFinite DEF GatewayInv, CountInv
    <2>2. \A m \in Msgs : decided[m].effect \in {"none"} \cup Effects
      BY DEF GatewayInv, GatewayType, StateType, Events
    <2> QED BY <2>1, <2>2 DEF TypeOK, GatewayInv, GatewayType, ClientType, ServerType,
            StateType, DriftInv
  <1> QED BY <1>1, GatewayInvariant, PTL

\* inspectToolListing flags a tool before the listing that changes it is shown:
\* no call an agent makes under a changed definition gets through a policy that
\* denies changed tools, whatever the two pumps do meanwhile.
THEOREM RugPullIsStopped == Spec => []RugPullStopped
  <1>1. GatewayInv => RugPullStopped
    BY DEF GatewayInv, RugPullInv, RugPullStopped
  <1> QED BY <1>1, GatewayInvariant, PTL

\* The drift of the inventory, when it is the server pump that observes.
THEOREM GatewayDriftCorrect == Spec => []ChangedIsDrift
  <1>1. GatewayInv => ChangedIsDrift
    BY DEF GatewayInv, DriftInv
  <1> QED BY <1>1, GatewayInvariant, PTL

\* observe-then-assess makes a rate rule refuse the call that completes the
\* burst: at most Limit calls reach the server, however responses interleave.
THEOREM BurstIsBounded == Spec => []BurstBounded
  <1>1. GatewayInv => BurstBounded
    BY DEF GatewayInv, BurstInv, BurstBounded
  <1> QED BY <1>1, GatewayInvariant, PTL

\* The counters of the session report, the decision events and what was
\* forwarded agree whenever the client pump is between two messages.
THEOREM LedgerAlwaysAgrees == Spec => []LedgerAgrees
  <1>1. GatewayInv => LedgerAgrees
    BY DEF GatewayInv, LedgerInv, Acting, LedgerAgrees, GatewayType, StateType
  <1> QED BY <1>1, GatewayInvariant, PTL

\* refuseUnreadable and RejectUnparseable keep what cannot be read from the
\* server unless the session is in monitor mode without an always_enforce rule.
THEOREM UnreadNeverForwarded == Spec => []UnreadNeverPasses
  <1>1. GatewayInv => UnreadNeverPasses
    BY DEF GatewayInv, UnreadInv, UnreadNeverPasses
  <1> QED BY <1>1, GatewayInvariant, PTL

\* completeResponse records one completion of each call whose response was
\* forwarded, and none before its decision.
THEOREM CompletedExactlyOnce == Spec => []CompletedOnce
  <1>1. GatewayInv => CompletedOnce
    <2> SUFFICES ASSUME GatewayInv
                 PROVE  CompletedOnce
      OBVIOUS
    <2> USE DEF GatewayInv
    <2>1. ASSUME NEW c \in completed
          PROVE  c[2] \in Calls /\ decided[c[2]].effect # "none"
      <3>1. c[2] \in Calls /\ Completions(c[2]) # {}
        BY <2>1 DEF GatewayType, StateType, Completions
      <3> QED BY <3>1 DEF CompleteInv
    <2>2. ASSUME NEW m \in delivered \cap Calls
          PROVE  Cardinality({c \in completed : c[2] = m}) = 1
      <3>1. \E kind \in {"listing", "result", "error", "call"} :
              Completions(m) = {<<kind, m>>}
        BY <2>2 DEF CompleteInv, Admitted, PlaceInv
      <3> QED BY <3>1, FS_Singleton DEF Completions
    <2> QED BY <2>1, <2>2 DEF CompletedOnce
  <1> QED BY <1>1, GatewayInvariant, PTL
=============================================================================
