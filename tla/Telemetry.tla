----------------------------- MODULE Telemetry -----------------------------
(***************************************************************************)
(* telemetry.Telemetry: the span of each call the gateway decides, from    *)
(* ToolCallDecided to its end.  Three goroutines end spans: the client     *)
(* pump, the server pump and the sweeper, and Shutdown stops the last.     *)
(* Each takes the span out of the map under the lock and ends it after.    *)
(* Of the gateway there is what drives it: pendingCall, and the order of   *)
(* decision, trackPending and forward.  completeResponse looks at the id   *)
(* of a message of the server's and at nothing else, so the server also    *)
(* sends messages that answer none of the agent's requests under its ids.  *)
(***************************************************************************)
EXTENDS Naturals, Sequences

CONSTANTS
  Calls,    \* tool calls, each decided once
  Ids,      \* JSON-RPC ids
  IdOf,     \* the id of each call, NoId for a notification
  NoId,
  None,     \* no call
  Colliding, \* ids the server uses for messages of its own
  MaxOwn,   \* such messages
  Verdicts  \* what may be decided of each call: of "allow", "deny", "breach", "unread"

ASSUME TelemetryAssumption ==
  /\ NoId \notin Ids /\ None \notin Calls /\ IdOf \in [Calls -> Ids \cup {NoId}]
  /\ Verdicts \in [Calls -> SUBSET {"allow", "deny", "breach", "unread"}]
  /\ Colliding \subseteq Ids /\ MaxOwn \in Nat

VARIABLES
  unsent,           \* calls the agent has not made
  cpc, ccall,       \* client pump
  verdict,          \* what was decided of each call
  inflight,         \* forwarded, not answered
  answer,           \* what the server answered
  own,              \* messages the server has sent that are no answer
  spc,              \* server pump
  sid, said, scall, \*   its message: the id, what it says, the call it answers
  matched,          \*   the pending call of that id
  hand,             \*   the span it has taken out of the map for it
  delivered,        \* calls whose answer has been forwarded
  pending,          \* Gateway.pending
  spans,            \* Telemetry.spans
  aged,             \* calls whose span is older than SpanTTL
  wpc, taken,       \* sweeper, and the spans it has taken out of the map
  phase,            \* the process: "running", "stopping" or "down"
  gaveUp,           \* Shutdown's context ended before the sweeper
  \* History.
  ended,            \* the status of each span at each End
  dropped,          \* spans ended after the provider was shut down
  inTime,           \* calls completed before their span was too old
  heard,            \* what the message said that a call was completed by
  collided          \* calls completed by a message that was not their answer

agentVars == <<unsent, cpc, ccall, verdict>>
wireVars  == <<inflight, answer, own, delivered>>
gotVars   == <<sid, said, scall, matched>>
heardVars == <<heard, collided>>
pumpVars  == <<agentVars, wireVars, spc, gotVars, heardVars>>
sweepVars == <<wpc, taken, phase, gaveUp>>
vars == <<pumpVars, hand, pending, spans, aged, sweepVars, ended, dropped, inTime>>

Init ==
  /\ unsent = Calls /\ cpc = "idle" /\ ccall = None
  /\ verdict = [c \in Calls |-> "none"]
  /\ inflight = {} /\ answer = [c \in Calls |-> "none"]
  /\ own = 0 /\ delivered = {}
  /\ spc = "idle" /\ sid = NoId /\ said = "none" /\ scall = None /\ matched = None
  /\ hand = None
  /\ pending = [i \in Ids |-> None] /\ spans = [i \in Ids |-> None] /\ aged = {}
  /\ wpc = "wait" /\ taken = {} /\ phase = "running" /\ gaveUp = FALSE
  /\ ended = [c \in Calls |-> <<>>] /\ dropped = {} /\ inTime = {}
  /\ heard = [c \in Calls |-> "none"] /\ collided = {}

Open == {spans[i] : i \in Ids} \ {None}

\* Span.SetStatus and Span.End: Ok replaces an error, an error replaces another,
\* so that the status set last is the one exported; a provider that has been
\* shut down drops the span.
End(c, status) ==
  /\ ended' = [ended EXCEPT ![c] = Append(@, status)]
  /\ dropped' = IF phase = "down" THEN dropped \cup {c} ELSE dropped

NoEnd == UNCHANGED <<ended, dropped>>

-----------------------------------------------------------------------------
(* The client pump.  An id is used again only once its call was answered.  *)

StartStatus(v) == IF v \in {"breach", "unread"} THEN "breach" ELSE "unset"

\* ToolCallDecided: "breach" is a deny that monitor mode lets through,
\* "unread" one of a request it cannot read.  A notification has no span in the
\* map, a call that is refused neither.
ToolCallDecided(c, v) ==
  /\ cpc = "idle" /\ c \in unsent
  /\ \A d \in Calls \ unsent :
       IdOf[d] # NoId /\ IdOf[d] = IdOf[c] => d \in delivered \/ verdict[d] = "deny"
  /\ unsent' = unsent \ {c} /\ verdict' = [verdict EXCEPT ![c] = v]
  /\ IF v = "deny" THEN End(c, "denied") /\ UNCHANGED spans
     ELSE IF IdOf[c] = NoId THEN End(c, StartStatus(v)) /\ UNCHANGED spans
     ELSE spans' = [spans EXCEPT ![IdOf[c]] = c] /\ NoEnd
  /\ cpc' = CASE v = "deny" -> "idle" [] v = "unread" -> "forward" [] OTHER -> "track"
  /\ ccall' = IF v = "deny" THEN None ELSE c
  /\ UNCHANGED <<wireVars, spc, gotVars, heardVars>>
  /\ UNCHANGED <<hand, pending, aged, sweepVars, inTime>>

TrackPending ==
  /\ cpc = "track" /\ cpc' = "forward"
  /\ pending' = [i \in Ids |-> IF i = IdOf[ccall] THEN ccall ELSE pending[i]]
  /\ UNCHANGED <<unsent, ccall, verdict, wireVars, spc, gotVars, heardVars>>
  /\ UNCHANGED <<hand, spans, aged, sweepVars, inTime>> /\ NoEnd

ForwardUp ==
  /\ cpc = "forward" /\ cpc' = "idle" /\ ccall' = None
  /\ inflight' = IF IdOf[ccall] = NoId THEN inflight ELSE inflight \cup {ccall}
  /\ UNCHANGED <<unsent, verdict, answer, own, delivered, spc, gotVars, heardVars>>
  /\ UNCHANGED <<hand, pending, spans, aged, sweepVars, inTime>> /\ NoEnd

-----------------------------------------------------------------------------
(* The server pump.  Run has waited for it when the process shuts down.    *)

Receives(i, how, c) ==
  /\ phase = "running" /\ spc = "idle" /\ spc' = "complete"
  /\ sid' = i /\ said' = how /\ scall' = c
  /\ UNCHANGED <<agentVars, delivered, matched, heardVars>>
  /\ UNCHANGED <<hand, pending, spans, aged, sweepVars, inTime>> /\ NoEnd

ServerAnswers(c, how) ==
  /\ c \in inflight /\ Receives(IdOf[c], how, c)
  /\ inflight' = inflight \ {c} /\ answer' = [answer EXCEPT ![c] = how]
  /\ UNCHANGED own

\* A request of the server's own, which says "ok" as it has no error, or a
\* second answer, under an id that the agent uses too.
ServerSends(i, how) ==
  /\ own < MaxOwn /\ own' = own + 1 /\ Receives(i, how, None)
  /\ UNCHANGED <<inflight, answer>>

\* completeResponse, under the gateway's lock: whatever message carries the id.
CompleteResponse ==
  /\ spc = "complete"
  /\ matched' = pending[sid] /\ pending' = [pending EXCEPT ![sid] = None]
  /\ spc' = IF matched' = None THEN "forward" ELSE "observe"
  /\ IF matched' = None THEN UNCHANGED heardVars
     ELSE /\ heard' = [heard EXCEPT ![matched'] = said]
          /\ collided' = IF matched' = scall THEN collided ELSE collided \cup {matched'}
  /\ UNCHANGED <<agentVars, wireVars, sid, said, scall>>
  /\ UNCHANGED <<hand, spans, aged, sweepVars, inTime>> /\ NoEnd

\* Variant: the span stays in the map while it is ended.
ToolCallCompletedKeeping ==
  /\ spc = "observe"
  /\ hand' = spans[sid]
  /\ inTime' = IF matched \in aged THEN inTime ELSE inTime \cup {matched}
  /\ spc' = IF hand' = None THEN "forward" ELSE "end"
  /\ UNCHANGED <<agentVars, wireVars, gotVars, heardVars>>
  /\ UNCHANGED <<pending, spans, aged, sweepVars>> /\ NoEnd

\* ToolCallCompleted, as far as it holds the lock.
ToolCallCompleted ==
  /\ spc = "observe"
  /\ hand' = spans[sid] /\ spans' = [spans EXCEPT ![sid] = None]
  /\ inTime' = IF matched \in aged THEN inTime ELSE inTime \cup {matched}
  /\ spc' = IF hand' = None THEN "forward" ELSE "end"
  /\ UNCHANGED <<agentVars, wireVars, gotVars, heardVars>>
  /\ UNCHANGED <<pending, aged, sweepVars>> /\ NoEnd

\* The rest of it.
EndCompleted ==
  /\ spc = "end" /\ spc' = "forward"
  /\ End(hand, said) /\ hand' = None
  /\ UNCHANGED <<agentVars, wireVars, gotVars, heardVars>>
  /\ UNCHANGED <<pending, spans, aged, sweepVars, inTime>>

ForwardDown ==
  /\ spc = "forward" /\ spc' = "idle"
  /\ sid' = NoId /\ said' = "none" /\ scall' = None /\ matched' = None
  /\ delivered' = IF scall = None THEN delivered ELSE delivered \cup {scall}
  /\ UNCHANGED <<agentVars, inflight, answer, own, heardVars>>
  /\ UNCHANGED <<hand, pending, spans, aged, sweepVars, inTime>> /\ NoEnd

-----------------------------------------------------------------------------
(* The sweeper and Shutdown.                                               *)

\* SpanTTL passes for what is open.
TimePasses ==
  /\ ~Open \subseteq aged /\ aged' = aged \cup Open
  /\ UNCHANGED <<pumpVars, hand, pending, spans, sweepVars, inTime>> /\ NoEnd

Without(cs) == [i \in Ids |-> IF spans[i] \in cs THEN None ELSE spans[i]]

\* Variant: everything open is expired, whatever its age.
ExpireSpansAll ==
  /\ wpc = "wait" /\ Open # {}
  /\ taken' = Open /\ spans' = Without(Open) /\ wpc' = "expired"
  /\ UNCHANGED <<pumpVars, hand, pending, aged, phase, gaveUp, inTime>> /\ NoEnd

\* A tick of expireSpans that finds something, as far as it holds the lock.
ExpireSpans ==
  /\ wpc = "wait" /\ Open \cap aged # {}
  /\ taken' = Open \cap aged /\ spans' = Without(aged) /\ wpc' = "expired"
  /\ UNCHANGED <<pumpVars, hand, pending, aged, phase, gaveUp, inTime>> /\ NoEnd

\* Variant: the sweeper stops and leaves what is open.
CloseNoSpans ==
  /\ wpc = "wait" /\ phase # "running"
  /\ wpc' = "closed"
  /\ UNCHANGED <<taken, spans>>
  /\ UNCHANGED <<pumpVars, hand, pending, aged, phase, gaveUp, inTime>> /\ NoEnd

\* closeAllSpans, once the context is done.
CloseAllSpans ==
  /\ wpc = "wait" /\ phase # "running"
  /\ taken' = Open /\ spans' = Without(Open) /\ wpc' = "closed"
  /\ UNCHANGED <<pumpVars, hand, pending, aged, phase, gaveUp, inTime>> /\ NoEnd

EndTaken ==
  /\ \E c \in taken :
       /\ taken' = taken \ {c}
       /\ End(c, IF wpc = "expired" THEN "never answered" ELSE "shutting down")
  /\ UNCHANGED <<pumpVars, hand, pending, spans, aged, wpc, phase, gaveUp, inTime>>

SweeperLoops ==
  /\ taken = {}
  /\ \/ wpc = "expired" /\ wpc' = "wait"
     \/ wpc = "closed" /\ wpc' = "done"
  /\ UNCHANGED <<pumpVars, hand, pending, spans, aged, taken, phase, gaveUp, inTime>> /\ NoEnd

\* Run has returned: the server pump is done, the client pump may not be.
StopSweeper ==
  /\ phase = "running" /\ spc = "idle" /\ phase' = "stopping"
  /\ UNCHANGED <<pumpVars, hand, pending, spans, aged, wpc, taken, gaveUp, inTime>> /\ NoEnd

\* Variant: the provider is shut down without a wait.
TearDownAtOnce ==
  /\ phase = "stopping" /\ phase' = "down"
  /\ UNCHANGED <<pumpVars, hand, pending, spans, aged, wpc, taken, gaveUp, inTime>> /\ NoEnd

\* The provider is shut down when the sweeper is done or the context is.
TearDown ==
  /\ phase = "stopping" /\ phase' = "down"
  /\ gaveUp' \in {b \in BOOLEAN : b \/ wpc = "done"}
  /\ UNCHANGED <<pumpVars, hand, pending, spans, aged, wpc, taken, inTime>> /\ NoEnd

-----------------------------------------------------------------------------
ClientPump ==
  (\E c \in Calls : \E v \in Verdicts[c] : ToolCallDecided(c, v)) \/ TrackPending \/ ForwardUp
Server     ==
  \E how \in {"ok", "error"} :
    (\E c \in Calls : ServerAnswers(c, how)) \/ (\E i \in Colliding : ServerSends(i, how))
ServerPump == CompleteResponse \/ ToolCallCompleted \/ EndCompleted \/ ForwardDown
Sweeper    == ExpireSpans \/ CloseAllSpans \/ EndTaken \/ SweeperLoops

Next == ClientPump \/ Server \/ ServerPump \/ Sweeper \/ TimePasses \/ StopSweeper \/ TearDown

\* Time passes, and the pumps and the sweeper run; the agent need not call, the
\* server need not answer, and the session need not end.
Spec ==
  /\ Init /\ [][Next]_vars
  /\ WF_vars(TrackPending \/ ForwardUp) /\ WF_vars(ServerPump)
  /\ WF_vars(Sweeper) /\ WF_vars(TimePasses)

-----------------------------------------------------------------------------
\* Every span ends once at most, whoever gets to it first, and never while it is
\* in the map: not one is exported twice or ended by a goroutine that does not
\* own it.
EndsOnce ==
  \A c \in Calls :
    /\ Len(ended[c]) <= 1
    /\ c \in Open \cup taken \cup {hand} => ended[c] = <<>>
    /\ c \in Open => c \notin taken \cup {hand}
    /\ ~(c \in taken /\ c = hand)

\* A denied call's span says so.  That of a call completed before it was too old
\* says what the message said that completed the call, whatever the sweeper and
\* the shutdown do meanwhile; no other says that a call went well or failed.  And
\* unless a message that was not its answer came first under its id, which the
\* gateway takes for the answer, that is how the call was answered.
SaysWhatHappened ==
  \A c \in Calls : ended[c] # <<>> =>
    LET status == ended[c][1] IN
    /\ verdict[c] = "deny" <=> status = "denied"
    /\ status \in {"ok", "error"} \/ c \in inTime => status = heard[c]
    /\ status \in {"ok", "error"} /\ c \notin collided => status = answer[c]

\* "Wait for the sweeper to close outstanding spans before the provider is torn
\* down, otherwise they are dropped instead of exported": what was open when
\* the sweeper stopped is not dropped, unless Shutdown's context ended first.
SweptAreExported ==
  ~gaveUp => \A c \in dropped : ended[c][1] \notin {"never answered", "shutting down"}

\* A span is not held for ever: what is in the map while the sweeper runs ends,
\* answered or not.  The span of an unreadable call is never completed, and is
\* replaced if its id is used again.
EverySpanEnds ==
  \A c \in Calls :
    verdict[c] # "unread" /\ c \in Open /\ wpc \in {"wait", "expired"}
      ~> ended[c] # <<>>

\* A call that monitor mode let through is "marked as an error so the breach is
\* visible in a trace".
BreachIsVisible ==
  \A c \in Calls : verdict[c] = "breach" /\ ended[c] # <<>> => ended[c][1] # "ok"
=============================================================================
