--------------------------- MODULE TelemetryProofs ---------------------------
(***************************************************************************)
(* The spans of a session, for any calls, ids and verdicts: however the    *)
(* pumps, the sweeper and the shutdown get in each other's way, a span     *)
(* ends once, and with what became of its call.                            *)
(***************************************************************************)
EXTENDS Telemetry, TLAPS

Statuses == {"denied", "breach", "unset", "ok", "error", "never answered", "shutting down"}

PumpType ==
  /\ unsent \subseteq Calls /\ cpc \in {"idle", "track", "forward"}
  /\ cpc # "idle" => ccall \in Calls
  /\ verdict \in [Calls -> {"none", "allow", "deny", "breach", "unread"}]
  /\ inflight \subseteq Calls /\ delivered \subseteq Calls
  /\ answer \in [Calls -> {"none", "ok", "error"}]
  /\ spc \in {"idle", "complete", "observe", "end", "forward"}
  /\ spc # "idle" => sid \in Ids /\ said \in {"ok", "error"}
  /\ scall \in Calls \cup {None} /\ matched \in Calls \cup {None}
  /\ spc \in {"observe", "end"} => matched # None
  /\ heard \in [Calls -> {"none", "ok", "error"}] /\ collided \subseteq Calls
  /\ hand \in Calls \cup {None} /\ (hand # None <=> spc = "end")

SpanType ==
  /\ pending \in [Ids -> Calls \cup {None}] /\ spans \in [Ids -> Calls \cup {None}]
  /\ aged \subseteq Calls /\ taken \subseteq Calls
  /\ wpc \in {"wait", "expired", "closed", "done"}
  /\ phase \in {"running", "stopping", "down"} /\ gaveUp \in BOOLEAN
  /\ DOMAIN ended = Calls
  /\ \A c \in Calls : ended[c] = <<>> \/ \E s \in Statuses : ended[c] = <<s>>
  /\ dropped \subseteq Calls /\ inTime \subseteq Calls

\* A call is with the agent, the client pump, the server, the server pump, or
\* done with: in one of these places at a time, and answered once.
PlaceInv ==
  /\ \A c \in unsent :
       /\ ended[c] = <<>> /\ verdict[c] = "none" /\ answer[c] = "none"
       /\ c \notin inflight \cup delivered \cup aged
  /\ \A c \in inflight :
       /\ answer[c] = "none" /\ verdict[c] # "deny" /\ IdOf[c] \in Ids
       /\ c \notin delivered
  /\ cpc # "idle" =>
       /\ ccall \notin unsent \cup inflight \cup delivered
       /\ answer[ccall] = "none" /\ verdict[ccall] # "deny"
  /\ spc # "idle" =>
       /\ phase = "running"
       /\ scall # None =>
            /\ scall \notin unsent \cup inflight \cup delivered
            /\ answer[scall] = said /\ verdict[scall] # "deny" /\ IdOf[scall] = sid
  /\ spc = "idle" => scall = None

\* A span that has not ended has one owner: the map, the sweeper or the server
\* pump.
OwnerInv ==
  /\ \A i \in Ids : spans[i] # None =>
       LET c == spans[i] IN
       /\ IdOf[c] = i /\ c \notin unsent /\ verdict[c] # "deny" /\ ended[c] = <<>>
       /\ c \notin taken /\ c # hand
  /\ \A c \in taken :
       c \notin unsent /\ verdict[c] # "deny" /\ ended[c] = <<>> /\ c # hand
  /\ hand # None => hand = matched /\ ended[hand] = <<>>

\* A call that has an id and waits for its answer, or has it but not forwarded;
\* one that no message has completed, or only just.
Waits(c) ==
  /\ c \notin unsent \cup delivered /\ verdict[c] # "deny" /\ IdOf[c] \in Ids
Unseen(c) == Waits(c) /\ (heard[c] = "none" \/ (spc = "observe" /\ c = matched))

\* What is pending waits and has not been completed; what completes a call stays
\* what it was, and is its answer unless it collided.
PendingInv ==
  /\ \A i \in Ids : pending[i] # None =>
       LET c == pending[i] IN
       /\ IdOf[c] = i /\ Waits(c) /\ heard[c] = "none"
       /\ cpc = "track" => c # ccall
       /\ c = scall => spc = "complete"
  /\ cpc = "track" => heard[ccall] = "none"
  /\ \A c \in unsent : heard[c] = "none"
  /\ spc \in {"observe", "end"} =>
       IdOf[matched] = sid /\ heard[matched] = said /\ Waits(matched)
  /\ \A c \in Calls : heard[c] # "none" /\ c \notin collided => heard[c] = answer[c]

\* No other span is under the id of a call that waits; and its own is, until
\* it is completed or too old, or the session stops.
LatestInv ==
  \A c \in Calls :
    /\ Waits(c) => spans[IdOf[c]] \in {c, None}
    /\ Unseen(c) /\ c \notin aged /\ phase = "running" => spans[IdOf[c]] = c

\* A call that was completed in time is about to be ended so, or was.
InTimeInv ==
  \A c \in inTime : heard[c] # "none" /\ (c = hand \/ ended[c] # <<>>)

\* The sweeper holds spans between taking them and ending them, and the
\* provider goes down after it unless Shutdown gave up.
SweeperInv ==
  /\ wpc \in {"wait", "done"} => taken = {}
  /\ wpc \in {"closed", "done"} => phase # "running"
  /\ phase # "down" => ~gaveUp /\ dropped = {}
  /\ phase = "down" /\ ~gaveUp => wpc = "done"
  /\ \A c \in dropped : ended[c] # <<>>

TelemetryInv ==
  /\ PumpType /\ SpanType /\ PlaceInv /\ OwnerInv /\ PendingInv /\ LatestInv
  /\ InTimeInv /\ SweeperInv
  /\ SaysWhatHappened /\ SweptAreExported

-----------------------------------------------------------------------------
(* The steps that end no span.                                             *)

LEMMA TrackPendingKeeps ==
  ASSUME TelemetryInv, TrackPending
  PROVE  TelemetryInv'
  <1> USE DEF TelemetryInv, TrackPending, NoEnd, pumpVars, agentVars, wireVars, gotVars,
             heardVars, sweepVars
  <1>1. PumpType'
    BY TelemetryAssumption DEF PumpType, PlaceInv
  <1>2. SpanType'
    BY TelemetryAssumption DEF SpanType, PumpType
  <1>3. PlaceInv'
    BY TelemetryAssumption DEF PlaceInv, PumpType, OwnerInv
  <1>4. OwnerInv'
    BY TelemetryAssumption DEF OwnerInv, SpanType, PumpType, PlaceInv
  <1>5. LatestInv'
    BY TelemetryAssumption DEF LatestInv, Waits, Unseen, PlaceInv, OwnerInv, PumpType, SpanType
  <1>6. InTimeInv'
    BY TelemetryAssumption DEF InTimeInv, LatestInv, PlaceInv, OwnerInv, PumpType, SpanType
  <1>7. SweeperInv'
    BY TelemetryAssumption DEF SweeperInv, PlaceInv, SpanType
  <1>8. SaysWhatHappened'
    BY DEF SaysWhatHappened, PlaceInv
  <1>9. SweptAreExported'
    BY DEF SweptAreExported, SweeperInv
  <1>10. PendingInv'
    BY TelemetryAssumption DEF PendingInv, Waits, PlaceInv, PumpType, SpanType
  <1> QED BY <1>1, <1>2, <1>3, <1>4, <1>5, <1>6, <1>7, <1>8, <1>9, <1>10

LEMMA ForwardUpKeeps ==
  ASSUME TelemetryInv, ForwardUp
  PROVE  TelemetryInv'
  <1> USE DEF TelemetryInv, ForwardUp, NoEnd, pumpVars, agentVars, wireVars, gotVars,
             heardVars, sweepVars
  <1>1. PumpType'
    BY TelemetryAssumption DEF PumpType, PlaceInv
  <1>2. SpanType'
    BY TelemetryAssumption DEF SpanType, PumpType
  <1>3. PlaceInv'
    BY TelemetryAssumption DEF PlaceInv, PumpType, OwnerInv
  <1>4. OwnerInv'
    BY TelemetryAssumption DEF OwnerInv, SpanType, PumpType, PlaceInv
  <1>5. LatestInv'
    BY TelemetryAssumption DEF LatestInv, Waits, Unseen, PlaceInv, OwnerInv, PumpType, SpanType
  <1>6. InTimeInv'
    BY TelemetryAssumption DEF InTimeInv, LatestInv, PlaceInv, OwnerInv, PumpType, SpanType
  <1>7. SweeperInv'
    BY TelemetryAssumption DEF SweeperInv, PlaceInv, SpanType
  <1>8. SaysWhatHappened'
    BY DEF SaysWhatHappened, PlaceInv
  <1>9. SweptAreExported'
    BY DEF SweptAreExported, SweeperInv
  <1>10. PendingInv'
    BY TelemetryAssumption DEF PendingInv, Waits, PlaceInv, PumpType, SpanType
  <1> QED BY <1>1, <1>2, <1>3, <1>4, <1>5, <1>6, <1>7, <1>8, <1>9, <1>10

LEMMA ServerAnswersKeeps ==
  ASSUME TelemetryInv, NEW c \in Calls, NEW how \in {"ok", "error"}, ServerAnswers(c, how)
  PROVE  TelemetryInv'
  <1> USE DEF TelemetryInv, ServerAnswers, Receives, NoEnd, pumpVars, agentVars, wireVars, gotVars,
             heardVars, sweepVars
  <1>1. PumpType'
    BY TelemetryAssumption DEF PumpType, PlaceInv
  <1>2. SpanType'
    BY TelemetryAssumption DEF SpanType, PumpType
  <1>3. PlaceInv'
    BY TelemetryAssumption DEF PlaceInv, PumpType, OwnerInv
  <1>4. OwnerInv'
    BY TelemetryAssumption DEF OwnerInv, SpanType, PumpType, PlaceInv
  <1>5. LatestInv'
    BY TelemetryAssumption DEF LatestInv, Waits, Unseen, PlaceInv, OwnerInv, PumpType, SpanType
  <1>6. InTimeInv'
    BY TelemetryAssumption DEF InTimeInv, LatestInv, PlaceInv, OwnerInv, PumpType, SpanType
  <1>7. SweeperInv'
    BY TelemetryAssumption DEF SweeperInv, PlaceInv, SpanType
  <1>8. SaysWhatHappened'
    <2>1. /\ UNCHANGED <<ended, verdict, inTime, heard, collided>> /\ answer[c] = "none"
          /\ \A d \in Calls : d # c => answer'[d] = answer[d]
      BY DEF PlaceInv, PumpType
    <2> QED BY <2>1 DEF SaysWhatHappened
  <1>9. SweptAreExported'
    BY DEF SweptAreExported, SweeperInv
  <1>10. PendingInv'
    BY TelemetryAssumption DEF PendingInv, Waits, PlaceInv, PumpType, SpanType
  <1> QED BY <1>1, <1>2, <1>3, <1>4, <1>5, <1>6, <1>7, <1>8, <1>9, <1>10

LEMMA ServerSendsKeeps ==
  ASSUME TelemetryInv, NEW i \in Ids, NEW how \in {"ok", "error"}, ServerSends(i, how)
  PROVE  TelemetryInv'
  <1> USE DEF TelemetryInv, ServerSends, Receives, NoEnd, pumpVars, agentVars, wireVars, gotVars,
             heardVars, sweepVars
  <1>1. PumpType'
    BY TelemetryAssumption DEF PumpType, PlaceInv
  <1>2. SpanType'
    BY TelemetryAssumption DEF SpanType, PumpType
  <1>3. PlaceInv'
    BY TelemetryAssumption DEF PlaceInv, PumpType, OwnerInv
  <1>4. OwnerInv'
    BY TelemetryAssumption DEF OwnerInv, SpanType, PumpType, PlaceInv
  <1>5. LatestInv'
    BY TelemetryAssumption DEF LatestInv, Waits, Unseen, PlaceInv, OwnerInv, PumpType, SpanType
  <1>6. InTimeInv'
    BY TelemetryAssumption DEF InTimeInv, LatestInv, PlaceInv, OwnerInv, PumpType, SpanType
  <1>7. SweeperInv'
    BY TelemetryAssumption DEF SweeperInv, PlaceInv, SpanType
  <1>8. SaysWhatHappened'
    BY DEF SaysWhatHappened, PlaceInv
  <1>9. SweptAreExported'
    BY DEF SweptAreExported, SweeperInv
  <1>10. PendingInv'
    BY TelemetryAssumption DEF PendingInv, Waits, PlaceInv, PumpType, SpanType
  <1> QED BY <1>1, <1>2, <1>3, <1>4, <1>5, <1>6, <1>7, <1>8, <1>9, <1>10

LEMMA CompleteResponseKeeps ==
  ASSUME TelemetryInv, CompleteResponse
  PROVE  TelemetryInv'
  <1> USE DEF TelemetryInv, CompleteResponse, NoEnd, pumpVars, agentVars, wireVars, gotVars,
             heardVars, sweepVars
  <1>a. /\ sid \in Ids /\ said \in {"ok", "error"} /\ matched' = pending[sid]
        /\ matched' \in Calls \cup {None} /\ hand = None /\ spc = "complete"
        /\ pending'[sid] = None /\ \A i \in Ids : i # sid => pending'[i] = pending[i]
        /\ matched' # None =>
             /\ IdOf[matched'] = sid /\ Waits(matched') /\ heard[matched'] = "none"
             /\ heard'[matched'] = said /\ spc' = "observe"
        /\ matched' = None => spc' = "forward"
        /\ \A c \in Calls : c # matched' =>
             /\ heard'[c] = heard[c] /\ (c \in collided' <=> c \in collided)
        /\ matched' # scall /\ matched' # None => matched' \in collided'
    BY TelemetryAssumption DEF PumpType, PendingInv, SpanType
  <1>b. UNCHANGED <<unsent, delivered, verdict, answer, ended, spans, aged, phase, inTime, cpc,
                    ccall, scall, sid, said>>
    OBVIOUS
  <1>1. PumpType'
    BY <1>a, TelemetryAssumption DEF PumpType, PlaceInv
  <1>2. SpanType'
    BY TelemetryAssumption DEF SpanType, PumpType
  <1>3. PlaceInv'
    BY TelemetryAssumption DEF PlaceInv, PumpType, OwnerInv
  <1>4. OwnerInv'
    BY TelemetryAssumption DEF OwnerInv, SpanType, PumpType, PlaceInv
  <1>5. LatestInv'
    BY <1>a, <1>b DEF LatestInv, Waits, Unseen
  <1>6. InTimeInv'
    BY <1>a, <1>b DEF InTimeInv, SpanType
  <1>7. SweeperInv'
    BY TelemetryAssumption DEF SweeperInv, PlaceInv, SpanType
  <1>8. SaysWhatHappened'
    <2>1. \A c \in Calls : ended[c] # <<>> /\ (ended[c][1] \in {"ok", "error"} \/ c \in inTime)
                            => c # matched'
      BY <1>a, TelemetryAssumption DEF SaysWhatHappened, InTimeInv
    <2> QED BY <1>a, <1>b, <2>1 DEF SaysWhatHappened
  <1>9. SweptAreExported'
    BY DEF SweptAreExported, SweeperInv
  <1>10. PendingInv'
    <2>1. \A i \in Ids : pending'[i] # None =>
            i # sid /\ pending'[i] # matched' /\ pending'[i] # scall /\ pending'[i] \in Calls
      BY <1>a DEF PendingInv, PlaceInv, SpanType
    <2>2. \A c \in Calls : Waits(c)' <=> Waits(c)
      BY <1>b DEF Waits
    <2>3. cpc = "track" => ccall # matched' /\ ccall \in Calls
      BY <1>a, TelemetryAssumption DEF PendingInv, PumpType, PlaceInv
    <2>4. \A c \in unsent : c # matched' /\ c \in Calls
      BY <1>a, TelemetryAssumption DEF Waits, PumpType
    <2>5. matched' = scall /\ matched' # None => answer[matched'] = said
      BY <1>a DEF PlaceInv
    <2> QED BY <1>a, <1>b, <2>1, <2>2, <2>3, <2>4, <2>5 DEF PendingInv
  <1> QED BY <1>1, <1>2, <1>3, <1>4, <1>5, <1>6, <1>7, <1>8, <1>9, <1>10

LEMMA ToolCallCompletedKeeps ==
  ASSUME TelemetryInv, ToolCallCompleted
  PROVE  TelemetryInv'
  <1> USE DEF TelemetryInv, ToolCallCompleted, NoEnd, pumpVars, agentVars, wireVars, gotVars,
             heardVars, sweepVars
  <1>a. /\ sid \in Ids /\ matched \in Calls /\ IdOf[matched] = sid /\ Waits(matched)
        /\ Unseen(matched) /\ heard[matched] = said /\ said \in {"ok", "error"}
        /\ phase = "running" /\ hand = None
    BY DEF PlaceInv, PumpType, PendingInv, Unseen
  <1>b. /\ hand' = spans[sid] /\ hand' \in {matched, None}
        /\ matched \notin aged => hand' = matched
        /\ spans'[sid] = None /\ \A j \in Ids : j # sid => spans'[j] = spans[j]
        /\ hand' # None => ended[hand'] = <<>> /\ hand' \notin taken
    BY <1>a DEF LatestInv, OwnerInv, SpanType
  <1>c. inTime' = IF matched \in aged THEN inTime ELSE inTime \cup {matched}
    OBVIOUS
  <1>1. PumpType'
    BY <1>a, <1>b, TelemetryAssumption DEF PumpType
  <1>2. SpanType'
    BY TelemetryAssumption DEF SpanType, PumpType
  <1>3. PlaceInv'
    BY TelemetryAssumption DEF PlaceInv, PumpType, OwnerInv
  <1>4. OwnerInv'
    <2>1. \A j \in Ids : spans'[j] # None =>
            /\ j # sid /\ spans'[j] = spans[j] /\ IdOf[spans[j]] = j /\ spans[j] # hand'
      BY <1>a, <1>b DEF OwnerInv
    <2> QED BY <1>a, <1>b, <2>1, TelemetryAssumption DEF OwnerInv, PumpType, SpanType
  <1>5. LatestInv'
    <2>1. ASSUME NEW c \in Calls, Unseen(c)', c \notin aged
          PROVE  Unseen(c) /\ c # matched /\ spans[IdOf[c]] = c
      BY <1>a, <2>1 DEF LatestInv, Unseen, Waits
    <2>2. ASSUME NEW c \in Calls, Unseen(c)', c \notin aged
          PROVE  IdOf[c] # sid /\ IdOf[c] \in Ids
      <3>1. spans[sid] \in {matched, None}
        BY <1>b
      <3> QED BY <2>1, <2>2, <3>1, TelemetryAssumption DEF Unseen, Waits
    <2>3. ASSUME NEW c \in Calls, Waits(c)' PROVE spans'[IdOf[c]] \in {c, None}
      BY <1>a, <1>b, <2>3 DEF LatestInv, Waits
    <2> QED BY <1>b, <2>1, <2>2, <2>3 DEF LatestInv
  <1>6. InTimeInv'
    <2>1. \A c \in inTime : c # hand
      BY <1>a, TelemetryAssumption DEF SpanType
    <2>2. UNCHANGED <<heard, ended>>
      OBVIOUS
    <2> QED BY <1>a, <1>b, <1>c, <2>1, <2>2 DEF InTimeInv
  <1>7. SweeperInv'
    BY TelemetryAssumption DEF SweeperInv, PlaceInv, SpanType
  <1>8. SaysWhatHappened'
    <2>1. UNCHANGED <<answer, ended, verdict, heard, collided>>
      OBVIOUS
    <2>2. \A c \in inTime' : c \in inTime \/ ended[c] = <<>>
      BY <1>a, <1>b, <1>c, TelemetryAssumption
    <2> QED BY <2>1, <2>2 DEF SaysWhatHappened
  <1>9. SweptAreExported'
    BY DEF SweptAreExported, SweeperInv
  <1>10. PendingInv'
    BY TelemetryAssumption DEF PendingInv, Waits, PlaceInv, PumpType, SpanType
  <1> QED BY <1>1, <1>2, <1>3, <1>4, <1>5, <1>6, <1>7, <1>8, <1>9, <1>10

LEMMA ForwardDownKeeps ==
  ASSUME TelemetryInv, ForwardDown
  PROVE  TelemetryInv'
  <1> USE DEF TelemetryInv, ForwardDown, NoEnd, pumpVars, agentVars, wireVars, gotVars,
             heardVars, sweepVars
  <1>1. PumpType'
    BY TelemetryAssumption DEF PumpType, PlaceInv
  <1>2. SpanType'
    BY TelemetryAssumption DEF SpanType, PumpType
  <1>3. PlaceInv'
    BY TelemetryAssumption DEF PlaceInv, PumpType, OwnerInv
  <1>4. OwnerInv'
    BY TelemetryAssumption DEF OwnerInv, SpanType, PumpType, PlaceInv
  <1>5. LatestInv'
    BY TelemetryAssumption DEF LatestInv, Waits, Unseen, PlaceInv, OwnerInv, PumpType, SpanType
  <1>6. InTimeInv'
    BY TelemetryAssumption DEF InTimeInv, LatestInv, PlaceInv, OwnerInv, PumpType, SpanType
  <1>7. SweeperInv'
    BY TelemetryAssumption DEF SweeperInv, PlaceInv, SpanType
  <1>8. SaysWhatHappened'
    BY DEF SaysWhatHappened, PlaceInv
  <1>9. SweptAreExported'
    BY DEF SweptAreExported, SweeperInv
  <1>10. PendingInv'
    BY TelemetryAssumption DEF PendingInv, Waits, PlaceInv, PumpType, SpanType
  <1> QED BY <1>1, <1>2, <1>3, <1>4, <1>5, <1>6, <1>7, <1>8, <1>9, <1>10

LEMMA TimePassesKeeps ==
  ASSUME TelemetryInv, TimePasses
  PROVE  TelemetryInv'
  <1> USE DEF TelemetryInv, TimePasses, NoEnd, pumpVars, agentVars, wireVars, gotVars,
             heardVars, sweepVars
  <1>1. PumpType'
    BY TelemetryAssumption DEF PumpType, PlaceInv
  <1>2. SpanType'
    <2>1. Open \subseteq Calls
      BY DEF Open, SpanType
    <2> QED BY <2>1 DEF SpanType
  <1>3. PlaceInv'
    <2>1. Open \cap unsent = {}
      BY DEF Open, OwnerInv
    <2> QED BY <2>1 DEF PlaceInv
  <1>4. OwnerInv'
    BY TelemetryAssumption DEF OwnerInv, SpanType, PumpType, PlaceInv
  <1>5. LatestInv'
    BY TelemetryAssumption DEF LatestInv, Waits, Unseen, PlaceInv, OwnerInv, PumpType, SpanType
  <1>6. InTimeInv'
    BY TelemetryAssumption DEF InTimeInv, LatestInv, PlaceInv, OwnerInv, PumpType, SpanType
  <1>7. SweeperInv'
    BY TelemetryAssumption DEF SweeperInv, PlaceInv, SpanType
  <1>8. SaysWhatHappened'
    BY DEF SaysWhatHappened, PlaceInv
  <1>9. SweptAreExported'
    BY DEF SweptAreExported, SweeperInv
  <1>10. PendingInv'
    BY TelemetryAssumption DEF PendingInv, Waits, PlaceInv, PumpType, SpanType
  <1> QED BY <1>1, <1>2, <1>3, <1>4, <1>5, <1>6, <1>7, <1>8, <1>9, <1>10

LEMMA ExpireSpansKeeps ==
  ASSUME TelemetryInv, ExpireSpans
  PROVE  TelemetryInv'
  <1> USE DEF TelemetryInv, ExpireSpans, NoEnd, pumpVars, agentVars, wireVars, gotVars,
             heardVars, sweepVars
  <1>a. \A i \in Ids : spans'[i] = IF spans[i] \in aged THEN None ELSE spans[i]
    BY DEF Without
  <1>b. /\ \A c \in taken' : \E i \in Ids : spans[i] = c /\ c # None /\ c \in Calls /\ c \in aged
        /\ taken = {}
    BY DEF Open, SweeperInv, SpanType
  <1>1. PumpType'
    BY TelemetryAssumption DEF PumpType, PlaceInv
  <1>2. SpanType'
    <2>1. spans' \in [Ids -> Calls \cup {None}]
      BY DEF Without, SpanType
    <2> QED BY <1>b, <2>1 DEF SpanType
  <1>3. PlaceInv'
    BY TelemetryAssumption DEF PlaceInv, PumpType, OwnerInv
  <1>4. OwnerInv'
    <2>1. \A i \in Ids : spans'[i] # None => spans'[i] = spans[i] /\ spans[i] \notin taken'
      BY <1>a, <1>b DEF OwnerInv
    <2> QED BY <1>b, <2>1 DEF OwnerInv
  <1>5. LatestInv'
    BY <1>a DEF LatestInv, Waits, Unseen
  <1>6. InTimeInv'
    BY TelemetryAssumption DEF InTimeInv, LatestInv, PlaceInv, OwnerInv, PumpType, SpanType
  <1>7. SweeperInv'
    BY TelemetryAssumption DEF SweeperInv, PlaceInv, SpanType
  <1>8. SaysWhatHappened'
    BY DEF SaysWhatHappened, PlaceInv
  <1>9. SweptAreExported'
    BY DEF SweptAreExported, SweeperInv
  <1>10. PendingInv'
    BY TelemetryAssumption DEF PendingInv, Waits, PlaceInv, PumpType, SpanType
  <1> QED BY <1>1, <1>2, <1>3, <1>4, <1>5, <1>6, <1>7, <1>8, <1>9, <1>10

LEMMA CloseAllSpansKeeps ==
  ASSUME TelemetryInv, CloseAllSpans
  PROVE  TelemetryInv'
  <1> USE DEF TelemetryInv, CloseAllSpans, NoEnd, pumpVars, agentVars, wireVars, gotVars,
             heardVars, sweepVars
  <1>a. \A i \in Ids : spans'[i] = IF spans[i] \in Open THEN None ELSE spans[i]
    BY DEF Without
  <1>b. /\ \A c \in taken' : \E i \in Ids : spans[i] = c /\ c # None /\ c \in Calls /\ c \in Open
        /\ taken = {}
    BY DEF Open, SweeperInv, SpanType
  <1>1. PumpType'
    BY TelemetryAssumption DEF PumpType, PlaceInv
  <1>2. SpanType'
    <2>1. spans' \in [Ids -> Calls \cup {None}]
      BY DEF Without, SpanType
    <2> QED BY <1>b, <2>1 DEF SpanType
  <1>3. PlaceInv'
    BY TelemetryAssumption DEF PlaceInv, PumpType, OwnerInv
  <1>4. OwnerInv'
    <2>1. \A i \in Ids : spans'[i] # None => spans'[i] = spans[i] /\ spans[i] \notin taken'
      BY <1>a, <1>b DEF OwnerInv, Open
    <2> QED BY <1>b, <2>1 DEF OwnerInv
  <1>5. LatestInv'
    BY <1>a DEF LatestInv, Waits, Unseen
  <1>6. InTimeInv'
    BY TelemetryAssumption DEF InTimeInv, LatestInv, PlaceInv, OwnerInv, PumpType, SpanType
  <1>7. SweeperInv'
    BY TelemetryAssumption DEF SweeperInv, PlaceInv, SpanType
  <1>8. SaysWhatHappened'
    BY DEF SaysWhatHappened, PlaceInv
  <1>9. SweptAreExported'
    BY DEF SweptAreExported, SweeperInv
  <1>10. PendingInv'
    BY TelemetryAssumption DEF PendingInv, Waits, PlaceInv, PumpType, SpanType
  <1> QED BY <1>1, <1>2, <1>3, <1>4, <1>5, <1>6, <1>7, <1>8, <1>9, <1>10

LEMMA SweeperLoopsKeeps ==
  ASSUME TelemetryInv, SweeperLoops
  PROVE  TelemetryInv'
  <1> USE DEF TelemetryInv, SweeperLoops, NoEnd, pumpVars, agentVars, wireVars, gotVars,
             heardVars, sweepVars
  <1>1. PumpType'
    BY TelemetryAssumption DEF PumpType, PlaceInv
  <1>2. SpanType'
    BY TelemetryAssumption DEF SpanType, PumpType
  <1>3. PlaceInv'
    BY TelemetryAssumption DEF PlaceInv, PumpType, OwnerInv
  <1>4. OwnerInv'
    BY TelemetryAssumption DEF OwnerInv, SpanType, PumpType, PlaceInv
  <1>5. LatestInv'
    BY TelemetryAssumption DEF LatestInv, Waits, Unseen, PlaceInv, OwnerInv, PumpType, SpanType
  <1>6. InTimeInv'
    BY TelemetryAssumption DEF InTimeInv, LatestInv, PlaceInv, OwnerInv, PumpType, SpanType
  <1>7. SweeperInv'
    BY TelemetryAssumption DEF SweeperInv, PlaceInv, SpanType
  <1>8. SaysWhatHappened'
    BY DEF SaysWhatHappened, PlaceInv
  <1>9. SweptAreExported'
    BY DEF SweptAreExported, SweeperInv
  <1>10. PendingInv'
    BY TelemetryAssumption DEF PendingInv, Waits, PlaceInv, PumpType, SpanType
  <1> QED BY <1>1, <1>2, <1>3, <1>4, <1>5, <1>6, <1>7, <1>8, <1>9, <1>10

LEMMA StopSweeperKeeps ==
  ASSUME TelemetryInv, StopSweeper
  PROVE  TelemetryInv'
  <1> USE DEF TelemetryInv, StopSweeper, NoEnd, pumpVars, agentVars, wireVars, gotVars,
             heardVars, sweepVars
  <1>1. PumpType'
    BY TelemetryAssumption DEF PumpType, PlaceInv
  <1>2. SpanType'
    BY TelemetryAssumption DEF SpanType, PumpType
  <1>3. PlaceInv'
    BY TelemetryAssumption DEF PlaceInv, PumpType, OwnerInv
  <1>4. OwnerInv'
    BY TelemetryAssumption DEF OwnerInv, SpanType, PumpType, PlaceInv
  <1>5. LatestInv'
    BY TelemetryAssumption DEF LatestInv, Waits, Unseen, PlaceInv, OwnerInv, PumpType, SpanType
  <1>6. InTimeInv'
    BY TelemetryAssumption DEF InTimeInv, LatestInv, PlaceInv, OwnerInv, PumpType, SpanType
  <1>7. SweeperInv'
    BY TelemetryAssumption DEF SweeperInv, PlaceInv, SpanType
  <1>8. SaysWhatHappened'
    BY DEF SaysWhatHappened, PlaceInv
  <1>9. SweptAreExported'
    BY DEF SweptAreExported, SweeperInv
  <1>10. PendingInv'
    BY TelemetryAssumption DEF PendingInv, Waits, PlaceInv, PumpType, SpanType
  <1> QED BY <1>1, <1>2, <1>3, <1>4, <1>5, <1>6, <1>7, <1>8, <1>9, <1>10

LEMMA TearDownKeeps ==
  ASSUME TelemetryInv, TearDown
  PROVE  TelemetryInv'
  <1> USE DEF TelemetryInv, TearDown, NoEnd, pumpVars, agentVars, wireVars, gotVars,
             heardVars, sweepVars
  <1>1. PumpType'
    BY TelemetryAssumption DEF PumpType, PlaceInv
  <1>2. SpanType'
    BY TelemetryAssumption DEF SpanType, PumpType
  <1>3. PlaceInv'
    BY TelemetryAssumption DEF PlaceInv, PumpType, OwnerInv
  <1>4. OwnerInv'
    BY TelemetryAssumption DEF OwnerInv, SpanType, PumpType, PlaceInv
  <1>5. LatestInv'
    BY TelemetryAssumption DEF LatestInv, Waits, Unseen, PlaceInv, OwnerInv, PumpType, SpanType
  <1>6. InTimeInv'
    BY TelemetryAssumption DEF InTimeInv, LatestInv, PlaceInv, OwnerInv, PumpType, SpanType
  <1>7. SweeperInv'
    BY TelemetryAssumption DEF SweeperInv, PlaceInv, SpanType
  <1>8. SaysWhatHappened'
    BY DEF SaysWhatHappened, PlaceInv
  <1>9. SweptAreExported'
    BY DEF SweptAreExported, SweeperInv
  <1>10. PendingInv'
    BY TelemetryAssumption DEF PendingInv, Waits, PlaceInv, PumpType, SpanType
  <1> QED BY <1>1, <1>2, <1>3, <1>4, <1>5, <1>6, <1>7, <1>8, <1>9, <1>10

-----------------------------------------------------------------------------
(* The steps that end a span.                                              *)

\* A span that has not ended ends, and no other does.
LEMMA EndIs ==
  ASSUME SpanType, NEW c \in Calls, NEW status \in Statuses, ended[c] = <<>>, End(c, status)
  PROVE  /\ DOMAIN ended' = Calls /\ ended'[c] = <<status>> /\ ended'[c] # <<>>
         /\ ended'[c][1] = status
         /\ \A d \in Calls : d # c => ended'[d] = ended[d]
         /\ \A d \in Calls : ended'[d] = <<>> \/ \E s \in Statuses : ended'[d] = <<s>>
         /\ dropped' = IF phase = "down" THEN dropped \cup {c} ELSE dropped
  <1>1. ended'[c] = Append(<<>>, status) /\ DOMAIN ended' = Calls
        /\ \A d \in Calls : d # c => ended'[d] = ended[d]
    BY DEF End, SpanType
  <1>2. ended'[c] = <<status>> /\ ended'[c] # <<>> /\ ended'[c][1] = status
    BY <1>1
  <1> QED BY <1>1, <1>2 DEF End, SpanType

LEMMA DecidedKeeps ==
  ASSUME TelemetryInv, NEW c \in Calls, NEW v \in Verdicts[c], ToolCallDecided(c, v)
  PROVE  TelemetryInv'
  <1> USE DEF TelemetryInv
  <1> DEFINE status == IF v = "deny" THEN "denied" ELSE StartStatus(v)
             ends   == v = "deny" \/ IdOf[c] = NoId
  <1>1. /\ UNCHANGED <<inflight, answer, spc, sid, said, scall, matched, delivered, heard, collided>>
        /\ UNCHANGED <<hand, pending, aged, sweepVars, inTime>>
        /\ c \in unsent /\ unsent' = unsent \ {c} /\ cpc = "idle"
        /\ verdict'[c] = v /\ \A d \in Calls : d # c => verdict'[d] = verdict[d]
        /\ \A d \in Calls \ unsent : IdOf[d] = IdOf[c] /\ IdOf[c] \in Ids =>
             d \in delivered \/ verdict[d] = "deny"
    BY TelemetryAssumption DEF ToolCallDecided, PumpType, wireVars, gotVars, heardVars
  <1>2. /\ ended[c] = <<>> /\ verdict[c] = "none" /\ answer[c] = "none" /\ heard[c] = "none"
        /\ c \notin inflight \cup delivered \cup aged \cup taken \cup inTime
        /\ c # hand /\ \A i \in Ids : spans[i] # c
        /\ spc # "idle" => c # scall
        /\ \A i \in Ids : pending[i] # c
    BY <1>1, TelemetryAssumption DEF PlaceInv, OwnerInv, InTimeInv, PendingInv, Waits, PumpType,
                                     SpanType
  <1>3. /\ ~ends => spans' = [spans EXCEPT ![IdOf[c]] = c] /\ NoEnd
        /\ ends => spans' = spans /\ End(c, status)
        /\ status \in Statuses /\ status \notin {"ok", "error", "never answered", "shutting down"}
        /\ status = "denied" <=> v = "deny"
    BY DEF ToolCallDecided, StartStatus, Statuses
  <1>4. /\ DOMAIN ended' = Calls
        /\ \A d \in Calls : ended'[d] = <<>> \/ \E s \in Statuses : ended'[d] = <<s>>
        /\ \A d \in Calls : d # c => ended'[d] = ended[d]
        /\ ends => ended'[c] # <<>> /\ ended'[c][1] = status
        /\ ~ends => ended'[c] = <<>>
        /\ dropped' = dropped \/ (ends /\ phase = "down" /\ dropped' = dropped \cup {c})
    <2>1. CASE ends
      BY <1>2, <1>3, <2>1, EndIs
    <2>2. CASE ~ends
      BY <1>2, <1>3, <2>2 DEF NoEnd, SpanType
    <2> QED BY <2>1, <2>2
  <1>5. /\ ~ends => IdOf[c] \in Ids /\ v # "deny"
        /\ \A i \in Ids : spans'[i] = IF ~ends /\ i = IdOf[c] THEN c ELSE spans[i]
        /\ spans' \in [Ids -> Calls \cup {None}]
    <2>1. IdOf[c] \in Ids \cup {NoId} /\ spans \in [Ids -> Calls \cup {None}]
      BY TelemetryAssumption DEF SpanType
    <2>2. CASE ends
      BY <1>3, <2>1, <2>2
    <2>3. CASE ~ends
      <3>1. IdOf[c] \in Ids /\ v # "deny"
        BY <2>1, <2>3
      <3>2. spans' = [spans EXCEPT ![IdOf[c]] = c]
        BY <1>3, <2>3
      <3> HIDE DEF ends
      <3> QED BY <2>1, <2>3, <3>1, <3>2
    <2> QED BY <2>2, <2>3
  <1> HIDE DEF ends, status
  <1>6. /\ cpc' \in {"idle", "track", "forward"} /\ ccall' \in Calls \cup {None}
        /\ cpc' # "idle" => v # "deny" /\ ccall' = c
    BY DEF ToolCallDecided
  <1>7. PumpType'
    <2>1. v \in {"allow", "deny", "breach", "unread"}
      BY TelemetryAssumption
    <2>2. verdict' \in [Calls -> {"none", "allow", "deny", "breach", "unread"}]
      BY <2>1 DEF ToolCallDecided, PumpType
    <2> QED BY <1>1, <1>6, <2>2 DEF PumpType
  <1>8. SpanType'
    BY <1>1, <1>4, <1>5 DEF SpanType, sweepVars
  <1>9. PlaceInv'
    BY <1>1, <1>2, <1>4, <1>6 DEF PlaceInv, PumpType, sweepVars
  <1>10. OwnerInv'
    BY <1>1, <1>2, <1>4, <1>5, TelemetryAssumption DEF OwnerInv, SpanType, PumpType, sweepVars
  <1>11. LatestInv'
    <2>1. Waits(c)' => spans'[IdOf[c]] = c
      BY <1>1, <1>5, TelemetryAssumption DEF Waits, ends
    <2>2. ASSUME NEW d \in Calls, d # c, Waits(d)'
          PROVE  Waits(d) /\ spans'[IdOf[d]] = spans[IdOf[d]]
      BY <1>1, <1>5, <2>2 DEF Waits
    <2> QED BY <1>1, <2>1, <2>2 DEF LatestInv, Unseen, Waits, sweepVars
  <1>12. InTimeInv'
    BY <1>1, <1>2, <1>4 DEF InTimeInv, SpanType
  <1>13. SweeperInv'
    BY <1>1, <1>2, <1>4 DEF SweeperInv, SpanType, sweepVars
  <1>14. SaysWhatHappened'
    <2>1. ASSUME NEW d \in Calls, d # c, ended'[d] # <<>>
          PROVE  /\ ended'[d] = ended[d] /\ verdict'[d] = verdict[d]
                 /\ answer'[d] = answer[d] /\ heard'[d] = heard[d]
                 /\ (d \in collided' <=> d \in collided) /\ (d \in inTime' => d \in inTime)
      BY <1>1, <1>4, <2>1
    <2>2. ASSUME ended'[c] # <<>>
          PROVE  /\ verdict'[c] = "deny" <=> ended'[c][1] = "denied"
                 /\ ended'[c][1] \notin {"ok", "error"} /\ c \notin inTime'
      BY <1>1, <1>2, <1>3, <1>4, <2>2
    <2> QED BY <2>1, <2>2 DEF SaysWhatHappened
  <1>15. SweptAreExported'
    <2>1. gaveUp' = gaveUp /\ dropped' \subseteq dropped \cup {c} /\ dropped \subseteq Calls
      BY <1>1, <1>4 DEF sweepVars, SpanType
    <2>2. c \in dropped' => ended'[c] # <<>> /\ ended'[c][1] = status
      <3>1. dropped' = dropped => c \notin dropped'
        BY <1>2 DEF SweeperInv
      <3> QED BY <1>4, <3>1
    <2>3. ASSUME ~gaveUp, NEW d \in dropped'
          PROVE  ended'[d][1] \notin {"never answered", "shutting down"}
      <3>1. CASE d = c
        BY <1>3, <2>2, <2>3, <3>1
      <3>2. CASE d # c
        BY <1>4, <2>1, <2>3, <3>2 DEF SweptAreExported
      <3> QED BY <3>1, <3>2
    <2> QED BY <2>1, <2>3 DEF SweptAreExported
  <1>16. PendingInv'
    <2>1. \A d \in Calls : d # c => (Waits(d)' <=> Waits(d))
      BY <1>1 DEF Waits
    <2>2. \A i \in Ids : pending[i] # None => pending[i] \in Calls /\ pending[i] # c
      BY <1>2 DEF SpanType
    <2>3. spc \in {"observe", "end"} => matched \in Calls /\ matched # c
      BY <1>1 DEF PumpType, PendingInv, Waits
    <2>4. \A d \in unsent' : d \in unsent
      BY <1>1
    <2>5. cpc' = "track" => ccall' = c
      BY <1>6
    <2> QED BY <1>1, <1>2, <2>1, <2>2, <2>3, <2>4, <2>5 DEF PendingInv
  <1> QED BY <1>7, <1>8, <1>9, <1>10, <1>11, <1>12, <1>13, <1>14, <1>15, <1>16

\* The server pump ends the span of the call that its message has completed.
LEMMA EndCompletedKeeps ==
  ASSUME TelemetryInv, EndCompleted
  PROVE  TelemetryInv'
  <1> USE DEF TelemetryInv
  <1>1. /\ UNCHANGED <<unsent, cpc, ccall, verdict, inflight, answer, sid, said, scall, matched>>
        /\ UNCHANGED <<delivered, heard, collided, pending, spans, aged, sweepVars, inTime>>
        /\ spc = "end" /\ spc' = "forward" /\ hand' = None
    BY DEF EndCompleted, agentVars, wireVars, gotVars, heardVars
  <1>2. /\ hand = matched /\ matched \in Calls /\ ended[matched] = <<>>
        /\ phase = "running" /\ said \in {"ok", "error"} /\ heard[matched] = said
        /\ verdict[matched] # "deny" /\ matched \notin taken
        /\ \A i \in Ids : spans[i] # matched
        /\ matched \notin collided => said = answer[matched]
    BY <1>1, TelemetryAssumption DEF PumpType, PlaceInv, OwnerInv, PendingInv, Waits
  <1>3. /\ DOMAIN ended' = Calls
        /\ \A d \in Calls : ended'[d] = <<>> \/ \E s \in Statuses : ended'[d] = <<s>>
        /\ \A d \in Calls : d # matched => ended'[d] = ended[d]
        /\ ended'[matched] # <<>> /\ ended'[matched][1] = said
        /\ dropped' = dropped
    <2>1. said \in Statuses /\ End(matched, said)
      BY <1>2 DEF EndCompleted, Statuses
    <2> QED BY <1>2, <2>1, EndIs
  <1>4. PumpType'
    BY <1>1 DEF PumpType
  <1>5. SpanType'
    BY <1>1, <1>3 DEF SpanType, sweepVars
  <1>6. PlaceInv'
    <2>1. matched \notin unsent
      BY <1>1 DEF PendingInv, Waits
    <2>2. \A d \in unsent : ended'[d] = ended[d]
      BY <1>3, <2>1 DEF PumpType
    <2> QED BY <1>1, <1>2, <2>2 DEF PlaceInv, sweepVars
  <1>7. OwnerInv'
    BY <1>1, <1>2, <1>3, TelemetryAssumption DEF OwnerInv, SpanType, sweepVars
  <1>8. LatestInv'
    BY <1>1 DEF LatestInv, Waits, Unseen, sweepVars
  <1>9. InTimeInv'
    BY <1>1, <1>2, <1>3 DEF InTimeInv, SpanType
  <1>10. SweeperInv'
    BY <1>1, <1>2, <1>3 DEF SweeperInv, sweepVars
  <1>11. SaysWhatHappened'
    BY <1>1, <1>2, <1>3 DEF SaysWhatHappened
  <1>12. SweptAreExported'
    BY <1>1, <1>2, <1>3 DEF SweptAreExported, sweepVars, SpanType, SweeperInv
  <1>13. PendingInv'
    BY <1>1 DEF PendingInv, Waits
  <1> QED BY <1>4, <1>5, <1>6, <1>7, <1>8, <1>9, <1>10, <1>11, <1>12, <1>13

\* The sweeper ends a span it has taken out of the map.
LEMMA EndTakenKeeps ==
  ASSUME TelemetryInv, EndTaken
  PROVE  TelemetryInv'
  <1> USE DEF TelemetryInv
  <1> DEFINE status == IF wpc = "expired" THEN "never answered" ELSE "shutting down"
  <1>1. PICK c \in taken : taken' = taken \ {c} /\ End(c, status)
    BY DEF EndTaken
  <1>2. /\ UNCHANGED <<unsent, cpc, ccall, verdict, inflight, answer, spc, sid, said, scall>>
        /\ UNCHANGED <<matched, delivered, heard, collided>>
        /\ UNCHANGED <<hand, pending, spans, aged, wpc, phase, gaveUp, inTime>>
    BY DEF EndTaken, pumpVars, agentVars, wireVars, gotVars, heardVars
  <1>3. /\ c \in Calls /\ ended[c] = <<>> /\ verdict[c] # "deny" /\ c # hand /\ c \notin unsent
        /\ c \notin inTime /\ \A i \in Ids : spans[i] # c
        /\ ~(phase = "down" /\ ~gaveUp)
    BY TelemetryAssumption DEF SpanType, OwnerInv, InTimeInv, SweeperInv
  <1>4. /\ DOMAIN ended' = Calls
        /\ \A d \in Calls : ended'[d] = <<>> \/ \E s \in Statuses : ended'[d] = <<s>>
        /\ \A d \in Calls : d # c => ended'[d] = ended[d]
        /\ ended'[c] # <<>> /\ ended'[c][1] = status
        /\ dropped' = IF phase = "down" THEN dropped \cup {c} ELSE dropped
    BY <1>1, <1>3, EndIs DEF Statuses
  <1>a. status \notin {"denied", "ok", "error"}
    OBVIOUS
  <1> HIDE DEF status
  <1>5. PumpType'
    BY <1>2 DEF PumpType
  <1>6. SpanType'
    BY <1>1, <1>2, <1>4 DEF SpanType
  <1>7. PlaceInv'
    <2>1. \A d \in unsent : ended'[d] = ended[d]
      BY <1>3, <1>4 DEF PumpType
    <2> QED BY <1>2, <2>1 DEF PlaceInv
  <1>8. OwnerInv'
    <2>1. \A d \in taken' : d \in taken /\ d # c
      BY <1>1
    <2>2. \A i \in Ids : spans[i] # None => spans[i] \in Calls /\ spans[i] # c
      BY <1>3 DEF SpanType
    <2>3. hand # None => hand \in Calls /\ hand # c
      BY <1>3 DEF PumpType
    <2> QED BY <1>2, <1>4, <2>1, <2>2, <2>3 DEF OwnerInv, SpanType
  <1>9. LatestInv'
    BY <1>2 DEF LatestInv, Waits, Unseen
  <1>10. InTimeInv'
    BY <1>2, <1>3, <1>4 DEF InTimeInv, SpanType
  <1>11. SweeperInv'
    BY <1>1, <1>2, <1>3, <1>4 DEF SweeperInv, SpanType
  <1>12. SaysWhatHappened'
    <2>1. ASSUME NEW d \in Calls, ended'[d] # <<>>
          PROVE  /\ verdict[d] = "deny" <=> ended'[d][1] = "denied"
                 /\ ended'[d][1] \in {"ok", "error"} \/ d \in inTime =>
                      ended'[d][1] = heard[d]
                 /\ ended'[d][1] \in {"ok", "error"} /\ d \notin collided =>
                      ended'[d][1] = answer[d]
      <3>1. CASE d = c
        BY <1>3, <1>4, <1>a, <3>1
      <3>2. CASE d # c
        <4>1. ended'[d] = ended[d]
          BY <1>4, <3>2
        <4> QED BY <2>1, <4>1 DEF SaysWhatHappened
      <3> QED BY <3>1, <3>2
    <2> QED BY <1>2, <2>1 DEF SaysWhatHappened
  <1>13. SweptAreExported'
    BY <1>2, <1>3, <1>4 DEF SweptAreExported, SweeperInv, SpanType
  <1>14. PendingInv'
    BY <1>2 DEF PendingInv, Waits
  <1> QED BY <1>5, <1>6, <1>7, <1>8, <1>9, <1>10, <1>11, <1>12, <1>13, <1>14

-----------------------------------------------------------------------------
(* The invariant of the specification, and the theorems.                   *)

LEMMA TelemetryNextKeeps == TelemetryInv /\ [Next]_vars => TelemetryInv'
  <1> SUFFICES ASSUME TelemetryInv, [Next]_vars
               PROVE  TelemetryInv'
    OBVIOUS
  <1>1. CASE ClientPump
    BY <1>1, DecidedKeeps, TrackPendingKeeps, ForwardUpKeeps DEF ClientPump
  <1>2. CASE Server
    BY <1>2, ServerAnswersKeeps, ServerSendsKeeps, TelemetryAssumption DEF Server
  <1>3. CASE ServerPump
    BY <1>3, CompleteResponseKeeps, ToolCallCompletedKeeps, EndCompletedKeeps, ForwardDownKeeps
       DEF ServerPump
  <1>4. CASE Sweeper
    BY <1>4, ExpireSpansKeeps, CloseAllSpansKeeps, EndTakenKeeps, SweeperLoopsKeeps DEF Sweeper
  <1>5. CASE TimePasses \/ StopSweeper \/ TearDown
    BY <1>5, TimePassesKeeps, StopSweeperKeeps, TearDownKeeps
  <1>6. CASE UNCHANGED vars
    <2>1. /\ UNCHANGED <<unsent, cpc, ccall, verdict, inflight, answer, spc, sid, said, scall>>
          /\ UNCHANGED <<matched, delivered, heard, collided>>
          /\ UNCHANGED <<hand, pending, spans, aged, wpc, taken, phase, gaveUp, ended, dropped>>
          /\ UNCHANGED inTime
      BY <1>6 DEF vars, pumpVars, agentVars, wireVars, gotVars, heardVars, sweepVars
    <2>2. PumpType' /\ SpanType'
      BY <2>1 DEF TelemetryInv, PumpType, SpanType
    <2>3. PlaceInv' /\ OwnerInv'
      BY <2>1 DEF TelemetryInv, PlaceInv, OwnerInv
    <2>4. LatestInv' /\ PendingInv'
      BY <2>1 DEF TelemetryInv, LatestInv, PendingInv, Waits, Unseen
    <2>5. InTimeInv' /\ SweeperInv'
      BY <2>1 DEF TelemetryInv, InTimeInv, SweeperInv
    <2>6. SaysWhatHappened' /\ SweptAreExported'
      BY <2>1 DEF TelemetryInv, SaysWhatHappened, SweptAreExported
    <2> QED BY <2>2, <2>3, <2>4, <2>5, <2>6 DEF TelemetryInv
  <1> QED BY <1>1, <1>2, <1>3, <1>4, <1>5, <1>6 DEF Next

LEMMA TelemetryInvariant == Spec => []TelemetryInv
  <1>1. Init => TelemetryInv
    <2> SUFFICES ASSUME Init PROVE TelemetryInv
      OBVIOUS
    <2>1. PumpType /\ SpanType
      BY TelemetryAssumption DEF Init, PumpType, SpanType
    <2>2. PlaceInv /\ OwnerInv /\ PendingInv /\ LatestInv
      BY DEF Init, PlaceInv, OwnerInv, PendingInv, LatestInv, Waits, Unseen
    <2>3. InTimeInv /\ SweeperInv /\ SaysWhatHappened /\ SweptAreExported
      BY DEF Init, InTimeInv, SweeperInv, SaysWhatHappened, SweptAreExported
    <2> QED BY <2>1, <2>2, <2>3 DEF TelemetryInv
  <1> QED BY <1>1, TelemetryNextKeeps, PTL DEF Spec

\* No span ends twice, and only the goroutine that has taken a span out of the
\* map ends it.
THEOREM SpansEndOnce == Spec => []EndsOnce
  <1>1. TelemetryInv => EndsOnce
    <2> SUFFICES ASSUME TelemetryInv, NEW c \in Calls
                 PROVE  /\ Len(ended[c]) <= 1
                        /\ c \in Open \cup taken \cup {hand} => ended[c] = <<>>
                        /\ c \in Open => c \notin taken \cup {hand}
                        /\ ~(c \in taken /\ c = hand)
      BY DEF EndsOnce
    <2>1. Len(ended[c]) <= 1
      <3>1. ended[c] = <<>> \/ \E s : ended[c] = <<s>>
        BY DEF TelemetryInv, SpanType
      <3>2. CASE ended[c] = <<>>
        BY <3>2
      <3>3. CASE \E s : ended[c] = <<s>>
        <4>1. PICK s : ended[c] = <<s>>
          BY <3>3
        <4>2. Len(<<s>>) = 1
          OBVIOUS
        <4> QED BY <4>1, <4>2
      <3> QED BY <3>1, <3>2, <3>3
    <2>2. c \in Open => ended[c] = <<>> /\ c \notin taken \cup {hand}
      BY DEF TelemetryInv, OwnerInv, Open
    <2>3. c \in taken => ended[c] = <<>> /\ c # hand
      BY DEF TelemetryInv, OwnerInv
    <2>4. c = hand => ended[c] = <<>>
      BY TelemetryAssumption DEF TelemetryInv, OwnerInv
    <2> QED BY <2>1, <2>2, <2>3, <2>4
  <1> QED BY <1>1, TelemetryInvariant, PTL

\* The status a span ends with is what the message said that completed its call,
\* or why no message did; and, unless a message that was not its answer came under
\* its id, how the call was answered.
THEOREM SpansSayWhatHappened == Spec => []SaysWhatHappened
  <1>1. TelemetryInv => SaysWhatHappened
    BY DEF TelemetryInv
  <1> QED BY <1>1, TelemetryInvariant, PTL

\* Shutdown tears the provider down after the sweeper unless its context ended.
THEOREM SweptSpansExported == Spec => []SweptAreExported
  <1>1. TelemetryInv => SweptAreExported
    BY DEF TelemetryInv
  <1> QED BY <1>1, TelemetryInvariant, PTL
=============================================================================
