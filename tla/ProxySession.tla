---------------------------- MODULE ProxySession ----------------------------
(***************************************************************************)
(* proxy.Session: the goroutines that relay MCP traffic between an agent   *)
(* (the client) and one tool server.                                       *)
(*                                                                         *)
(*   client --clientIn--> [client pump] --serverIn--> server               *)
(*   client <-clientOut-- [server pump] <-serverOut-- server               *)
(*                                                                         *)
(* Five goroutines share the session: the two pumps (cpc, spc), Run itself *)
(* (run), the watcher that closes the sources once the context is done     *)
(* (Stop), and the drain timer armed when the client pump ends.  The four  *)
(* streams are OS pipes: FIFO, of bounded capacity; a full one blocks its  *)
(* writer, and a write to a pipe whose reader is gone fails.               *)
(*                                                                         *)
(* A message is its identity.  A client request stands for itself on the   *)
(* way up and for its response on the way down.  The server may issue      *)
(* requests of its own (Calls) whose ids coincide with the client's, for   *)
(* the two id spaces are independent.  Bytes, framing and logging are left *)
(* out; what the interceptor decides is a choice over its verdicts.        *)
(***************************************************************************)
EXTENDS Naturals, Sequences

CONSTANTS
  Requests,           \* client messages that expect a response
  Notes,              \* client notifications, and responses to Calls
  Garbage,            \* client lines that jsonrpc.Parse refuses
  Calls,              \* requests of the server's own
  CallId,             \* the id a call carries, possibly one the client uses
  ClientVerdicts,     \* what the interceptor may decide of a client message
  ServerVerdicts,     \* and of a server message
  Cap,                \* capacity of each pipe, in messages
  Oversize,           \* messages longer than Options.MaxMessageBytes
  RejectUnparseable   \* proxy.Options.RejectUnparseable

\* proxy.Decision, with Forward and Replace as one (both track, then write
\* upstream) and "error" for Intercept returning one.
Verdicts == {"forward", "reject", "drop", "error"}

ASSUME SessionAssumption ==
  /\ Requests \cap Notes = {} /\ Requests \cap Garbage = {}
  /\ Notes \cap Garbage = {} /\ Requests \cap Calls = {}
  /\ "none" \notin Requests \cup Notes \cup Garbage \cup Calls
  /\ CallId \in [Calls -> Requests]
  /\ ClientVerdicts \subseteq Verdicts /\ ServerVerdicts \subseteq Verdicts
  /\ Cap \in Nat \ {0}
  /\ RejectUnparseable \in BOOLEAN

ClientMsgs == Requests \cup Notes \cup Garbage
ServerMsgs == Requests \cup Calls

VARIABLES
  \* The client and its two pipes.
  unsent,       \* messages the client has not sent yet
  clientIn,     \* written by the client, read by the client pump
  clientOpen,   \* the client still holds its write end
  clientOut,    \* messages waiting in the pipe the client reads
  clientGone,   \* the client has closed its read end
  \* The server process and its two pipes.
  serverIn,     \* written by the pumps, read by the server
  serverInOpen, \* the proxy still holds its write end
  serverOut,    \* written by the server, read by the server pump
  serverAlive,  \* the server process runs
  todo,         \* requests the server has read and not answered
  uncalled,     \* calls the server has not made
  \* Session.
  pending,      \* Session.pending: forwarded upstream and not yet answered
  answered,     \* tokens in Session.answered, a channel of capacity one
  \* The pumps: where each is, and the message in its hands.
  cpc, cmsg, spc, smsg,
  \* Run and what it shares with its goroutines.
  run,          \* the goroutine that called Run
  errs,         \* what each pump has sent on the errs channel
  result,       \* what Run returned
  ctxDone,      \* the session's context is cancelled
  stopped,      \* stop() has closed ClientIn and ServerOut
  drainTimer,   \* the timer armed after the server's stdin is closed
  \* History, read by no action.
  forwarded,    \* requests written to the server's stdin
  taken,        \* requests whose response the server pump has settled
  refused,      \* requests the proxy has answered itself
  replies,      \* messages written to the client that answer a request
  gaveUp        \* the wait for replies ended with some outstanding

clientVars == <<unsent, clientIn, clientOpen, clientOut, clientGone>>
serverVars == <<serverIn, serverInOpen, serverOut, serverAlive, todo, uncalled>>
waitVars   == <<pending, answered>>
cVars      == <<cpc, cmsg>>
sVars      == <<spc, smsg>>
runVars    == <<run, errs, result, ctxDone, stopped, drainTimer>>
histVars   == <<forwarded, taken, refused, replies, gaveUp>>
vars       == <<clientVars, serverVars, waitVars, cVars, sVars, runVars, histVars>>

Init ==
  /\ unsent = ClientMsgs /\ clientIn = <<>> /\ clientOpen = TRUE
  /\ clientOut = 0 /\ clientGone = FALSE
  /\ serverIn = <<>> /\ serverInOpen = TRUE /\ serverOut = <<>>
  /\ serverAlive = TRUE /\ todo = {} /\ uncalled = Calls
  /\ pending = {} /\ answered = 0
  /\ cpc = "read" /\ cmsg = "none" /\ spc = "read" /\ smsg = "none"
  /\ run = "waitServer" /\ result = "none"
  /\ errs = [pump \in {"client", "server"} |-> "none"]
  /\ ctxDone = FALSE /\ stopped = FALSE /\ drainTimer = "unset"
  /\ forwarded = {} /\ taken = {} /\ refused = {}
  /\ replies = [r \in Requests |-> 0] /\ gaveUp = FALSE

-----------------------------------------------------------------------------
(* The client.                                                             *)

ClientSend(m) ==
  /\ clientOpen /\ m \in unsent /\ Len(clientIn) < Cap
  /\ clientIn' = Append(clientIn, m)
  /\ unsent' = unsent \ {m}
  /\ UNCHANGED <<clientOpen, clientOut, clientGone>>
  /\ UNCHANGED <<serverVars, waitVars, cVars, sVars, runVars, histVars>>

ClientClose ==
  /\ clientOpen /\ clientOpen' = FALSE
  /\ UNCHANGED <<unsent, clientIn, clientOut, clientGone>>
  /\ UNCHANGED <<serverVars, waitVars, cVars, sVars, runVars, histVars>>

ClientRecv ==
  /\ clientOut > 0 /\ clientOut' = clientOut - 1
  /\ UNCHANGED <<unsent, clientIn, clientOpen, clientGone>>
  /\ UNCHANGED <<serverVars, waitVars, cVars, sVars, runVars, histVars>>

\* The client process ends: both its pipes close.
ClientExit ==
  /\ ~clientGone
  /\ clientGone' = TRUE /\ clientOpen' = FALSE /\ clientOut' = 0
  /\ UNCHANGED <<unsent, clientIn>>
  /\ UNCHANGED <<serverVars, waitVars, cVars, sVars, runVars, histVars>>

-----------------------------------------------------------------------------
(* The server process.                                                     *)

ServerRecv ==
  /\ serverAlive /\ serverIn # <<>>
  /\ serverIn' = Tail(serverIn)
  /\ todo' = todo \cup ({Head(serverIn)} \cap Requests)
  /\ UNCHANGED <<serverInOpen, serverOut, serverAlive, uncalled>>
  /\ UNCHANGED <<clientVars, waitVars, cVars, sVars, runVars, histVars>>

\* Answers come in any order.
ServerAnswer(r) ==
  /\ serverAlive /\ r \in todo /\ Len(serverOut) < Cap
  /\ serverOut' = Append(serverOut, r)
  /\ todo' = todo \ {r}
  /\ UNCHANGED <<serverIn, serverInOpen, serverAlive, uncalled>>
  /\ UNCHANGED <<clientVars, waitVars, cVars, sVars, runVars, histVars>>

ServerCall(c) ==
  /\ serverAlive /\ c \in uncalled /\ Len(serverOut) < Cap
  /\ serverOut' = Append(serverOut, c)
  /\ uncalled' = uncalled \ {c}
  /\ UNCHANGED <<serverIn, serverInOpen, serverAlive, todo>>
  /\ UNCHANGED <<clientVars, waitVars, cVars, sVars, runVars, histVars>>

\* What it has written can still be read.
ServerExit ==
  /\ serverAlive /\ serverAlive' = FALSE
  /\ UNCHANGED <<serverIn, serverInOpen, serverOut, todo, uncalled>>
  /\ UNCHANGED <<clientVars, waitVars, cVars, sVars, runVars, histVars>>

-----------------------------------------------------------------------------
(* jsonrpc.Writer.WriteRaw on each of the two pipes the proxy writes: it    *)
(* completes while there is room, blocks while there is none, and fails     *)
(* once nobody can read what it writes.                                     *)

ClientTakes == ~clientGone /\ clientOut < Cap
WriteToClient ==
  /\ clientOut' = clientOut + 1
  /\ UNCHANGED <<unsent, clientIn, clientOpen, clientGone>>

ServerInBroken == ~serverInOpen \/ ~serverAlive
ServerTakes == ~ServerInBroken /\ Len(serverIn) < Cap
WriteToServer(m) ==
  /\ serverIn' = Append(serverIn, m)
  /\ UNCHANGED <<serverInOpen, serverOut, serverAlive, todo, uncalled>>

-----------------------------------------------------------------------------
(* The client pump: pump and handle for ClientToServer, then awaitReplies. *)

\* pump returns err, and the goroutine sends it on errs.
CPumpEnds(err) ==
  /\ errs' = [errs EXCEPT !["client"] = err]
  /\ cpc' = IF err = "nil" THEN "await" ELSE "close"
  /\ cmsg' = "none"
  /\ UNCHANGED <<run, result, ctxDone, stopped, drainTimer>>

\* Data already buffered is still read after the source is closed.
CRead ==
  /\ cpc = "read" /\ clientIn # <<>>
  /\ clientIn' = Tail(clientIn)
  /\ IF Head(clientIn) \in Oversize
       THEN CPumpEnds(IF ctxDone THEN "nil" ELSE "error")
       ELSE /\ cpc' = "handle" /\ cmsg' = Head(clientIn)
            /\ UNCHANGED runVars
  /\ UNCHANGED <<unsent, clientOpen, clientOut, clientGone>>
  /\ UNCHANGED <<serverVars, waitVars, sVars, histVars>>

CEof ==
  /\ cpc = "read" /\ clientIn = <<>> /\ ~clientOpen
  /\ CPumpEnds("nil")
  /\ UNCHANGED <<clientVars, serverVars, waitVars, sVars, histVars>>

\* The read notices that stop closed its source.
CClosed ==
  /\ cpc = "read" /\ stopped
  /\ CPumpEnds("nil")
  /\ UNCHANGED <<clientVars, serverVars, waitVars, sVars, histVars>>

CUnparseable ==
  /\ cpc = "handle" /\ cmsg \in Garbage
  /\ cpc' = IF RejectUnparseable THEN "reply" ELSE "forward"
  /\ UNCHANGED cmsg
  /\ UNCHANGED <<clientVars, serverVars, waitVars, sVars, runVars, histVars>>

\* track: only requests are awaited.
Track(m) == pending' = pending \cup ({m} \cap Requests)

CHandleForward ==
  /\ cpc = "handle" /\ cmsg \notin Garbage /\ "forward" \in ClientVerdicts
  /\ Track(cmsg)
  /\ cpc' = "forward"
  /\ UNCHANGED <<cmsg, answered>>
  /\ UNCHANGED <<clientVars, serverVars, sVars, runVars, histVars>>

CHandleReject ==
  /\ cpc = "handle" /\ cmsg \notin Garbage /\ "reject" \in ClientVerdicts
  /\ cpc' = "reply"
  /\ UNCHANGED cmsg
  /\ UNCHANGED <<clientVars, serverVars, waitVars, sVars, runVars, histVars>>

CHandleDrop ==
  /\ cpc = "handle" /\ cmsg \in Notes /\ "drop" \in ClientVerdicts
  /\ cpc' = "read" /\ cmsg' = "none"
  /\ UNCHANGED <<clientVars, serverVars, waitVars, sVars, runVars, histVars>>

\* Intercept failed, or dropped a request, which would strand its sender.
CHandleFail ==
  /\ cpc = "handle" /\ cmsg \notin Garbage
  /\ \/ "error" \in ClientVerdicts
     \/ "drop" \in ClientVerdicts /\ cmsg \in Requests
  /\ CPumpEnds("error")
  /\ UNCHANGED <<clientVars, serverVars, waitVars, sVars, histVars>>

CForward ==
  /\ cpc = "forward" /\ ServerTakes
  /\ WriteToServer(cmsg)
  /\ forwarded' = forwarded \cup ({cmsg} \cap Requests)
  /\ cpc' = "read" /\ cmsg' = "none"
  /\ UNCHANGED <<taken, refused, replies, gaveUp>>
  /\ UNCHANGED <<clientVars, waitVars, sVars, runVars>>

CReply ==
  /\ cpc = "reply" /\ ClientTakes
  /\ WriteToClient
  /\ refused' = refused \cup ({cmsg} \cap Requests)
  /\ replies' = IF cmsg \in Requests
                  THEN [replies EXCEPT ![cmsg] = @ + 1] ELSE replies
  /\ cpc' = "read" /\ cmsg' = "none"
  /\ UNCHANGED <<forwarded, taken, gaveUp>>
  /\ UNCHANGED <<serverVars, waitVars, sVars, runVars>>

CWriteFails ==
  /\ \/ cpc = "forward" /\ ServerInBroken
     \/ cpc = "reply" /\ clientGone
  /\ CPumpEnds("error")
  /\ UNCHANGED <<clientVars, serverVars, waitVars, sVars, histVars>>

\* Variant: the end of the client's input closes the server's at once.
CAwaitNothing ==
  /\ cpc = "await" /\ cpc' = "close"
  /\ UNCHANGED cmsg
  /\ UNCHANGED <<clientVars, serverVars, waitVars, sVars, runVars, histVars>>

\* awaitReplies reads len(pending) under the lock, then selects.
CAwait ==
  /\ cpc = "await"
  /\ cpc' = IF pending = {} THEN "close" ELSE "awaitSelect"
  /\ UNCHANGED cmsg
  /\ UNCHANGED <<clientVars, serverVars, waitVars, sVars, runVars, histVars>>

CAwaitWoken ==
  /\ cpc = "awaitSelect" /\ answered = 1
  /\ answered' = 0 /\ cpc' = "await"
  /\ UNCHANGED <<pending, cmsg>>
  /\ UNCHANGED <<clientVars, serverVars, sVars, runVars, histVars>>

\* Variant: only the end of the session ends the wait.
CAwaitUnbounded ==
  /\ cpc = "awaitSelect" /\ ctxDone
  /\ cpc' = "close" /\ gaveUp' = TRUE
  /\ UNCHANGED <<cmsg, forwarded, taken, refused, replies>>
  /\ UNCHANGED <<clientVars, serverVars, waitVars, sVars, runVars>>

\* The grace period passes (time is not counted: it may pass at any point),
\* or the session is ending anyway.
CAwaitGivesUp ==
  /\ cpc = "awaitSelect"
  /\ cpc' = "close" /\ gaveUp' = TRUE
  /\ UNCHANGED <<cmsg, forwarded, taken, refused, replies>>
  /\ UNCHANGED <<clientVars, serverVars, waitVars, sVars, runVars>>

\* Variant: the server's stdin is closed and no timer is armed.
CCloseUnbounded ==
  /\ cpc = "close"
  /\ serverInOpen' = FALSE /\ cpc' = "done"
  /\ UNCHANGED <<serverIn, serverOut, serverAlive, todo, uncalled, cmsg>>
  /\ UNCHANGED <<clientVars, waitVars, sVars, runVars, histVars>>

\* The server's stdin is closed, and the wait for its output to end is bounded.
CClose ==
  /\ cpc = "close"
  /\ serverInOpen' = FALSE /\ drainTimer' = "armed" /\ cpc' = "done"
  /\ UNCHANGED <<serverIn, serverOut, serverAlive, todo, uncalled, cmsg>>
  /\ UNCHANGED <<run, errs, result, ctxDone, stopped>>
  /\ UNCHANGED <<clientVars, waitVars, sVars, histVars>>

-----------------------------------------------------------------------------
(* The server pump: pump and handle for ServerToClient.                    *)

SPumpEnds(err) ==
  /\ errs' = [errs EXCEPT !["server"] = err]
  /\ ctxDone' = TRUE
  /\ spc' = "done" /\ smsg' = "none"
  /\ UNCHANGED <<run, result, stopped, drainTimer>>

SRead ==
  /\ spc = "read" /\ serverOut # <<>>
  /\ serverOut' = Tail(serverOut)
  /\ IF Head(serverOut) \in Oversize
       THEN SPumpEnds(IF ctxDone THEN "nil" ELSE "error")
       ELSE /\ spc' = "handle" /\ smsg' = Head(serverOut)
            /\ UNCHANGED runVars
  /\ UNCHANGED <<serverIn, serverInOpen, serverAlive, todo, uncalled>>
  /\ UNCHANGED <<clientVars, waitVars, cVars, histVars>>

SEof ==
  /\ spc = "read"
  /\ stopped \/ (serverOut = <<>> /\ ~serverAlive)
  /\ SPumpEnds("nil")
  /\ UNCHANGED <<clientVars, serverVars, waitVars, cVars, histVars>>

IDKey(m) == IF m \in Calls THEN CallId[m] ELSE m
\* Variant: whatever carries an id settles it.
HasId(m) == m \in Requests \cup Calls
IsResponse(m) == m \in Requests

\* Variant: no signal follows the deletion.
SSettleSilently ==
  /\ spc = "handle" /\ IsResponse(smsg)
  /\ pending' = pending \ {IDKey(smsg)}
  /\ spc' = "decide"
  /\ taken' = taken \cup ({smsg} \cap Requests)
  /\ UNCHANGED <<answered, smsg, forwarded, refused, replies, gaveUp>>
  /\ UNCHANGED <<clientVars, serverVars, cVars, runVars>>

\* settle deletes the id under the lock; if it was there, it then signals.
SSettle ==
  /\ spc = "handle" /\ IsResponse(smsg)
  /\ pending' = pending \ {IDKey(smsg)}
  /\ spc' = IF IDKey(smsg) \in pending THEN "signal" ELSE "decide"
  /\ taken' = taken \cup ({smsg} \cap Requests)
  /\ UNCHANGED <<answered, smsg, forwarded, refused, replies, gaveUp>>
  /\ UNCHANGED <<clientVars, serverVars, cVars, runVars>>

SNotResponse ==
  /\ spc = "handle" /\ ~IsResponse(smsg)
  /\ spc' = "decide"
  /\ UNCHANGED smsg
  /\ UNCHANGED <<clientVars, serverVars, waitVars, cVars, runVars, histVars>>

\* Variant: the channel takes a token for every answer.
SSignalAlways ==
  /\ spc = "signal"
  /\ answered' = answered + 1 /\ spc' = "decide"
  /\ UNCHANGED <<pending, smsg>>
  /\ UNCHANGED <<clientVars, serverVars, cVars, runVars, histVars>>

\* A non-blocking send on a channel of capacity one.
SSignal ==
  /\ spc = "signal"
  /\ answered' = 1 /\ spc' = "decide"
  /\ UNCHANGED <<pending, smsg>>
  /\ UNCHANGED <<clientVars, serverVars, cVars, runVars, histVars>>

SDecide ==
  /\ spc = "decide"
  /\ \/ "forward" \in ServerVerdicts /\ spc' = "forward" /\ UNCHANGED smsg
     \/ "reject" \in ServerVerdicts /\ spc' = "reply" /\ UNCHANGED smsg
     \/ /\ "drop" \in ServerVerdicts /\ smsg \notin Calls
        /\ spc' = "read" /\ smsg' = "none"
  /\ UNCHANGED <<clientVars, serverVars, waitVars, cVars, runVars, histVars>>

SDecideFail ==
  /\ spc = "decide"
  /\ \/ "error" \in ServerVerdicts
     \/ "drop" \in ServerVerdicts /\ smsg \in Calls
  /\ SPumpEnds("error")
  /\ UNCHANGED <<clientVars, serverVars, waitVars, cVars, histVars>>

SForward ==
  /\ spc = "forward" /\ ClientTakes
  /\ WriteToClient
  /\ replies' = IF smsg \in Requests
                  THEN [replies EXCEPT ![smsg] = @ + 1] ELSE replies
  /\ spc' = "read" /\ smsg' = "none"
  /\ UNCHANGED <<forwarded, taken, refused, gaveUp>>
  /\ UNCHANGED <<serverVars, waitVars, cVars, runVars>>

\* A refused server message is answered on the server's stdin.
SReply ==
  /\ spc = "reply" /\ ServerTakes
  /\ WriteToServer("none")
  /\ spc' = "read" /\ smsg' = "none"
  /\ UNCHANGED <<clientVars, waitVars, cVars, runVars, histVars>>

SWriteFails ==
  /\ \/ spc = "forward" /\ clientGone
     \/ spc = "reply" /\ ServerInBroken
  /\ SPumpEnds("error")
  /\ UNCHANGED <<clientVars, serverVars, waitVars, cVars, histVars>>

-----------------------------------------------------------------------------
(* Run, its watcher and its drain timer.                                   *)

\* The context Run was given is cancelled.
ParentCancel ==
  /\ ~ctxDone /\ ctxDone' = TRUE
  /\ UNCHANGED <<run, errs, result, stopped, drainTimer>>
  /\ UNCHANGED <<clientVars, serverVars, waitVars, cVars, sVars, histVars>>

Stop ==
  /\ ctxDone /\ ~stopped /\ stopped' = TRUE
  /\ UNCHANGED <<run, errs, result, ctxDone, drainTimer>>
  /\ UNCHANGED <<clientVars, serverVars, waitVars, cVars, sVars, histVars>>

DrainFires ==
  /\ drainTimer = "armed" /\ drainTimer' = "fired" /\ ctxDone' = TRUE
  /\ UNCHANGED <<run, errs, result, stopped>>
  /\ UNCHANGED <<clientVars, serverVars, waitVars, cVars, sVars, histVars>>

RunServerDone ==
  /\ run = "waitServer" /\ spc = "done" /\ run' = "waitClient"
  /\ UNCHANGED <<errs, result, ctxDone, stopped, drainTimer>>
  /\ UNCHANGED <<clientVars, serverVars, waitVars, cVars, sVars, histVars>>

\* Variant: Run waits for the client pump as long as it takes.
RunReturnLate ==
  /\ run = "waitClient" /\ cpc = "done" /\ run' = "returned"
  /\ result' = IF \E pump \in {"client", "server"} : errs[pump] = "error"
                 THEN "error" ELSE "nil"
  /\ UNCHANGED <<errs, ctxDone, stopped, drainTimer>>
  /\ UNCHANGED <<clientVars, serverVars, waitVars, cVars, sVars, histVars>>

\* The client pump is done, or clientReleaseGrace has passed.
RunReturn ==
  /\ run = "waitClient" /\ run' = "returned"
  /\ result' = IF \E pump \in {"client", "server"} : errs[pump] = "error"
                 THEN "error" ELSE "nil"
  /\ UNCHANGED <<errs, ctxDone, stopped, drainTimer>>
  /\ UNCHANGED <<clientVars, serverVars, waitVars, cVars, sVars, histVars>>

Finished == run = "returned" /\ UNCHANGED vars

-----------------------------------------------------------------------------
\* CClosed stands apart: a read already blocked on os.Stdin is not interrupted
\* by closing it, so nothing makes that step happen.
ClientPump ==
  \/ CRead \/ CEof \/ CUnparseable \/ CHandleForward \/ CHandleReject
  \/ CHandleDrop \/ CHandleFail \/ CForward \/ CReply \/ CWriteFails
  \/ CAwait \/ CAwaitWoken \/ CAwaitGivesUp \/ CClose

ServerPump ==
  \/ SRead \/ SEof \/ SSettle \/ SNotResponse \/ SSignal
  \/ SDecide \/ SDecideFail \/ SForward \/ SReply \/ SWriteFails

RunSteps == RunServerDone \/ RunReturn

Client ==
  \/ \E m \in ClientMsgs : ClientSend(m)
  \/ ClientClose \/ ClientRecv \/ ClientExit
Server ==
  \/ ServerRecv \/ ServerExit
  \/ \E r \in Requests : ServerAnswer(r)
  \/ \E c \in Calls : ServerCall(c)

Next ==
  \/ Client \/ Server
  \/ ClientPump \/ CClosed \/ ServerPump
  \/ RunSteps \/ ParentCancel \/ Stop \/ DrainFires
  \/ Finished

Spec == Init /\ [][Next]_vars

-----------------------------------------------------------------------------
ClientType ==
  /\ unsent \subseteq ClientMsgs /\ clientIn \in Seq(ClientMsgs)
  /\ clientOpen \in BOOLEAN /\ clientOut \in 0 .. Cap /\ clientGone \in BOOLEAN
ServerType ==
  /\ serverIn \in Seq(ClientMsgs \cup {"none"}) /\ serverOut \in Seq(ServerMsgs)
  /\ serverInOpen \in BOOLEAN /\ serverAlive \in BOOLEAN
  /\ todo \subseteq Requests /\ uncalled \subseteq Calls
WaitType == pending \subseteq Requests /\ answered \in 0 .. 1
CType ==
  \/ cpc \in {"handle", "forward", "reply"} /\ cmsg \in ClientMsgs
  \/ cpc \in {"read", "await", "awaitSelect", "close", "done"} /\ cmsg = "none"
SType ==
  \/ spc \in {"handle", "signal", "decide", "forward", "reply"} /\ smsg \in ServerMsgs
  \/ spc \in {"read", "done"} /\ smsg = "none"
RunType ==
  /\ run \in {"waitServer", "waitClient", "returned"}
  /\ errs \in [{"client", "server"} -> {"none", "nil", "error"}]
  /\ result \in {"none", "nil", "error"}
  /\ ctxDone \in BOOLEAN /\ stopped \in BOOLEAN
  /\ drainTimer \in {"unset", "armed", "fired"}
HistType ==
  /\ forwarded \subseteq Requests /\ taken \subseteq Requests
  /\ refused \subseteq Requests
  /\ replies \in [Requests -> Nat] /\ gaveUp \in BOOLEAN

TypeOK ==
  ClientType /\ ServerType /\ WaitType /\ CType /\ SType /\ RunType /\ HistType

\* The server's stdin is not closed while a request written to it is still
\* unanswered: many servers abandon, at the end of their input, the replies
\* they have not written yet.  Run waits for them, unless that wait expired or
\* the client pump failed.
DrainBeforeClose ==
  ~serverInOpen /\ ~gaveUp /\ errs["client"] # "error" => forwarded \subseteq taken

\* awaitReplies never sleeps on the answered channel over an empty pending set
\* with no token in it or on its way: settle deletes and signals in two steps,
\* and the channel drops what does not fit.
NoLostWakeup ==
  cpc = "awaitSelect" /\ pending = {} => answered = 1 \/ spc = "signal"

\* Run "returns nil on a clean shutdown - either side closing its stream is the
\* normal way an MCP session ends, not an error".  Stated for a session whose
\* interceptor forwards everything and whose client keeps reading.
CleanShutdownIsNil == result = "error" => clientGone

-----------------------------------------------------------------------------
(* The session implements Relay.                                           *)

\* A second answer to a request has no place in Relay.
Phase(r) ==
  CASE r \in refused /\ r \notin forwarded /\ replies[r] = 1 -> "refused"
    [] r \in taken /\ r \notin refused /\ replies[r] = 1     -> "answered"
    [] r \in taken /\ replies[r] = 0                         -> "settled"
    [] r \in forwarded \ taken /\ replies[r] = 0             -> "upstream"
    [] r \notin forwarded \cup refused /\ replies[r] = 0     -> "unseen"
    [] OTHER                                                 -> "astray"

Promise == INSTANCE Relay WITH
  phase <- [r \in Requests |-> Phase(r)],
  eoi <- ~serverInOpen,
  excused <- gaveUp \/ errs["client"] = "error",
  outcome <- result

\* Every request is refused or relayed, answered once, and drained before the
\* server's input ends: Session.Run implements what Relay promises.
ImplementsRelay == Promise!Spec

=============================================================================
