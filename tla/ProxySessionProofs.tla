------------------------- MODULE ProxySessionProofs -------------------------
(***************************************************************************)
(* Proofs about ProxySession, for any messages, any capacity of the pipes  *)
(* and any verdicts of the interceptor.                                    *)
(***************************************************************************)
EXTENDS ProxySession, SequenceTheorems, TLAPS

-----------------------------------------------------------------------------
(* Type correctness.  A step disturbs a few groups of variables; the type  *)
(* of every other group follows from the frame.                            *)

LEMMA CapPositive == Cap \in Nat \ {0}
BY SessionAssumption DEF SessionAssumption

LEMMA FrameClient == ClientType /\ UNCHANGED clientVars => ClientType'
BY DEF ClientType, clientVars

LEMMA FrameServer == ServerType /\ UNCHANGED serverVars => ServerType'
BY DEF ServerType, serverVars

LEMMA FrameWait == WaitType /\ UNCHANGED waitVars => WaitType'
BY DEF WaitType, waitVars

LEMMA FrameC == CType /\ UNCHANGED cVars => CType'
BY DEF CType, cVars

LEMMA FrameS == SType /\ UNCHANGED sVars => SType'
BY DEF SType, sVars

LEMMA FrameRun == RunType /\ UNCHANGED runVars => RunType'
BY DEF RunType, runVars

LEMMA FrameHist == HistType /\ UNCHANGED histVars => HistType'
BY DEF HistType, histVars

\* What the two pumps write, and how each ends.
LEMMA ClientWriteType == ClientType /\ ClientTakes /\ WriteToClient => ClientType'
BY CapPositive DEF ClientType, ClientTakes, WriteToClient

LEMMA ServerWriteType ==
  ASSUME ServerType, NEW m \in ClientMsgs \cup {"none"}, WriteToServer(m)
  PROVE  ServerType'
BY AppendProperties DEF ServerType, WriteToServer

LEMMA CPumpEndsType ==
  ASSUME RunType, NEW err \in {"nil", "error"}, CPumpEnds(err)
  PROVE  RunType' /\ CType'
BY DEF RunType, CType, CPumpEnds

LEMMA SPumpEndsType ==
  ASSUME RunType, NEW err \in {"nil", "error"}, SPumpEnds(err)
  PROVE  RunType' /\ SType'
BY DEF RunType, SType, SPumpEnds

LEMMA TypeClient == TypeOK /\ Client => TypeOK'
<1> SUFFICES ASSUME TypeOK, Client PROVE TypeOK'
  OBVIOUS
<1>1. UNCHANGED <<serverVars, waitVars, cVars, sVars, runVars, histVars>>
  BY DEF Client, ClientSend, ClientClose, ClientRecv, ClientExit
<1>2. ClientType'
  <2>1. CASE \E m \in ClientMsgs : ClientSend(m)
    BY <2>1, AppendProperties DEF TypeOK, ClientType, ClientSend
  <2>2. CASE ClientClose
    BY <2>2 DEF TypeOK, ClientType, ClientClose
  <2>3. CASE ClientRecv
    BY <2>3, CapPositive DEF TypeOK, ClientType, ClientRecv
  <2>4. CASE ClientExit
    <3>1. 0 \in 0 .. Cap
      BY CapPositive
    <3> QED BY <2>4, <3>1 DEF TypeOK, ClientType, ClientExit
  <2> QED BY <2>1, <2>2, <2>3, <2>4 DEF Client
<1> QED
  BY <1>1, <1>2, FrameServer, FrameWait, FrameC, FrameS, FrameRun, FrameHist DEF TypeOK

LEMMA TypeServer == TypeOK /\ Server => TypeOK'
<1> SUFFICES ASSUME TypeOK, Server PROVE TypeOK'
  OBVIOUS
<1>1. UNCHANGED <<clientVars, waitVars, cVars, sVars, runVars, histVars>>
  BY DEF Server, ServerRecv, ServerAnswer, ServerCall, ServerExit
<1>2. ServerType'
  <2>1. CASE ServerRecv
    BY <2>1, HeadTailProperties DEF TypeOK, ServerType, ServerRecv
  <2>2. CASE \E r \in Requests : ServerAnswer(r)
    BY <2>2, AppendProperties DEF TypeOK, ServerType, ServerMsgs, ServerAnswer
  <2>3. CASE \E c \in Calls : ServerCall(c)
    BY <2>3, AppendProperties DEF TypeOK, ServerType, ServerMsgs, ServerCall
  <2>4. CASE ServerExit
    BY <2>4 DEF TypeOK, ServerType, ServerExit
  <2> QED BY <2>1, <2>2, <2>3, <2>4 DEF Server
<1> QED
  BY <1>1, <1>2, FrameClient, FrameWait, FrameC, FrameS, FrameRun, FrameHist DEF TypeOK

LEMMA TypeClientPump == TypeOK /\ (ClientPump \/ CClosed) => TypeOK'
<1> SUFFICES ASSUME TypeOK, ClientPump \/ CClosed PROVE TypeOK'
  OBVIOUS
<1> USE DEF TypeOK
<1>1. CASE CRead
  <2>1. ClientType'
    BY <1>1, HeadTailProperties DEF ClientType, CRead
  <2>2. RunType' /\ CType'
    <3>1. Head(clientIn) \in ClientMsgs
      BY <1>1, HeadTailProperties DEF ClientType, CRead
    <3>2. CASE Head(clientIn) \in Oversize
      BY <1>1, <3>2, CPumpEndsType DEF CRead
    <3>3. CASE Head(clientIn) \notin Oversize
      BY <1>1, <3>1, <3>3, FrameRun DEF CRead, CType
    <3> QED BY <3>2, <3>3
  <2> QED BY <1>1, <2>1, <2>2, FrameServer, FrameWait, FrameS, FrameHist DEF CRead
<1>2. CASE CEof
  BY <1>2, CPumpEndsType, FrameClient, FrameServer, FrameWait, FrameS, FrameHist DEF CEof
<1>3. CASE CClosed
  BY <1>3, CPumpEndsType, FrameClient, FrameServer, FrameWait, FrameS, FrameHist DEF CClosed
<1>4. CASE CUnparseable \/ CHandleReject \/ CHandleDrop \/ CAwait
  <2>1. CType'
    BY <1>4 DEF CType, CUnparseable, CHandleReject, CHandleDrop, CAwait
  <2>2. UNCHANGED <<clientVars, serverVars, waitVars, sVars, runVars, histVars>>
    BY <1>4 DEF CUnparseable, CHandleReject, CHandleDrop, CAwait
  <2> QED BY <2>1, <2>2, FrameClient, FrameServer, FrameWait, FrameS, FrameRun, FrameHist
<1>5. CASE CHandleForward
  <2>1. CType' /\ WaitType'
    BY <1>5 DEF CType, WaitType, CHandleForward, Track
  <2> QED
    BY <1>5, <2>1, FrameClient, FrameServer, FrameS, FrameRun, FrameHist DEF CHandleForward
<1>6. CASE CHandleFail
  BY <1>6, CPumpEndsType, FrameClient, FrameServer, FrameWait, FrameS, FrameHist
     DEF CHandleFail
<1>7. CASE CForward
  <2>1. ServerType'
    BY <1>7, ServerWriteType DEF CType, CForward
  <2>2. CType' /\ HistType'
    BY <1>7 DEF CType, HistType, CForward
  <2> QED BY <1>7, <2>1, <2>2, FrameClient, FrameWait, FrameS, FrameRun DEF CForward
<1>8. CASE CReply
  <2>1. ClientType'
    BY <1>8, ClientWriteType DEF CReply
  <2>2. CType' /\ HistType'
    BY <1>8 DEF CType, HistType, CReply
  <2> QED BY <1>8, <2>1, <2>2, FrameServer, FrameWait, FrameS, FrameRun DEF CReply
<1>9. CASE CWriteFails
  BY <1>9, CPumpEndsType, FrameClient, FrameServer, FrameWait, FrameS, FrameHist
     DEF CWriteFails
<1>10. CASE CAwaitWoken
  <2>1. CType' /\ WaitType'
    BY <1>10 DEF CType, WaitType, CAwaitWoken
  <2> QED
    BY <1>10, <2>1, FrameClient, FrameServer, FrameS, FrameRun, FrameHist DEF CAwaitWoken
<1>11. CASE CAwaitGivesUp
  <2>1. CType' /\ HistType'
    BY <1>11 DEF CType, HistType, CAwaitGivesUp
  <2> QED
    BY <1>11, <2>1, FrameClient, FrameServer, FrameWait, FrameS, FrameRun DEF CAwaitGivesUp
<1>12. CASE CClose
  <2>1. CType' /\ ServerType' /\ RunType'
    BY <1>12 DEF CType, ServerType, RunType, CClose
  <2> QED BY <1>12, <2>1, FrameClient, FrameWait, FrameS, FrameHist DEF CClose
<1> QED
  BY <1>1, <1>2, <1>3, <1>4, <1>5, <1>6, <1>7, <1>8, <1>9, <1>10, <1>11, <1>12
     DEF ClientPump

LEMMA TypeServerPump == TypeOK /\ ServerPump => TypeOK'
<1> SUFFICES ASSUME TypeOK, ServerPump PROVE TypeOK'
  OBVIOUS
<1> USE DEF TypeOK
<1>1. CASE SRead
  <2>1. ServerType'
    BY <1>1, HeadTailProperties DEF ServerType, SRead
  <2>2. RunType' /\ SType'
    <3>1. Head(serverOut) \in ServerMsgs
      BY <1>1, HeadTailProperties DEF ServerType, SRead
    <3>2. CASE Head(serverOut) \in Oversize
      BY <1>1, <3>2, SPumpEndsType DEF SRead
    <3>3. CASE Head(serverOut) \notin Oversize
      BY <1>1, <3>1, <3>3, FrameRun DEF SRead, SType
    <3> QED BY <3>2, <3>3
  <2> QED BY <1>1, <2>1, <2>2, FrameClient, FrameWait, FrameC, FrameHist DEF SRead
<1>2. CASE SEof \/ SDecideFail \/ SWriteFails
  <2>1. RunType' /\ SType'
    BY <1>2, SPumpEndsType DEF SEof, SDecideFail, SWriteFails
  <2>2. UNCHANGED <<clientVars, serverVars, waitVars, cVars, histVars>>
    BY <1>2 DEF SEof, SDecideFail, SWriteFails
  <2> QED BY <2>1, <2>2, FrameClient, FrameServer, FrameWait, FrameC, FrameHist
<1>3. CASE SSettle
  <2>1. SType' /\ WaitType' /\ HistType'
    BY <1>3 DEF SType, WaitType, HistType, SSettle
  <2> QED BY <1>3, <2>1, FrameClient, FrameServer, FrameC, FrameRun DEF SSettle
<1>4. CASE SNotResponse \/ SDecide
  <2>1. SType'
    BY <1>4 DEF SType, SNotResponse, SDecide
  <2>2. UNCHANGED <<clientVars, serverVars, waitVars, cVars, runVars, histVars>>
    BY <1>4 DEF SNotResponse, SDecide
  <2> QED BY <2>1, <2>2, FrameClient, FrameServer, FrameWait, FrameC, FrameRun, FrameHist
<1>5. CASE SSignal
  <2>1. SType' /\ WaitType'
    BY <1>5 DEF SType, WaitType, SSignal
  <2> QED BY <1>5, <2>1, FrameClient, FrameServer, FrameC, FrameRun, FrameHist DEF SSignal
<1>6. CASE SForward
  <2>1. ClientType'
    BY <1>6, ClientWriteType DEF SForward
  <2>2. SType' /\ HistType'
    BY <1>6 DEF SType, HistType, SForward
  <2> QED BY <1>6, <2>1, <2>2, FrameServer, FrameWait, FrameC, FrameRun DEF SForward
<1>7. CASE SReply
  <2>1. ServerType'
    BY <1>7, ServerWriteType DEF SReply
  <2>2. SType'
    BY <1>7 DEF SType, SReply
  <2> QED
    BY <1>7, <2>1, <2>2, FrameClient, FrameWait, FrameC, FrameRun, FrameHist DEF SReply
<1> QED BY <1>1, <1>2, <1>3, <1>4, <1>5, <1>6, <1>7 DEF ServerPump

LEMMA TypeRun == TypeOK /\ (RunSteps \/ ParentCancel \/ Stop \/ DrainFires) => TypeOK'
<1> SUFFICES ASSUME TypeOK, RunSteps \/ ParentCancel \/ Stop \/ DrainFires PROVE TypeOK'
  OBVIOUS
<1>1. RunType'
  BY DEF TypeOK, RunType, RunSteps, RunServerDone, RunReturn, ParentCancel, Stop, DrainFires
<1>2. UNCHANGED <<clientVars, serverVars, waitVars, cVars, sVars, histVars>>
  BY DEF RunSteps, RunServerDone, RunReturn, ParentCancel, Stop, DrainFires
<1> QED
  BY <1>1, <1>2, FrameClient, FrameServer, FrameWait, FrameC, FrameS, FrameHist DEF TypeOK

LEMMA TypeInit == Init => TypeOK
<1> SUFFICES ASSUME Init PROVE TypeOK
  OBVIOUS
<1>1. ClientType
  <2>1. 0 \in 0 .. Cap
    BY CapPositive
  <2>2. <<>> \in Seq(ClientMsgs)
    BY EmptySeq
  <2> QED BY <2>1, <2>2 DEF Init, ClientType
<1>2. ServerType
  <2>1. <<>> \in Seq(ClientMsgs \cup {"none"}) /\ <<>> \in Seq(ServerMsgs)
    BY EmptySeq
  <2> QED BY <2>1 DEF Init, ServerType
<1>3. WaitType /\ CType /\ SType
  BY DEF Init, WaitType, CType, SType
<1>4. HistType
  BY DEF Init, HistType
<1>5. RunType
  BY DEF Init, RunType
<1> QED BY <1>1, <1>2, <1>3, <1>4, <1>5 DEF TypeOK

LEMMA TypeNext == TypeOK /\ [Next]_vars => TypeOK'
<1> SUFFICES ASSUME TypeOK, [Next]_vars PROVE TypeOK'
  OBVIOUS
<1>1. CASE UNCHANGED vars
  BY <1>1, FrameClient, FrameServer, FrameWait, FrameC, FrameS, FrameRun, FrameHist
     DEF TypeOK, vars
<1> QED
  BY <1>1, TypeClient, TypeServer, TypeClientPump, TypeServerPump, TypeRun
     DEF Next, Finished

\* Every variable of a session keeps to the values the code gives it; of note,
\* the answered channel never holds more than its capacity, and a pump has a
\* message in its hands exactly while it handles one.
THEOREM TypeCorrect == Spec => []TypeOK
BY TypeInit, TypeNext, PTL DEF Spec

-----------------------------------------------------------------------------
(* DrainBeforeClose.  By itself it is not inductive: it says nothing of    *)
(* the steps that lead to the close.  What makes it true is the order in   *)
(* handle (track, then write) together with the order in settle (the       *)
(* request leaves the pending set only when its response is in hand), so   *)
(* that a request written upstream is always pending or settled, and an    *)
(* empty pending set means that all of them are settled.                   *)

Excused == gaveUp \/ errs["client"] = "error"

AwaitInv ==
  /\ forwarded \subseteq pending \cup taken
  /\ cpc = "forward" /\ cmsg \in Requests => cmsg \in pending \cup taken
  /\ cpc \in {"close", "done"} => Excused \/ forwarded \subseteq taken
ClosedInv == ~serverInOpen => cpc = "done"
DrainInv == AwaitInv /\ ClosedInv

awaitVars == <<forwarded, pending, taken, cVars, gaveUp, errs>>

LEMMA AwaitFrame == AwaitInv /\ UNCHANGED awaitVars => AwaitInv'
BY DEF AwaitInv, awaitVars, cVars, Excused

LEMMA DrainInit == Init => DrainInv
BY DEF Init, DrainInv, AwaitInv, ClosedInv

LEMMA AwaitClientPump == TypeOK /\ AwaitInv /\ (ClientPump \/ CClosed) => AwaitInv'
<1> SUFFICES ASSUME TypeOK, AwaitInv, ClientPump \/ CClosed PROVE AwaitInv'
  OBVIOUS
<1> USE DEF AwaitInv
\* Only three steps reach "close"; a pump that ends with an error is excused.
<1>1. ASSUME NEW err \in {"nil", "error"}, CPumpEnds(err), cpc # "done",
             UNCHANGED <<forwarded, pending, taken, gaveUp>>
      PROVE  AwaitInv'
  BY <1>1 DEF CPumpEnds, Excused, TypeOK, RunType
<1>2. CASE CRead
  <2>1. CASE Head(clientIn) \in Oversize
    BY <1>1, <1>2, <2>1 DEF CRead, serverVars, waitVars, histVars
  <2>2. CASE Head(clientIn) \notin Oversize
    BY <1>2, <2>2 DEF CRead, serverVars, waitVars, histVars, runVars, Excused
  <2> QED BY <2>1, <2>2
<1>3. CASE CEof \/ CClosed \/ CHandleFail
  BY <1>1, <1>3 DEF CEof, CClosed, CHandleFail, serverVars, waitVars, histVars
<1>4. CASE CWriteFails
  BY <1>1, <1>4 DEF CWriteFails, serverVars, waitVars, histVars
<1>5. CASE CUnparseable
  BY <1>5, SessionAssumption
     DEF CUnparseable, serverVars, waitVars, histVars, SessionAssumption
<1>6. CASE CHandleForward
  BY <1>6 DEF CHandleForward, Track, serverVars, histVars
<1>7. CASE CHandleReject \/ CHandleDrop
  BY <1>7 DEF CHandleReject, CHandleDrop, serverVars, waitVars, histVars
<1>8. CASE CForward
  BY <1>8 DEF CForward, WriteToServer, waitVars
<1>9. CASE CReply
  BY <1>9 DEF CReply, serverVars, waitVars
<1>10. CASE CAwait
  BY <1>10 DEF CAwait, serverVars, waitVars, histVars
<1>11. CASE CAwaitWoken
  BY <1>11 DEF CAwaitWoken, serverVars, histVars
<1>12. CASE CAwaitGivesUp
  BY <1>12 DEF CAwaitGivesUp, Excused, serverVars, waitVars
<1>13. CASE CClose
  BY <1>13 DEF CClose, Excused, waitVars, histVars
<1> QED
  BY <1>2, <1>3, <1>4, <1>5, <1>6, <1>7, <1>8, <1>9, <1>10, <1>11, <1>12, <1>13
     DEF ClientPump

LEMMA AwaitServerPump == TypeOK /\ AwaitInv /\ ServerPump => AwaitInv'
<1> SUFFICES ASSUME TypeOK, AwaitInv, ServerPump PROVE AwaitInv'
  OBVIOUS
\* How the server pump ends is no concern of the client pump's.
<1>1. ASSUME NEW err, SPumpEnds(err),
             UNCHANGED <<forwarded, pending, taken, cVars, gaveUp>>
      PROVE  AwaitInv'
  BY <1>1 DEF SPumpEnds, AwaitInv, Excused, TypeOK, RunType, cVars
<1>2. CASE SRead
  <2>1. CASE Head(serverOut) \in Oversize
    BY <1>1, <1>2, <2>1 DEF SRead, waitVars, histVars
  <2>2. CASE Head(serverOut) \notin Oversize
    BY <1>2, <2>2, AwaitFrame DEF SRead, awaitVars, waitVars, histVars, runVars
  <2> QED BY <2>1, <2>2
<1>3. CASE SEof \/ SDecideFail \/ SWriteFails
  BY <1>1, <1>3 DEF SEof, SDecideFail, SWriteFails, serverVars, waitVars, histVars
\* The request leaves pending and enters taken in one step.
<1>4. CASE SSettle
  <2>1. smsg \in Requests /\ IDKey(smsg) = smsg
    BY <1>4, SessionAssumption DEF SSettle, IsResponse, IDKey, SessionAssumption
  <2> QED
    BY <1>4, <2>1 DEF SSettle, AwaitInv, Excused, serverVars, cVars, runVars
<1>5. CASE SNotResponse \/ SDecide \/ SSignal
  BY <1>5, AwaitFrame
     DEF SNotResponse, SDecide, SSignal, awaitVars, serverVars, waitVars, runVars, histVars
<1>6. CASE SForward
  BY <1>6, AwaitFrame DEF SForward, awaitVars, serverVars, waitVars, runVars
<1>7. CASE SReply
  BY <1>7, AwaitFrame DEF SReply, WriteToServer, awaitVars, waitVars, runVars, histVars
<1> QED BY <1>2, <1>3, <1>4, <1>5, <1>6, <1>7 DEF ServerPump

LEMMA AwaitNext == TypeOK /\ AwaitInv /\ [Next]_vars => AwaitInv'
<1> SUFFICES ASSUME TypeOK, AwaitInv, [Next]_vars PROVE AwaitInv'
  OBVIOUS
<1>1. CASE UNCHANGED vars
  BY <1>1, AwaitFrame DEF vars, awaitVars, serverVars, waitVars, runVars, histVars
<1>2. CASE Client
  BY <1>2, AwaitFrame DEF Client, ClientSend, ClientClose, ClientRecv, ClientExit,
     awaitVars, serverVars, waitVars, runVars, histVars
<1>3. CASE Server
  BY <1>3, AwaitFrame DEF Server, ServerRecv, ServerAnswer, ServerCall, ServerExit,
     awaitVars, waitVars, runVars, histVars
<1>4. CASE RunSteps \/ ParentCancel \/ Stop \/ DrainFires
  BY <1>4, AwaitFrame DEF RunSteps, RunServerDone, RunReturn, ParentCancel, Stop,
     DrainFires, awaitVars, serverVars, waitVars, histVars
<1> QED
  BY <1>1, <1>2, <1>3, <1>4, AwaitClientPump, AwaitServerPump DEF Next, Finished

LEMMA ClosedNext == ClosedInv /\ [Next]_vars => ClosedInv'
<1> SUFFICES ASSUME ClosedInv, [Next]_vars PROVE ClosedInv'
  OBVIOUS
<1> USE DEF ClosedInv
<1>1. CASE CClose
  BY <1>1 DEF CClose
<1>2. CASE ClientPump \/ CClosed
  <2>1. CASE ~CClose
    <3>1. cpc # "done" /\ serverInOpen' = serverInOpen
      BY <1>2, <2>1
         DEF ClientPump, CRead, CEof, CClosed, CUnparseable, CHandleForward, CHandleReject,
             CHandleDrop, CHandleFail, CForward, CReply, CWriteFails, CAwait, CAwaitWoken,
             CAwaitGivesUp, WriteToServer, serverVars
    <3> QED BY <3>1
  <2> QED BY <1>1, <2>1
<1>3. CASE ~(ClientPump \/ CClosed)
  <2>1. UNCHANGED <<cpc, serverInOpen>>
    BY <1>3
       DEF Next, Client, ClientSend, ClientClose, ClientRecv, ClientExit, Server, ServerRecv,
           ServerAnswer, ServerCall, ServerExit, ServerPump, SRead, SEof, SSettle,
           SNotResponse, SSignal, SDecide, SDecideFail, SForward, SReply, SWriteFails,
           WriteToServer, RunSteps, RunServerDone, RunReturn, ParentCancel, Stop, DrainFires,
           Finished, vars, serverVars, cVars
  <2> QED BY <2>1
<1> QED BY <1>2, <1>3

LEMMA DrainInvariant == Spec => [](TypeOK /\ DrainInv)
<1>1. Init => TypeOK /\ DrainInv
  BY TypeInit, DrainInit
<1>2. TypeOK /\ DrainInv /\ [Next]_vars => (TypeOK /\ DrainInv)'
  BY TypeNext, AwaitNext, ClosedNext DEF DrainInv
<1> QED BY <1>1, <1>2, PTL DEF Spec

\* The server's stdin is never closed while a request written to it is
\* unanswered, unless the wait for replies expired or the client pump failed.
THEOREM DrainCorrect == Spec => []DrainBeforeClose
<1>1. DrainInv => DrainBeforeClose
  BY DEF DrainInv, AwaitInv, ClosedInv, DrainBeforeClose, Excused
<1> QED BY <1>1, DrainInvariant, PTL

-----------------------------------------------------------------------------
(* NoLostWakeup is inductive as it stands: awaitReplies goes to sleep only *)
(* over a pending set that is not empty, only settle empties it, and       *)
(* settle that removes the last request has yet to signal.                 *)

wakeVars == <<cpc, pending, answered, spc>>

LEMMA WakeFrame == NoLostWakeup /\ UNCHANGED wakeVars => NoLostWakeup'
BY DEF NoLostWakeup, wakeVars

LEMMA WakeNext == TypeOK /\ NoLostWakeup /\ [Next]_vars => NoLostWakeup'
<1> SUFFICES ASSUME TypeOK, NoLostWakeup, [Next]_vars PROVE NoLostWakeup'
  OBVIOUS
<1>1. CASE UNCHANGED vars
  BY <1>1, WakeFrame DEF vars, wakeVars, waitVars, cVars, sVars
<1>2. CASE Client \/ Server
  BY <1>2, WakeFrame
     DEF Client, ClientSend, ClientClose, ClientRecv, ClientExit,
         Server, ServerRecv, ServerAnswer, ServerCall, ServerExit,
         wakeVars, waitVars, cVars, sVars
<1>3. CASE RunSteps \/ ParentCancel \/ Stop \/ DrainFires
  BY <1>3, WakeFrame
     DEF RunSteps, RunServerDone, RunReturn, ParentCancel, Stop, DrainFires,
         wakeVars, waitVars, cVars, sVars
\* CAwait is the only step that goes to sleep.
<1>4. CASE ClientPump \/ CClosed
  <2>1. CASE CAwait
    BY <2>1 DEF CAwait, NoLostWakeup, waitVars
  <2>2. CASE ~CAwait
    <3>1. cpc' # "awaitSelect"
      BY <1>4, <2>2
         DEF ClientPump, CRead, CEof, CClosed, CPumpEnds, CUnparseable, CHandleForward,
             CHandleReject, CHandleDrop, CHandleFail, CForward, CReply, CWriteFails,
             CAwaitWoken, CAwaitGivesUp, CClose, cVars
    <3> QED BY <3>1 DEF NoLostWakeup
  <2> QED BY <2>1, <2>2
<1>5. CASE SSettle
  BY <1>5 DEF SSettle, NoLostWakeup, TypeOK, WaitType, cVars
<1>6. CASE SSignal
  BY <1>6 DEF SSignal, NoLostWakeup, cVars
\* The other steps of the server pump happen away from "signal".
<1>7. CASE ServerPump /\ ~SSettle /\ ~SSignal
  <2>1. spc # "signal" /\ UNCHANGED <<waitVars, cVars>>
    BY <1>7
       DEF ServerPump, SRead, SEof, SNotResponse, SDecide, SDecideFail,
           SForward, SReply, SWriteFails
  <2> QED BY <2>1 DEF NoLostWakeup, waitVars, cVars
<1> QED
  BY <1>1, <1>2, <1>3, <1>4, <1>5, <1>6, <1>7 DEF Next, Finished

\* awaitReplies never sleeps through the answer that empties the pending set.
THEOREM WakeupCorrect == Spec => []NoLostWakeup
<1>1. Init => NoLostWakeup
  BY DEF Init, NoLostWakeup
<1> QED BY <1>1, TypeInit, TypeNext, WakeNext, PTL DEF Spec

-----------------------------------------------------------------------------
(* SessionImplementsRelay.  It needs to know where each request, and the    *)
(* answer to it, is.                                                       *)

Elements(q) == {q[i] : i \in DOMAIN q}
Once(q, S)  == \A i, j \in DOMAIN q : q[i] \in S /\ q[i] = q[j] => i = j

LEMMA AppendElements ==
  ASSUME NEW T, NEW q \in Seq(T), NEW S, NEW x \in T, Once(q, S), x \in S => x \notin Elements(q)
  PROVE  /\ Elements(Append(q, x)) = Elements(q) \cup {x}
         /\ Once(Append(q, x), S)
<1> DEFINE a == Append(q, x)
           n == Len(q)
<1>1. /\ n \in Nat /\ DOMAIN q = 1 .. n /\ DOMAIN a = 1 .. n + 1
      /\ a[n + 1] = x /\ \A i \in 1 .. n : a[i] = q[i]
  BY AppendProperties, LenProperties
<1> HIDE DEF a, n
<1>2. \A i \in DOMAIN a : i = n + 1 \/ i \in DOMAIN q
  BY <1>1
<1>3. \A i \in DOMAIN q : i \in DOMAIN a /\ i # n + 1
  BY <1>1
<1>4. n + 1 \in DOMAIN a
  BY <1>1
<1>5. Elements(a) = Elements(q) \cup {x}
  BY <1>1, <1>2, <1>3, <1>4 DEF Elements
<1>6. Once(a, S)
  BY <1>1, <1>2, <1>3 DEF Once, Elements
<1> QED BY <1>5, <1>6 DEF a

LEMMA TailElements ==
  ASSUME NEW T, NEW q \in Seq(T), q # <<>>, NEW S, Once(q, S)
  PROVE  /\ Elements(q) = Elements(Tail(q)) \cup {Head(q)}
         /\ Head(q) \in S => Head(q) \notin Elements(Tail(q))
         /\ Once(Tail(q), S)
<1> DEFINE t == Tail(q)
           h == Head(q)
           n == Len(q)
<1>1. /\ n \in Nat \ {0} /\ DOMAIN q = 1 .. n /\ DOMAIN t = 1 .. n - 1
      /\ q[1] = h /\ \A i \in 1 .. n - 1 : t[i] = q[i + 1]
  BY HeadTailProperties, LenProperties, EmptySeq
<1> HIDE DEF t, h, n
<1>2. \A i \in DOMAIN t : i + 1 \in DOMAIN q /\ i + 1 # 1 /\ t[i] = q[i + 1] /\ i \in Nat
  BY <1>1
<1>3. \A i \in DOMAIN q : i # 1 => i - 1 \in DOMAIN t /\ t[i - 1] = q[i]
  BY <1>1
<1>4. 1 \in DOMAIN q
  BY <1>1
<1>5. Elements(q) = Elements(t) \cup {h}
  <2>1. ASSUME NEW i \in DOMAIN q
        PROVE  q[i] \in Elements(t) \cup {h}
    BY <1>1, <1>3 DEF Elements
  <2>2. ASSUME NEW i \in DOMAIN t
        PROVE  t[i] \in Elements(q)
    BY <1>2 DEF Elements
  <2>3. h \in Elements(q)
    BY <1>1, <1>4 DEF Elements
  <2>4. ASSUME NEW e \in Elements(q) PROVE e \in Elements(t) \cup {h}
    BY <2>1 DEF Elements
  <2>5. ASSUME NEW e \in Elements(t) PROVE e \in Elements(q)
    BY <2>2 DEF Elements
  <2> QED BY <2>3, <2>4, <2>5
<1>6. h \in S => h \notin Elements(t)
  BY <1>1, <1>2, <1>4 DEF Once, Elements
<1>7. Once(t, S)
  <2> SUFFICES ASSUME NEW i \in DOMAIN t, NEW j \in DOMAIN t, t[i] \in S, t[i] = t[j]
               PROVE  i = j
    BY DEF Once
  <2>1. i + 1 = j + 1
    BY <1>2 DEF Once
  <2> QED BY <1>2, <2>1
<1> QED BY <1>5, <1>6, <1>7 DEF t, h

\* What the proxy has not decided yet: each message in one place.
UpInv ==
  /\ Once(clientIn, ClientMsgs)
  /\ unsent \cap Elements(clientIn) = {}
  /\ cmsg \notin unsent \cup Elements(clientIn)
  /\ (unsent \cup Elements(clientIn) \cup {cmsg}) \cap (forwarded \cup refused) = {}

\* What went to the server and has not been settled: each request, or its
\* answer, in one place.
Upstream   == Elements(serverIn) \cap Requests
Downstream == Elements(serverOut) \cap Requests
Unsettled  == IF spc = "handle" THEN {smsg} \cap Requests ELSE {}
DownInv ==
  /\ Once(serverIn, Requests) /\ Once(serverOut, Requests)
  /\ Upstream \cup todo \cup Downstream \cup Unsettled \subseteq forwarded \ taken
  /\ Upstream \cap todo = {} /\ Upstream \cap Downstream = {} /\ todo \cap Downstream = {}
  /\ Unsettled \cap (Upstream \cup todo \cup Downstream) = {}

\* A request is refused, or forwarded, then settled, then answered; one whose
\* settled answer did not reach the client is in the server pump's hands, or
\* that pump has failed.
AnswerInv ==
  /\ \A r \in Requests :
       /\ r \in refused => r \notin forwarded /\ replies[r] = 1
       /\ r \notin refused \cup taken => replies[r] = 0
       /\ r \in taken => r \in forwarded /\ replies[r] \in {0, 1}
       /\ r \in taken /\ replies[r] = 0 => smsg = r \/ errs["server"] = "error"
  /\ spc \in {"signal", "decide", "forward"} /\ smsg \in Requests =>
       smsg \in taken /\ replies[smsg] = 0
  /\ spc # "reply"

\* How a session ends.
EndInv ==
  /\ run # "waitServer" => spc = "done"
  /\ result # "none" <=> run = "returned"
  /\ result = "nil" => errs["server"] # "error"
  /\ errs["client"] # "none" => cpc \in {"await", "awaitSelect", "close", "done"}
  /\ errs["server"] # "none" => spc = "done"

PlacesInv == UpInv /\ DownInv /\ AnswerInv /\ EndInv
LEMMA NoneIsNoMessage ==
  ASSUME TypeOK
  PROVE  /\ "none" \notin ClientMsgs \cup ServerMsgs
         /\ Elements(clientIn) \subseteq ClientMsgs /\ Elements(serverOut) \subseteq ServerMsgs
         /\ Requests \subseteq ClientMsgs /\ Requests \cap Calls = {}
<1>1. \A T : \A q \in Seq(T) : Elements(q) \subseteq T
  BY DEF Elements
<1> QED
  BY <1>1, SessionAssumption
     DEF SessionAssumption, ClientMsgs, ServerMsgs, TypeOK, ClientType, ServerType

upVars == <<unsent, clientIn, cmsg, forwarded, refused>>
LEMMA UpFrame == UpInv /\ UNCHANGED upVars => UpInv'
BY DEF UpInv, upVars, Once, Elements

LEMMA UpNext == TypeOK /\ UpInv /\ [Next]_vars => UpInv'
<1> SUFFICES ASSUME TypeOK, UpInv, [Next]_vars PROVE UpInv'
  OBVIOUS
<1> USE DEF UpInv
<1>1. ASSUME NEW m \in ClientMsgs, ClientSend(m)
      PROVE  UpInv'
  <2>1. /\ clientIn' = Append(clientIn, m) /\ unsent' = unsent \ {m} /\ m \in unsent
        /\ UNCHANGED <<cmsg, forwarded, refused>>
    BY <1>1 DEF ClientSend, cVars, histVars
  <2>2. /\ Elements(clientIn') = Elements(clientIn) \cup {m} /\ Once(clientIn', ClientMsgs)
    BY <2>1, AppendElements DEF TypeOK, ClientType
  <2>3. Once(clientIn, ClientMsgs)' /\ Elements(clientIn)' = Elements(clientIn')
    BY <2>2 DEF Once, Elements
  <2> QED BY <2>1, <2>2, <2>3
<1>2. CASE CRead
  <2>1. /\ clientIn' = Tail(clientIn) /\ clientIn # <<>> /\ cmsg' \in {"none", Head(clientIn)}
        /\ UNCHANGED <<unsent, forwarded, refused>>
    BY <1>2 DEF CRead, CPumpEnds, histVars
  <2>2. /\ Elements(clientIn) = Elements(clientIn') \cup {Head(clientIn)}
        /\ Head(clientIn) \in ClientMsgs => Head(clientIn) \notin Elements(clientIn')
        /\ Once(clientIn', ClientMsgs)
    BY <2>1, TailElements DEF TypeOK, ClientType
  <2>3. Once(clientIn, ClientMsgs)' /\ Elements(clientIn)' = Elements(clientIn')
    BY <2>2 DEF Once, Elements
  <2>4. Head(clientIn) \in ClientMsgs /\ "none" \notin ClientMsgs
    BY <2>2, NoneIsNoMessage
  <2>5. "none" \notin unsent \cup Elements(clientIn) \cup forwarded \cup refused
    BY NoneIsNoMessage DEF TypeOK, ClientType, HistType
  <2> QED BY <2>1, <2>2, <2>3, <2>4, <2>5
<1>3. CASE /\ UNCHANGED <<unsent, clientIn>> /\ cmsg' = "none"
           /\ forwarded' \cup refused' \subseteq forwarded \cup refused \cup {cmsg}
  <2>1. "none" \notin unsent \cup Elements(clientIn) \cup forwarded \cup refused
    BY NoneIsNoMessage DEF TypeOK, ClientType, HistType
  <2>2. /\ Once(clientIn, ClientMsgs)' /\ Elements(clientIn)' = Elements(clientIn)
    BY <1>3 DEF Once, Elements
  <2>3. CASE cmsg # "none"
    BY <1>3, <2>1, <2>2, <2>3
  <2>4. CASE cmsg = "none"
    <3>1. "none" \notin Requests
      BY SessionAssumption DEF SessionAssumption
    <3>2. TypeOK'
      BY TypeNext
    <3>3. forwarded' \cup refused' \subseteq Requests
      BY <3>2 DEF TypeOK, HistType
    <3> QED BY <1>3, <2>1, <2>2, <2>4, <3>1, <3>3
  <2> QED BY <2>3, <2>4
<1>4. CASE CEof \/ CClosed \/ CHandleDrop \/ CHandleFail \/ CForward \/ CReply \/ CWriteFails
  <2>1. CASE CEof \/ CClosed \/ CHandleDrop \/ CHandleFail \/ CWriteFails
    BY <1>3, <2>1 DEF CEof, CClosed, CHandleDrop, CHandleFail, CWriteFails, CPumpEnds,
       clientVars, histVars
  <2>2. CASE CForward \/ CReply
    BY <1>3, <2>2 DEF CForward, CReply, WriteToClient, clientVars
  <2> QED BY <1>4, <2>1, <2>2
<1>5. CASE UNCHANGED vars \/ Server \/ ServerPump
  BY <1>5, UpFrame
     DEF upVars, vars, Server, ServerRecv, ServerAnswer, ServerCall, ServerExit, ServerPump,
         SRead, SEof, SSettle, SNotResponse, SSignal, SDecide, SDecideFail, SForward, SReply,
         SWriteFails, WriteToClient, clientVars, cVars, histVars
<1>6. CASE \/ ClientClose \/ ClientRecv \/ ClientExit \/ RunSteps \/ ParentCancel \/ Stop
           \/ DrainFires
  BY <1>6, UpFrame
     DEF upVars, ClientClose, ClientRecv, ClientExit, RunSteps, RunServerDone, RunReturn,
         ParentCancel, Stop, DrainFires, clientVars, cVars, histVars
<1>7. CASE \/ CUnparseable \/ CHandleForward \/ CHandleReject \/ CAwait \/ CAwaitWoken
           \/ CAwaitGivesUp \/ CClose
  BY <1>7, UpFrame
     DEF upVars, CUnparseable, CHandleForward, CHandleReject, CAwait, CAwaitWoken,
         CAwaitGivesUp, CClose, clientVars, cVars, histVars
<1> QED
  BY <1>1, <1>2, <1>4, <1>5, <1>6, <1>7 DEF Next, Client, ClientPump, Finished

downVars == <<serverIn, serverOut, todo, spc, smsg, forwarded, taken>>
LEMMA DownFrame == DownInv /\ UNCHANGED downVars => DownInv'
BY DEF DownInv, downVars, Once, Elements, Upstream, Downstream, Unsettled

LEMMA DownServer == TypeOK /\ DownInv /\ Server => DownInv'
<1> SUFFICES ASSUME TypeOK, DownInv, Server PROVE DownInv'
  OBVIOUS
<1> USE DEF DownInv
<1>1. UNCHANGED <<spc, smsg, forwarded, taken>>
  BY DEF Server, ServerRecv, ServerAnswer, ServerCall, ServerExit, sVars, histVars
<1>2. Unsettled' = Unsettled
  BY <1>1 DEF Unsettled
<1>3. CASE ServerRecv
  <2> DEFINE h == Head(serverIn)
  <2>1. /\ serverIn # <<>> /\ serverIn' = Tail(serverIn) /\ serverOut' = serverOut
        /\ todo' = todo \cup ({h} \cap Requests)
    BY <1>3 DEF ServerRecv
  <2>2. /\ Elements(serverIn) = Elements(serverIn') \cup {h}
        /\ h \in Requests => h \notin Elements(serverIn')
        /\ Once(serverIn', Requests)
    BY <2>1, TailElements DEF TypeOK, ServerType
  <2>3. /\ Once(serverIn, Requests)' /\ Upstream' = Elements(serverIn') \cap Requests
        /\ Once(serverOut, Requests)' /\ Downstream' = Downstream
    BY <2>1, <2>2 DEF Once, Elements, Upstream, Downstream
  <2> HIDE DEF h
  <2> QED BY <1>1, <1>2, <2>1, <2>2, <2>3 DEF Upstream
<1>4. ASSUME NEW x \in ServerMsgs, serverOut' = Append(serverOut, x), UNCHANGED serverIn,
             \/ x \in todo /\ todo' = todo \ {x}
             \/ x \notin Requests /\ todo' = todo
      PROVE  DownInv'
  <2>1. todo \subseteq Requests
    BY DEF TypeOK, ServerType
  <2>2. x \in Requests => x \notin Elements(serverOut)
    BY <1>4, <2>1 DEF Downstream
  <2>3. /\ Elements(serverOut') = Elements(serverOut) \cup {x} /\ Once(serverOut', Requests)
    BY <1>4, <2>2, AppendElements DEF TypeOK, ServerType
  <2>4. /\ Once(serverOut, Requests)' /\ Downstream' = Elements(serverOut') \cap Requests
        /\ Once(serverIn, Requests)' /\ Upstream' = Upstream
    BY <1>4, <2>3 DEF Once, Elements, Upstream, Downstream
  <2> QED BY <1>1, <1>2, <1>4, <2>1, <2>3, <2>4 DEF Downstream
<1>5. CASE \E r \in Requests : ServerAnswer(r)
  BY <1>4, <1>5 DEF ServerAnswer, ServerMsgs
<1>6. CASE \E c \in Calls : ServerCall(c)
  BY <1>4, <1>6, NoneIsNoMessage DEF ServerCall, ServerMsgs
<1>7. CASE ServerExit
  BY <1>7, <1>1, DownFrame DEF ServerExit, downVars
<1> QED BY <1>3, <1>5, <1>6, <1>7 DEF Server

LEMMA DownForward == TypeOK /\ UpInv /\ DownInv /\ AnswerInv /\ CForward => DownInv'
<1> SUFFICES ASSUME TypeOK, UpInv, DownInv, AnswerInv, CForward PROVE DownInv'
  OBVIOUS
<1> USE DEF DownInv
<1>1. /\ serverIn' = Append(serverIn, cmsg) /\ UNCHANGED <<serverOut, todo, spc, smsg, taken>>
      /\ forwarded' = forwarded \cup ({cmsg} \cap Requests) /\ cmsg \in ClientMsgs
  BY DEF CForward, WriteToServer, TypeOK, CType, sVars
<1>2. cmsg \in Requests => cmsg \notin forwarded \cup taken
  BY DEF UpInv, AnswerInv
<1>3. cmsg \in Requests => cmsg \notin Elements(serverIn)
  BY <1>2 DEF Upstream
<1>4. /\ Elements(serverIn') = Elements(serverIn) \cup {cmsg} /\ Once(serverIn', Requests)
  <2> DEFINE T == ClientMsgs \cup {"none"}
  <2>1. serverIn \in Seq(T) /\ cmsg \in T
    BY <1>1 DEF TypeOK, ServerType
  <2> HIDE DEF T
  <2> QED BY <1>1, <1>3, <2>1, AppendElements
<1>5. /\ Once(serverIn, Requests)' /\ Upstream' = Elements(serverIn') \cap Requests
      /\ Once(serverOut, Requests)' /\ Downstream' = Downstream /\ Unsettled' = Unsettled
  BY <1>1, <1>4 DEF Once, Elements, Upstream, Downstream, Unsettled
<1> QED BY <1>1, <1>2, <1>4, <1>5 DEF Upstream

LEMMA DownServerPump == TypeOK /\ DownInv /\ ServerPump => DownInv'
<1> SUFFICES ASSUME TypeOK, DownInv, ServerPump PROVE DownInv'
  OBVIOUS
<1> USE DEF DownInv
<1>1. CASE SRead
  <2> DEFINE h == Head(serverOut)
  <2>1. /\ serverOut # <<>> /\ serverOut' = Tail(serverOut) /\ spc = "read"
        /\ spc' = "done" \/ (spc' = "handle" /\ smsg' = h)
        /\ UNCHANGED <<serverIn, todo, forwarded, taken>>
    BY <1>1 DEF SRead, SPumpEnds, histVars
  <2>2. /\ Elements(serverOut) = Elements(serverOut') \cup {h}
        /\ h \in Requests => h \notin Elements(serverOut')
        /\ Once(serverOut', Requests)
    BY <2>1, TailElements DEF TypeOK, ServerType
  <2>3. /\ Once(serverOut, Requests)' /\ Downstream' = Elements(serverOut') \cap Requests
        /\ Once(serverIn, Requests)' /\ Upstream' = Upstream
    BY <2>1, <2>2 DEF Once, Elements, Upstream, Downstream
  <2>4. Unsettled = {} /\ Unsettled' \subseteq {h} \cap Requests
    BY <2>1 DEF Unsettled
  <2> HIDE DEF h
  <2> QED BY <2>1, <2>2, <2>3, <2>4 DEF Downstream
<1>2. CASE SReply
  <2>1. /\ serverIn' = Append(serverIn, "none") /\ spc' = "read" /\ spc = "reply"
        /\ UNCHANGED <<serverOut, todo, forwarded, taken>>
    BY <1>2 DEF SReply, WriteToServer, histVars
  <2>2. "none" \notin Requests
    BY NoneIsNoMessage
  <2>3. Elements(serverIn') = Elements(serverIn) \cup {"none"} /\ Once(serverIn', Requests)
    <3> DEFINE T == ClientMsgs \cup {"none"}
    <3>1. serverIn \in Seq(T) /\ "none" \in T
      BY DEF TypeOK, ServerType
    <3> HIDE DEF T
    <3> QED BY <2>1, <2>2, <3>1, AppendElements
  <2>4. /\ Once(serverIn, Requests)' /\ Upstream' = Elements(serverIn') \cap Requests
        /\ Once(serverOut, Requests)' /\ Downstream' = Downstream
        /\ Unsettled = {} /\ Unsettled' = {}
    BY <2>1, <2>3 DEF Once, Elements, Upstream, Downstream, Unsettled
  <2> QED BY <2>1, <2>2, <2>3, <2>4 DEF Upstream
<1>3. CASE ~SRead /\ ~SReply
  <2>1. UNCHANGED <<serverIn, serverOut, todo, forwarded>>
    BY <1>3
       DEF ServerPump, SEof, SSettle, SNotResponse, SSignal, SDecide, SDecideFail, SForward,
           SWriteFails, serverVars, histVars
  <2>2. Unsettled' = {} /\ (taken' = taken \/ taken' = taken \cup Unsettled)
    BY <1>3
       DEF ServerPump, SEof, SSettle, SNotResponse, SSignal, SDecide, SDecideFail, SForward,
           SWriteFails, SPumpEnds, Unsettled, histVars
  <2>3. /\ Once(serverIn, Requests)' /\ Upstream' = Upstream
        /\ Once(serverOut, Requests)' /\ Downstream' = Downstream
    BY <2>1 DEF Once, Elements, Upstream, Downstream
  <2> QED BY <2>1, <2>2, <2>3
<1> QED BY <1>1, <1>2, <1>3

LEMMA DownNext == TypeOK /\ UpInv /\ DownInv /\ AnswerInv /\ [Next]_vars => DownInv'
<1> SUFFICES ASSUME TypeOK, UpInv, DownInv, AnswerInv, [Next]_vars PROVE DownInv'
  OBVIOUS
<1>1. CASE UNCHANGED vars \/ Client \/ RunSteps \/ ParentCancel \/ Stop \/ DrainFires
  BY <1>1, DownFrame
     DEF downVars, vars, Client, ClientSend, ClientClose, ClientRecv, ClientExit, RunSteps,
         RunServerDone, RunReturn, ParentCancel, Stop, DrainFires, serverVars, sVars, histVars
<1>2. CASE (ClientPump \/ CClosed) /\ ~CForward
  BY <1>2, DownFrame
     DEF downVars, ClientPump, CRead, CEof, CClosed, CUnparseable, CHandleForward, CHandleReject,
         CHandleDrop, CHandleFail, CReply, CWriteFails, CAwait, CAwaitWoken, CAwaitGivesUp,
         CClose, serverVars, sVars, histVars
<1> QED
  BY <1>1, <1>2, DownServer, DownForward, DownServerPump DEF Next, Finished, ClientPump

\* The interceptor the gateway installs forwards every message of the server's.
Transparent == ServerVerdicts \subseteq {"forward", "error"}

answerVars == <<forwarded, taken, refused, replies, errs, spc, smsg>>
LEMMA AnswerFrame == AnswerInv /\ UNCHANGED answerVars => AnswerInv'
BY DEF AnswerInv, answerVars

LEMMA AnswerClientPump ==
  TypeOK /\ UpInv /\ AnswerInv /\ (ClientPump \/ CClosed) => AnswerInv'
<1> SUFFICES ASSUME TypeOK, UpInv, AnswerInv, ClientPump \/ CClosed PROVE AnswerInv'
  OBVIOUS
<1>1. cmsg \in Requests => cmsg \notin forwarded \cup refused \cup taken
  BY DEF UpInv, AnswerInv
<1>2. CASE CForward
  <2>1. /\ forwarded' = forwarded \cup ({cmsg} \cap Requests)
        /\ UNCHANGED <<taken, refused, replies, errs, spc, smsg>>
    BY <1>2 DEF CForward, sVars, runVars
  <2> QED BY <1>1, <2>1 DEF AnswerInv
<1>3. CASE CReply
  <2>1. /\ refused' = refused \cup ({cmsg} \cap Requests)
        /\ UNCHANGED <<forwarded, taken, errs, spc, smsg>>
    BY <1>3 DEF CReply, sVars, runVars
  <2>2. \A r \in Requests :
          /\ r # cmsg => replies'[r] = replies[r]
          /\ r = cmsg => replies[r] = 0 /\ replies'[r] = 1
    BY <1>1, <1>3 DEF CReply, AnswerInv, TypeOK, HistType
  <2> QED BY <1>1, <2>1, <2>2 DEF AnswerInv
<1>4. CASE ~CForward /\ ~CReply
  <2>1. UNCHANGED <<forwarded, taken, refused, replies, spc, smsg>>
    BY <1>4
       DEF ClientPump, CRead, CEof, CClosed, CUnparseable, CHandleForward, CHandleReject,
           CHandleDrop, CHandleFail, CWriteFails, CAwait, CAwaitWoken, CAwaitGivesUp, CClose,
           sVars, histVars
  <2>2. errs'["server"] = errs["server"]
    BY <1>4
       DEF ClientPump, CRead, CEof, CClosed, CUnparseable, CHandleForward, CHandleReject,
           CHandleDrop, CHandleFail, CWriteFails, CAwait, CAwaitWoken, CAwaitGivesUp, CClose,
           CPumpEnds, runVars, TypeOK, RunType
  <2> QED BY <2>1, <2>2 DEF AnswerInv
<1> QED BY <1>2, <1>3, <1>4

LEMMA AnswerServerPump ==
  ASSUME Transparent
  PROVE  TypeOK /\ DownInv /\ AnswerInv /\ EndInv /\ ServerPump => AnswerInv'
<1> SUFFICES ASSUME TypeOK, DownInv, AnswerInv, EndInv, ServerPump PROVE AnswerInv'
  OBVIOUS
<1>1. /\ spc # "done" => errs["server"] \notin {"nil", "error"}
      /\ smsg = "none" => smsg \notin Requests
      /\ spc = "read" => smsg = "none"
  BY NoneIsNoMessage DEF EndInv, TypeOK, SType
\* A pump that ends well has nothing in hand.
<1>2. ASSUME NEW err \in {"nil", "error"}, SPumpEnds(err), spc # "done",
             UNCHANGED <<forwarded, taken, refused, replies>>, err = "nil" => spc = "read"
      PROVE  AnswerInv'
  <2>1. /\ errs'["server"] = err /\ spc' = "done"
    BY <1>2 DEF SPumpEnds, TypeOK, RunType
  <2>2. err = "nil" => \A r \in Requests : r \in taken => replies[r] # 0
    BY <1>1, <1>2 DEF AnswerInv
  <2> QED BY <1>2, <2>1, <2>2 DEF AnswerInv
<1>3. CASE SRead
  <2>1. CASE Head(serverOut) \in Oversize
    BY <1>2, <1>3, <2>1 DEF SRead, histVars
  <2>2. CASE Head(serverOut) \notin Oversize
    <3>1. spc = "read" /\ spc' = "handle" /\ UNCHANGED <<forwarded, taken, refused, replies, errs>>
      BY <1>3, <2>2 DEF SRead, runVars, histVars
    <3> QED BY <1>1, <3>1 DEF AnswerInv
  <2> QED BY <2>1, <2>2
<1>4. CASE SEof \/ SDecideFail \/ SWriteFails
  BY <1>2, <1>4 DEF SEof, SDecideFail, SWriteFails, histVars
<1>5. CASE SSettle
  <2>1. /\ smsg \in Requests /\ taken' = taken \cup {smsg} /\ spc' \in {"signal", "decide"}
        /\ UNCHANGED <<forwarded, refused, replies, errs, smsg>>
    BY <1>5 DEF SSettle, IsResponse, runVars
  <2>2. smsg \in forwarded \ taken
    BY <1>5, <2>1 DEF SSettle, DownInv, Unsettled
  <2>3. replies[smsg] = 0
    BY <2>1, <2>2 DEF AnswerInv
  <2> QED BY <2>1, <2>2, <2>3 DEF AnswerInv
<1>6. CASE SNotResponse
  <2>1. /\ smsg \notin Requests /\ spc' = "decide"
        /\ UNCHANGED <<forwarded, taken, refused, replies, errs, smsg>>
    BY <1>6 DEF SNotResponse, IsResponse, runVars, histVars
  <2> QED BY <2>1 DEF AnswerInv
<1>7. CASE SSignal \/ SDecide
  <2>1. /\ spc \in {"signal", "decide"} /\ spc' \in {"decide", "forward"}
        /\ UNCHANGED <<forwarded, taken, refused, replies, errs, smsg>>
    BY <1>7 DEF SSignal, SDecide, Transparent, runVars, histVars
  <2> QED BY <2>1 DEF AnswerInv
<1>8. CASE SForward
  <2>1. /\ spc = "forward" /\ spc' = "read" /\ smsg' = "none"
        /\ UNCHANGED <<forwarded, taken, refused, errs>>
    BY <1>8 DEF SForward, runVars
  <2>2. \A r \in Requests :
          /\ r # smsg => replies'[r] = replies[r]
          /\ r = smsg => r \in taken /\ r \notin refused /\ replies'[r] = 1
    <3>1. smsg \in Requests => smsg \in taken /\ smsg \notin refused /\ replies[smsg] = 0
      BY <2>1 DEF AnswerInv
    <3> QED BY <1>8, <3>1 DEF SForward, TypeOK, HistType
  <2> QED BY <2>1, <2>2 DEF AnswerInv
<1>9. CASE SReply
  BY <1>9 DEF SReply, AnswerInv
<1> QED BY <1>3, <1>4, <1>5, <1>6, <1>7, <1>8, <1>9 DEF ServerPump

LEMMA EndNext == TypeOK /\ EndInv /\ [Next]_vars => EndInv'
<1> SUFFICES ASSUME TypeOK, EndInv, [Next]_vars PROVE EndInv'
  OBVIOUS
<1> USE DEF EndInv
<1>1. CASE ClientPump \/ CClosed
  <2>1. /\ UNCHANGED <<run, result, spc>> /\ errs'["server"] = errs["server"]
        /\ \/ errs' = errs /\ cpc' = cpc
           \/ cpc' \in {"await", "awaitSelect", "close", "done"}
           \/ errs' = errs /\ cpc \notin {"await", "awaitSelect", "close", "done"}
    BY <1>1
       DEF ClientPump, CRead, CEof, CClosed, CUnparseable, CHandleForward, CHandleReject,
           CHandleDrop, CHandleFail, CForward, CReply, CWriteFails, CAwait, CAwaitWoken,
           CAwaitGivesUp, CClose, CPumpEnds, sVars, runVars, TypeOK, RunType
  <2> QED BY <2>1
<1>2. CASE ServerPump
  <2>1. /\ UNCHANGED <<run, result, cpc>> /\ spc # "done" /\ errs'["client"] = errs["client"]
        /\ spc' = "done" \/ errs' = errs
    BY <1>2
       DEF ServerPump, SRead, SEof, SSettle, SNotResponse, SSignal, SDecide, SDecideFail,
           SForward, SReply, SWriteFails, SPumpEnds, cVars, runVars, TypeOK, RunType
  <2> QED BY <2>1 DEF TypeOK, RunType
<1>3. CASE RunSteps
  BY <1>3 DEF RunSteps, RunServerDone, RunReturn, cVars, sVars, TypeOK, RunType
<1>4. CASE UNCHANGED vars \/ Client \/ Server \/ ParentCancel \/ Stop \/ DrainFires
  <2>1. UNCHANGED <<run, result, errs, spc, cpc>>
    BY <1>4
       DEF vars, Client, ClientSend, ClientClose, ClientRecv, ClientExit, Server, ServerRecv,
           ServerAnswer, ServerCall, ServerExit, ParentCancel, Stop, DrainFires, cVars, sVars,
           runVars
  <2> QED BY <2>1
<1> QED BY <1>1, <1>2, <1>3, <1>4 DEF Next, Finished

LEMMA PlacesNext ==
  ASSUME Transparent
  PROVE  TypeOK /\ PlacesInv /\ [Next]_vars => PlacesInv'
<1> SUFFICES ASSUME TypeOK, PlacesInv, [Next]_vars PROVE PlacesInv'
  OBVIOUS
<1>1. AnswerInv'
  <2>1. CASE \/ UNCHANGED vars \/ Client \/ Server \/ RunSteps \/ ParentCancel \/ Stop
             \/ DrainFires
    BY <2>1, AnswerFrame
       DEF answerVars, vars, Client, ClientSend, ClientClose, ClientRecv, ClientExit, Server,
           ServerRecv, ServerAnswer, ServerCall, ServerExit, RunSteps, RunServerDone, RunReturn,
           ParentCancel, Stop, DrainFires, sVars, runVars, histVars, PlacesInv
  <2> QED BY <2>1, AnswerClientPump, AnswerServerPump DEF PlacesInv, Next, Finished
<1> QED BY <1>1, UpNext, DownNext, EndNext DEF PlacesInv

LEMMA PlacesInit == Init => PlacesInv
<1> SUFFICES ASSUME Init PROVE PlacesInv
  OBVIOUS
<1>1. Elements(<<>>) = {} /\ \A S : Once(<<>>, S)
  BY DEF Elements, Once
<1>2. UpInv
  BY <1>1, SessionAssumption DEF Init, UpInv, SessionAssumption, ClientMsgs
<1>3. DownInv
  BY <1>1 DEF Init, DownInv, Upstream, Downstream, Unsettled
<1>4. AnswerInv /\ EndInv
  BY DEF Init, AnswerInv, EndInv
<1> QED BY <1>2, <1>3, <1>4 DEF PlacesInv

-----------------------------------------------------------------------------
(* The refinement.                                                         *)

\* No request is astray.
LEMMA PhaseIs ==
  ASSUME AnswerInv, NEW r \in Requests
  PROVE  Phase(r) = IF r \in refused THEN "refused"
                    ELSE IF r \in taken THEN IF replies[r] = 1 THEN "answered" ELSE "settled"
                    ELSE IF r \in forwarded THEN "upstream" ELSE "unseen"
BY DEF AnswerInv, Phase

LEMMA PhaseIsNext ==
  ASSUME AnswerInv', NEW r \in Requests
  PROVE  Phase(r)' = IF r \in refused' THEN "refused"
                     ELSE IF r \in taken' THEN IF replies'[r] = 1 THEN "answered" ELSE "settled"
                     ELSE IF r \in forwarded' THEN "upstream" ELSE "unseen"
BY DEF AnswerInv, Phase

\* A step that moves one request.
LEMMA MoveIs ==
  ASSUME NEW r \in Requests, NEW from, NEW to, Phase(r) = from, Phase(r)' = to,
         \A q \in Requests : q # r => Phase(q)' = Phase(q),
         UNCHANGED <<serverInOpen, gaveUp, errs, result>>
  PROVE  Promise!Move(r, from, to)
BY DEF Promise!Move

phaseVars == <<forwarded, taken, refused, replies>>
LEMMA PhaseFrame == UNCHANGED phaseVars => \A r \in Requests : Phase(r)' = Phase(r)
BY DEF Phase, phaseVars

LEMMA RelayStep ==
  ASSUME Transparent, TypeOK, DrainInv, PlacesInv, PlacesInv', [Next]_vars
  PROVE  [Promise!Next]_(Promise!vars)
<1> USE DEF PlacesInv
<1>1. cmsg \in Requests => cmsg \notin forwarded \cup refused \cup taken
  BY DEF UpInv, AnswerInv
<1>2. cpc # "done" => serverInOpen
  BY DEF DrainInv, ClosedInv
<1>3. ASSUME UNCHANGED phaseVars, UNCHANGED <<serverInOpen, gaveUp, errs, result>>
      PROVE  UNCHANGED Promise!vars
  BY <1>3, PhaseFrame DEF Promise!vars
\* Writes.
<1>4. CASE CForward
  <2>1. /\ forwarded' = forwarded \cup ({cmsg} \cap Requests) /\ serverInOpen
        /\ UNCHANGED <<taken, refused, replies, serverInOpen, gaveUp, errs, result>>
    BY <1>4 DEF CForward, ServerTakes, ServerInBroken, WriteToServer, runVars
  <2>2. CASE cmsg \notin Requests
    BY <1>3, <2>1, <2>2 DEF phaseVars
  <2>3. CASE cmsg \in Requests
    <3> PICK r \in Requests : r = cmsg
      BY <2>3
    <3>1. Phase(r) = "unseen" /\ Phase(r)' = "upstream"
      BY <1>1, <2>1, PhaseIs, PhaseIsNext
    <3>2. \A q \in Requests : q # r => Phase(q)' = Phase(q)
      BY <2>1, PhaseIs, PhaseIsNext
    <3>3. Promise!Move(r, "unseen", "upstream")
      BY <2>1, <3>1, <3>2, MoveIs
    <3> QED BY <2>1, <3>3 DEF Promise!Next, Promise!Forward
  <2> QED BY <2>2, <2>3
<1>5. CASE CReply
  <2>1. /\ refused' = refused \cup ({cmsg} \cap Requests)
        /\ UNCHANGED <<forwarded, taken, serverInOpen, gaveUp, errs, result>>
        /\ cpc # "done"
    BY <1>5 DEF CReply, runVars, serverVars
  <2>2. CASE cmsg \notin Requests
    BY <1>3, <1>5, <2>1, <2>2 DEF phaseVars, CReply
  <2>3. CASE cmsg \in Requests
    <3> PICK r \in Requests : r = cmsg
      BY <2>3
    <3>1. Phase(r) = "unseen" /\ Phase(r)' = "refused"
      BY <1>1, <2>1, PhaseIs, PhaseIsNext
    <3>2. \A q \in Requests : q # r => replies'[q] = replies[q]
      BY <1>5 DEF CReply, TypeOK, HistType
    <3>3. \A q \in Requests : q # r => Phase(q)' = Phase(q)
      BY <2>1, <3>2, PhaseIs, PhaseIsNext
    <3>4. Promise!Move(r, "unseen", "refused")
      BY <2>1, <3>1, <3>3, MoveIs
    <3> QED BY <1>2, <2>1, <3>4 DEF Promise!Next, Promise!Refuse
  <2> QED BY <2>2, <2>3
<1>6. CASE SSettle
  <2>1. /\ smsg \in Requests /\ taken' = taken \cup {smsg}
        /\ UNCHANGED <<forwarded, refused, replies, serverInOpen, gaveUp, errs, result>>
    BY <1>6 DEF SSettle, IsResponse, runVars, serverVars
  <2>2. smsg \in forwarded \ taken /\ smsg \notin refused /\ replies[smsg] = 0
    BY <1>6, <2>1 DEF SSettle, DownInv, Unsettled, AnswerInv
  <2> PICK r \in Requests : r = smsg
    BY <2>1
  <2>3. Phase(r) = "upstream" /\ Phase(r)' = "settled"
    BY <2>1, <2>2, PhaseIs, PhaseIsNext
  <2>4. \A q \in Requests : q # r => Phase(q)' = Phase(q)
    BY <2>1, PhaseIs, PhaseIsNext
  <2>5. Promise!Move(r, "upstream", "settled")
    BY <2>1, <2>3, <2>4, MoveIs
  <2> QED BY <2>5 DEF Promise!Next, Promise!Settle
<1>7. CASE SForward
  <2>1. /\ UNCHANGED <<forwarded, taken, refused, serverInOpen, gaveUp, errs, result>>
        /\ spc = "forward"
    BY <1>7 DEF SForward, runVars, serverVars
  <2>2. CASE smsg \notin Requests
    BY <1>3, <1>7, <2>1, <2>2 DEF phaseVars, SForward
  <2>3. CASE smsg \in Requests
    <3>1. smsg \in taken /\ smsg \notin refused /\ replies[smsg] = 0
      BY <2>1, <2>3 DEF AnswerInv
    <3>2. \A q \in Requests : replies'[q] = IF q = smsg THEN 1 ELSE replies[q]
      BY <1>7, <2>3, <3>1 DEF SForward, TypeOK, HistType
    <3> PICK r \in Requests : r = smsg
      BY <2>3
    <3>3. Phase(r) = "settled" /\ Phase(r)' = "answered"
      BY <2>1, <3>1, <3>2, PhaseIs, PhaseIsNext
    <3>4. \A q \in Requests : q # r => Phase(q)' = Phase(q)
      BY <2>1, <3>2, PhaseIs, PhaseIsNext
    <3>5. result = "none"
      BY <2>1 DEF EndInv, TypeOK, RunType
    <3>6. Promise!Move(r, "settled", "answered")
      BY <2>1, <3>3, <3>4, MoveIs
    <3> QED BY <3>5, <3>6 DEF Promise!Next, Promise!Deliver
  <2> QED BY <2>2, <2>3
\* The end of the input.
<1>8. CASE CClose
  <2>1. /\ cpc = "close" /\ serverInOpen' = FALSE
        /\ UNCHANGED <<forwarded, taken, refused, replies, gaveUp, errs, result>>
    BY <1>8 DEF CClose, histVars
  <2>2. \A r \in Requests : Phase(r)' = Phase(r)
    BY <2>1, PhaseFrame DEF phaseVars
  <2>3. Excused \/ \A r \in Requests : Phase(r) # "upstream"
    BY <2>1, PhaseIs DEF DrainInv, AwaitInv
  <2> QED BY <2>1, <2>2, <2>3 DEF Promise!Next, Promise!EndInput, Excused
\* The client pump fails or stops waiting.
<1>9. CASE (ClientPump \/ CClosed) /\ ~CForward /\ ~CReply /\ ~CClose
  <2>1. /\ UNCHANGED phaseVars /\ UNCHANGED <<serverInOpen, result>> /\ cpc # "done"
    BY <1>9
       DEF ClientPump, CRead, CEof, CClosed, CUnparseable, CHandleForward, CHandleReject,
           CHandleDrop, CHandleFail, CWriteFails, CAwait, CAwaitWoken, CAwaitGivesUp, CPumpEnds,
           phaseVars, serverVars, runVars, histVars
  <2>2. Excused => Excused'
    <3>1. /\ gaveUp => gaveUp'
          /\ errs' = errs \/ cpc \in {"read", "handle", "forward", "reply"}
      BY <1>9
         DEF ClientPump, CRead, CEof, CClosed, CUnparseable, CHandleForward, CHandleReject,
             CHandleDrop, CHandleFail, CWriteFails, CAwait, CAwaitWoken, CAwaitGivesUp, CPumpEnds,
             runVars, histVars
    <3> QED BY <3>1 DEF Excused, EndInv
  <2>3. \A r \in Requests : Phase(r)' = Phase(r)
    BY <2>1, PhaseFrame
  <2>4. CASE Excused' = Excused
    BY <2>1, <2>3, <2>4 DEF Promise!vars, Excused
  <2>5. CASE Excused' = TRUE
    BY <1>2, <2>1, <2>3, <2>5 DEF Promise!Next, Promise!Excuse, Excused
  <2> QED BY <2>2, <2>4, <2>5 DEF Excused
\* Run returns.
<1>10. CASE RunReturn
  <2>1. /\ run = "waitClient" /\ UNCHANGED phaseVars /\ UNCHANGED <<serverInOpen, gaveUp, errs>>
        /\ result = "none" /\ result' \in {"error", "nil"}
        /\ result' = "nil" => errs["server"] # "error"
    BY <1>10 DEF RunReturn, phaseVars, serverVars, histVars, EndInv
  <2>2. \A r \in Requests : Phase(r)' = Phase(r)
    BY <2>1, PhaseFrame
  <2>3. CASE result' = "error"
    BY <2>1, <2>2, <2>3 DEF Promise!Next, Promise!Fail
  <2>4. CASE result' = "nil"
    <3>1. spc = "done" /\ smsg \notin Requests
      BY <2>1, NoneIsNoMessage DEF EndInv, TypeOK, SType
    <3>2. \A r \in Requests : Phase(r) # "settled"
      BY <2>1, <2>4, <3>1, PhaseIs DEF AnswerInv
    <3> QED BY <2>1, <2>2, <2>4, <3>2 DEF Promise!Next, Promise!End
  <2> QED BY <2>1, <2>3, <2>4
<1>11. CASE ServerPump /\ ~SSettle /\ ~SForward
  <2>1. /\ UNCHANGED phaseVars /\ UNCHANGED <<serverInOpen, gaveUp, result>>
        /\ errs'["client"] = errs["client"]
    BY <1>11
       DEF ServerPump, SRead, SEof, SNotResponse, SSignal, SDecide, SDecideFail, SReply,
           SWriteFails, SPumpEnds, WriteToServer, phaseVars, serverVars, runVars, histVars,
           TypeOK, RunType
  <2> QED BY <2>1, PhaseFrame DEF Promise!vars
<1>12. CASE UNCHANGED vars \/ Client \/ Server \/ RunServerDone \/ ParentCancel \/ Stop \/ DrainFires
  BY <1>3, <1>12
     DEF vars, Client, ClientSend, ClientClose, ClientRecv, ClientExit, Server, ServerRecv,
         ServerAnswer, ServerCall, ServerExit, RunServerDone, ParentCancel, Stop, DrainFires,
         phaseVars, serverVars, runVars, histVars
<1> QED
  BY <1>4, <1>5, <1>6, <1>7, <1>8, <1>9, <1>10, <1>11, <1>12 DEF Next, RunSteps, Finished

LEMMA RelayInit == Init => Promise!Init
BY DEF Init, Promise!Init, Phase

\* With an interceptor that forwards what the server sends, as the gateway does,
\* or fails, a session implements Relay: for any messages, capacities and
\* verdicts on the client's messages, each request is refused or relayed, is
\* answered once, and is drained before the server's input ends.
THEOREM SessionImplementsRelay == Transparent => (Spec => ImplementsRelay)
<1> SUFFICES ASSUME Transparent PROVE Spec => ImplementsRelay
  OBVIOUS
<1>1. TypeOK /\ PlacesInv /\ [Next]_vars => PlacesInv'
  BY PlacesNext
<1>2. Spec => []PlacesInv
  BY <1>1, PlacesInit, DrainInvariant, PTL DEF Spec
<1>3. TypeOK /\ DrainInv /\ PlacesInv /\ PlacesInv' /\ [Next]_vars => [Promise!Next]_(Promise!vars)
  BY RelayStep
<1> QED
  BY <1>2, <1>3, RelayInit, DrainInvariant, PTL DEF Spec, ImplementsRelay, Promise!Spec
=============================================================================
