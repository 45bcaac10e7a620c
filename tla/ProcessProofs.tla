---------------------------- MODULE ProcessProofs ----------------------------
(***************************************************************************)
(* The exit status of the process, for any messages, capacities and        *)
(* verdicts: what is known of a session (ProxySessionProofs) holds inside  *)
(* main.run too, which may close the server's input before the client pump *)
(* does.                                                                   *)
(***************************************************************************)
EXTENDS Process, ProxySessionProofs

\* A success is that of a session that has returned without an error.
MainInv ==
  /\ main \in {"waiting", "exited"} => run = "returned"
  /\ status = "success" => main = "exited" /\ result # "error"

SessionInv == TypeOK /\ AwaitInv /\ PlacesInv
ProcessInv == SessionInv /\ MainInv

\* Every step of the process is a step of the session or of main's alone, which
\* at most closes the server's input.
MainAlone ==
  /\ serverInOpen' \in {serverInOpen, FALSE}
  /\ UNCHANGED <<serverIn, serverOut, serverAlive, todo, uncalled>>
  /\ UNCHANGED <<clientVars, waitVars, cVars, sVars, runVars, histVars>>

LEMMA ProcStep == [ProcNext]_allVars => [Next]_vars \/ MainAlone
<1> SUFFICES ASSUME [ProcNext]_allVars PROVE [Next]_vars \/ MainAlone
  OBVIOUS
<1>1. CASE UNCHANGED allVars \/ Ended \/ MainExits
  BY <1>1 DEF allVars, Ended, MainExits
<1>2. CASE CPump \/ SPump
  BY <1>2 DEF CPump, SPump, Next
<1>3. CASE OtherSteps
  BY <1>3 DEF OtherSteps, Next, Client, Server
<1>4. CASE Signal \/ KillServer \/ ServerEnds
  BY <1>4 DEF Signal, KillServer, ServerEnds, Next, Server
<1>5. CASE DieOfSigpipe \/ MainClosesStdin
  BY <1>5 DEF DieOfSigpipe, MainClosesStdin, MainAlone
<1> QED BY <1>1, <1>2, <1>3, <1>4, <1>5 DEF ProcNext, MainSteps

LEMMA MainAloneKeeps == SessionInv /\ MainAlone => SessionInv'
<1> SUFFICES ASSUME SessionInv, MainAlone PROVE SessionInv'
  OBVIOUS
<1> USE DEF SessionInv
<1>1. ServerType'
  BY DEF MainAlone, TypeOK, ServerType
<1>2. TypeOK'
  BY <1>1, FrameClient, FrameWait, FrameC, FrameS, FrameRun, FrameHist DEF MainAlone, TypeOK
<1>3. AwaitInv'
  BY AwaitFrame DEF MainAlone, awaitVars, waitVars, runVars, histVars
<1>4. UpInv' /\ DownInv' /\ AnswerInv'
  BY UpFrame, DownFrame, AnswerFrame
     DEF MainAlone, PlacesInv, upVars, downVars, answerVars, clientVars, cVars, sVars, runVars,
         histVars
<1>5. EndInv'
  BY DEF MainAlone, PlacesInv, EndInv, cVars, sVars, runVars
<1> QED BY <1>2, <1>3, <1>4, <1>5 DEF PlacesInv

LEMMA SessionKeeps ==
  ASSUME Transparent
  PROVE  SessionInv /\ [ProcNext]_allVars => SessionInv'
BY ProcStep, MainAloneKeeps, TypeNext, AwaitNext, PlacesNext DEF SessionInv

LEMMA MainKeeps == SessionInv /\ MainInv /\ [ProcNext]_allVars => MainInv'
<1> SUFFICES ASSUME SessionInv, MainInv, [ProcNext]_allVars PROVE MainInv'
  OBVIOUS
\* A session that has returned does not return again.
<1>1. run = "returned" => run' = "returned" /\ result' = result
  <2>1. [Next]_vars \/ UNCHANGED runVars
    BY ProcStep DEF MainAlone
  <2>2. CASE RunSteps
    BY <2>2 DEF RunSteps, RunServerDone, RunReturn
  <2>3. CASE UNCHANGED runVars \/ UNCHANGED vars \/ Client \/ Server
    BY <2>3
       DEF vars, runVars, Client, ClientSend, ClientClose, ClientRecv, ClientExit, Server,
           ServerRecv, ServerAnswer, ServerCall, ServerExit
  <2>4. CASE ClientPump \/ CClosed
    BY <2>4
       DEF ClientPump, CRead, CEof, CClosed, CUnparseable, CHandleForward, CHandleReject,
           CHandleDrop, CHandleFail, CForward, CReply, CWriteFails, CAwait, CAwaitWoken,
           CAwaitGivesUp, CClose, CPumpEnds, runVars
  <2>5. CASE ServerPump \/ ParentCancel \/ Stop \/ DrainFires
    BY <2>5
       DEF ServerPump, SRead, SEof, SSettle, SNotResponse, SSignal, SDecide, SDecideFail,
           SForward, SReply, SWriteFails, SPumpEnds, ParentCancel, Stop, DrainFires, runVars
  <2> QED BY <2>1, <2>2, <2>3, <2>4, <2>5 DEF Next, Finished
<1>2. CASE MainClosesStdin
  BY <1>1, <1>2 DEF MainClosesStdin, MainInv
<1>3. CASE MainExits
  BY <1>3 DEF MainExits, MainInv, vars, runVars
<1>4. CASE Running /\ DieOfSigpipe
  BY <1>4 DEF Running, DieOfSigpipe, MainInv
<1>5. CASE \/ UNCHANGED allVars \/ Ended \/ CPump \/ SPump \/ OtherSteps \/ Signal
           \/ KillServer \/ ServerEnds
  <2>1. UNCHANGED <<main, status>>
    BY <1>5
       DEF allVars, mainVars, Ended, CPump, SPump, OtherSteps, Signal, KillServer, ServerEnds
  <2> QED BY <1>1, <2>1 DEF MainInv
<1> QED BY <1>2, <1>3, <1>4, <1>5 DEF ProcNext, MainSteps

LEMMA ProcessInvariant == Transparent => (ProcSpec => []ProcessInv)
<1> SUFFICES ASSUME Transparent PROVE ProcSpec => []ProcessInv
  OBVIOUS
<1>1. ProcInit => ProcessInv
  BY TypeInit, DrainInit, PlacesInit DEF ProcInit, ProcessInv, SessionInv, MainInv, DrainInv
<1>2. ProcessInv /\ [ProcNext]_allVars => ProcessInv'
  BY SessionKeeps, MainKeeps DEF ProcessInv
<1> QED BY <1>1, <1>2, PTL DEF ProcSpec

\* With an interceptor that forwards what the server sends, as the gateway does,
\* or fails, an exit status of success hides no lost reply.
THEOREM SuccessIsHonest == Transparent => (ProcSpec => []SuccessLosesNoReply)
<1> SUFFICES ASSUME Transparent PROVE ProcSpec => []SuccessLosesNoReply
  OBVIOUS
<1>1. ProcessInv => SuccessLosesNoReply
  <2> SUFFICES ASSUME ProcessInv, status = "success", cpc = "done", errs["client"] = "nil",
                      ~gaveUp, NEW r \in forwarded
               PROVE  replies[r] = 1
    BY DEF SuccessLosesNoReply
  <2>1. r \in taken /\ r \in Requests
    BY DEF ProcessInv, SessionInv, AwaitInv, Excused, TypeOK, HistType
  <2>2. spc = "done" /\ errs["server"] # "error" /\ r # smsg
    BY <2>1, NoneIsNoMessage
       DEF ProcessInv, SessionInv, MainInv, PlacesInv, EndInv, TypeOK, SType, RunType
  <2> QED BY <2>1, <2>2 DEF ProcessInv, SessionInv, PlacesInv, AnswerInv
<1> QED BY <1>1, ProcessInvariant, PTL
=============================================================================
