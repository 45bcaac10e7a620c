------------------------------ MODULE HookProofs ------------------------------
(***************************************************************************)
(* The audit log and the hooks that write to it, for any number of         *)
(* processes, decisions and restarts, any policies and any events: what is *)
(* recorded stays, what is lost is reported, a hook fails closed, and it   *)
(* is right about what lies outside the workspace.                         *)
(***************************************************************************)
EXTENDS Hook, MinMax, SequenceTheorems, FiniteSetTheorems, TLAPS

Parts == [id : Nat, whole : BOOLEAN]
Lines == [parts : Seq(Parts), ended : BOOLEAN]

Elements(q) == {q[i] : i \in DOMAIN q}

\* The record that a line ends with.
LastPart(line) == line.parts[Len(line.parts)]

LogType ==
  /\ log \in Seq(Lines)
  /\ \A i \in DOMAIN log :
       /\ log[i].parts # <<>>
       /\ i < Len(log) => log[i].ended
       /\ \A k \in DOMAIN log[i].parts : log[i].parts[k].id \in 0 .. Len(decisions)
  /\ decisions \in Seq(Elements(decisions)) /\ Len(decisions) <= MaxDecisions

WriterType ==
  /\ DOMAIN proc = Writers
  /\ \A p \in Writers :
       /\ proc[p] \in [pc : {"down", "ready", "write", "act"}, broken : BOOLEAN,
                       hand : 0 .. Len(decisions)]
       /\ proc[p].pc = "write" => proc[p].hand # 0
       /\ proc[p].pc = "act" => proc[p].hand \in written \cup reported
  /\ starts \in 0 .. MaxStarts
  /\ written \cup reported \subseteq 1 .. Len(decisions)

\* What was written well ends a line that nothing can continue.
WrittenInv ==
  \A id \in written : \E i \in DOMAIN log :
    log[i].ended /\ LastPart(log[i]) = [id |-> id, whole |-> TRUE]

CarriedInv == carried \subseteq written \cup reported

\* The lines that hold, or may come to hold, more than one record.
TornLines == {i \in DOMAIN log : Len(log[i].parts) > 1 \/ ~log[i].ended}
TearsInv == tears \in Nat /\ Cardinality(TornLines) <= tears

AuditInv == LogType /\ WriterType /\ WrittenInv /\ CarriedInv /\ TearsInv

\* What a hook was started with, and what it has answered.
Usable(h) ==
  ~NotOurs(run[h].event, run[h].config) /\ ~CannotCheck(run[h].event, run[h].config)

\* Why a hook lets a call through: its decision says so, or it is not asked.
LetThrough(h) ==
  \/ Usable(h) /\ Verdict(run[h].config, DecisionOf(h)) = "pass"
  \/ NotOurs(run[h].event, run[h].config)

RunOK(h) ==
  \/ run[h] = NoRun /\ proc[h].pc = "down"
  \/ /\ DOMAIN run[h] = {"event", "config", "answer", "id"}
     /\ \E r \in Runs : run[h].event = r.event /\ run[h].config = r.config
     /\ proc[h].pc = "ready" => run[h].id = 0 /\ run[h].answer = "none"
     /\ proc[h].pc \in {"write", "act"} =>
          /\ run[h].id = proc[h].hand /\ run[h].id # 0
          /\ run[h].answer = "none" /\ Usable(h)
     /\ run[h].answer \in {"none", "deny", "pass"}
     /\ run[h].answer = "pass" => LetThrough(h)

\* The record of a hook's decision says what the hook decided and answers.
RecordOK(h) ==
  /\ run[h].id \in 0 .. Len(decisions)
  /\ run[h].id # 0 =>
       /\ decisions[run[h].id].effect = DecisionOf(h).effect
       /\ decisions[run[h].id].unenforced <=> IsUnenforced(run[h].config, DecisionOf(h))
       /\ run[h].answer \in {"none", Verdict(run[h].config, DecisionOf(h))}

RunInv == DOMAIN run = Hooks /\ \A h \in Hooks : RunOK(h) /\ RecordOK(h)

HookInv == AuditInv /\ RunInv

-----------------------------------------------------------------------------
(* What a write does to the log.                                           *)

\* What is on a finished line stays where it is.
Kept == \A i \in DOMAIN log : log[i].ended => i \in DOMAIN log' /\ log'[i] = log[i]

LEMMA AppendKeeps ==
  ASSUME LogType, NEW part \in Parts, part.id \in 1 .. Len(decisions), NEW ended \in BOOLEAN,
         log' = AppendTo(log, part, ended), decisions' = decisions
  PROVE  /\ LogType' /\ Kept
         /\ TornLines' \subseteq TornLines \cup {Len(log')}
         /\ ended => TornLines' = TornLines
         /\ \E i \in DOMAIN log' : log'[i].ended = ended /\ LastPart(log'[i]) = part
  <1> DEFINE k   == Len(log)
             n   == Len(log')
             old == log[n].parts
             new == log'[n].parts
  <1>1. k \in Nat /\ DOMAIN log = 1 .. k /\ \A i \in 1 .. k : log[i] \in Lines
    BY LenProperties, ElementOfSeq DEF LogType
  <1>2. Len(decisions) \in Nat
    BY LenProperties DEF LogType
  <1>3. log \in Seq(Lines) /\ \A i \in 1 .. k : i < k => log[i].ended
    BY <1>1 DEF LogType
  <1>4. /\ log' \in Seq(Lines) /\ n \in Nat \ {0}
        /\ n \in {k, k + 1}
        /\ \A i \in 1 .. n - 1 : log'[i] = log[i] /\ log[i].ended
        /\ log'[n].ended = ended
        /\ n = k => ~log[n].ended /\ new = Append(old, part)
        /\ n = k + 1 => new = <<part>>
    <2>1. CASE log # <<>> /\ ~Last(log).ended
      <3> DEFINE line  == [parts |-> Append(log[k].parts, part), ended |-> ended]
                 front == SubSeq(log, 1, k - 1)
      <3>1. k \in Nat \ {0} /\ log[k] \in Lines /\ ~log[k].ended
        BY <1>1, <1>3, <2>1, EmptySeq DEF Last
      <3>2. log' = Append(front, line)
        BY <2>1 DEF AppendTo, Last, Front
      <3>3. line \in Lines
        BY <3>1 DEF Lines
      <3>4. /\ front \in Seq(Lines) /\ Len(front) = k - 1
            /\ \A i \in 1 .. k - 1 : front[i] = log[i]
        <4>1. \A i \in 1 .. k - 1 : log[i] \in Lines
          BY <1>1, <3>1
        <4>2. k - 1 \in Int /\ 1 \in Int
          BY <3>1
        <4> HIDE DEF k
        <4> QED BY <3>1, <4>1, <4>2, SubSeqProperties
      <3>5. line.parts = Append(log[k].parts, part) /\ line.ended = ended
        OBVIOUS
      <3> HIDE DEF line, front
      <3>6. /\ log' \in Seq(Lines) /\ n = k
            /\ \A i \in 1 .. k - 1 : log'[i] = log[i]
            /\ log'[k] = line
        BY <3>1, <3>2, <3>3, <3>4
      <3>7. n \in Nat \ {0} /\ n # k + 1 /\ \A i \in 1 .. n - 1 : i \in 1 .. k /\ i < k
        <4> HIDE DEF k, n
        <4> QED BY <3>1, <3>6
      <3> HIDE DEF k, n
      <3> QED BY <1>3, <3>1, <3>5, <3>6, <3>7
    <2>2. CASE ~(log # <<>> /\ ~Last(log).ended)
      <3> DEFINE line == [parts |-> <<part>>, ended |-> ended]
      <3>1. log' = Append(log, line)
        BY <2>2 DEF AppendTo
      <3>2. line \in Lines /\ line.parts = <<part>> /\ line.ended = ended
        BY DEF Lines
      <3> HIDE DEF line
      <3>3. \A i \in 1 .. k : log[i].ended
        BY <1>1, <1>3, <2>2, EmptySeq DEF Last
      <3>4. /\ log' \in Seq(Lines) /\ n = k + 1
            /\ \A i \in 1 .. k : log'[i] = log[i]
            /\ log'[k + 1] = line
        BY <1>1, <1>3, <3>1, <3>2
      <3>5. n \in Nat \ {0} /\ n # k /\ n - 1 = k
        <4> HIDE DEF k, n
        <4> QED BY <1>1, <3>4
      <3> QED BY <1>1, <3>2, <3>3, <3>4, <3>5, Zenon
    <2> QED BY <2>1, <2>2
  <1>5. DOMAIN log' = 1 .. n
    BY <1>4, LenProperties
  <1>6. /\ new \in Seq(Parts) /\ Len(new) \in Nat \ {0} /\ DOMAIN new = 1 .. Len(new)
        /\ new[Len(new)] = part
        /\ \A i \in DOMAIN new : new[i].id \in 0 .. Len(decisions)
        /\ n = k + 1 => Len(new) = 1
        /\ n = k => Len(new) > 1
    <2>1. CASE n = k
      <3>1. /\ old \in Seq(Parts) /\ old # <<>>
            /\ \A i \in DOMAIN old : old[i].id \in 0 .. Len(decisions)
        <4>1. k \in DOMAIN log /\ log[k] \in Lines
          <5> HIDE DEF k, n
          <5> QED BY <1>1, <1>4, <2>1
        <4>2. old \in Seq(Parts)
          BY <2>1, <4>1 DEF Lines
        <4> QED BY <2>1, <4>1, <4>2 DEF LogType
      <3>2. Len(old) \in Nat \ {0} /\ DOMAIN old = 1 .. Len(old)
        BY <3>1, LenProperties, EmptySeq
      <3>3. new = Append(old, part)
        BY <1>4, <2>1
      <3> HIDE DEF old, new
      <3>4. /\ new \in Seq(Parts) /\ Len(new) = Len(old) + 1
            /\ \A i \in 1 .. Len(old) : new[i] = old[i]
            /\ new[Len(old) + 1] = part
        BY <3>1, <3>2, <3>3
      <3>5. DOMAIN new = 1 .. Len(new)
        BY <3>4, LenProperties
      <3>6. \A i \in 1 .. Len(new) : i = Len(old) + 1 \/ i \in 1 .. Len(old)
        BY <3>2, <3>4
      <3>7. part.id \in 0 .. Len(decisions)
        BY <1>2
      <3>8. \A i \in DOMAIN new : new[i].id \in 0 .. Len(decisions)
        BY <3>1, <3>2, <3>4, <3>5, <3>6, <3>7
      <3>9. n # k + 1
        <4> HIDE DEF k, n
        <4> QED BY <1>1, <2>1
      <3> QED BY <3>2, <3>4, <3>5, <3>8, <3>9
    <2>2. CASE n = k + 1
      <3>1. new = <<part>>
        BY <1>4, <2>2
      <3>2. part.id \in 0 .. Len(decisions) /\ n # k
        <4> HIDE DEF k, n
        <4> QED BY <1>1, <1>2, <2>2
      <3> HIDE DEF new
      <3> QED BY <3>1, <3>2
    <2> QED BY <1>4, <2>1, <2>2
  <1> HIDE DEF k, n, old, new
  <1>7. LogType'
    <2>1. \A i \in 1 .. n : i # n => i \in 1 .. n - 1 /\ i \in 1 .. k
      BY <1>1, <1>4
    <2>2. \A i \in 1 .. n : log'[i].parts # <<>>
      <3>1. log'[n].parts # <<>>
        <4>1. PICK x : x = log'[n].parts
          OBVIOUS
        <4>2. x = <<>> => Len(x) = 0
          OBVIOUS
        <4>3. Len(x) # 0
          BY <1>6, <4>1 DEF new
        <4> QED BY <4>1, <4>2, <4>3
      <3>2. \A i \in 1 .. n : i # n => log'[i] = log[i] /\ i \in DOMAIN log
        BY <1>1, <1>4, <2>1
      <3> QED BY <3>1, <3>2 DEF LogType
    <2>3. \A i \in 1 .. n : i < n => log'[i].ended
      BY <1>4, <2>1
    <2>4. \A i \in 1 .. n : \A j \in DOMAIN log'[i].parts :
             log'[i].parts[j].id \in 0 .. Len(decisions)
      <3>1. \A j \in DOMAIN log'[n].parts : log'[n].parts[j].id \in 0 .. Len(decisions)
        BY <1>6 DEF new
      <3>2. \A i \in 1 .. n : i # n => log'[i] = log[i] /\ i \in DOMAIN log
        BY <1>1, <1>4, <2>1
      <3> QED BY <3>1, <3>2 DEF LogType
    <2> QED BY <1>4, <1>5, <2>2, <2>3, <2>4 DEF LogType, n
  <1>8. Kept
    <2>1. \A i \in 1 .. k : log[i].ended => i \in 1 .. n - 1 /\ i \in 1 .. n
      BY <1>1, <1>4
    <2> QED BY <1>1, <1>4, <1>5, <2>1 DEF Kept
  <1>9. TornLines' \subseteq TornLines \cup {n} /\ (ended => TornLines' = TornLines)
    <2>1. \A i : i \in TornLines' <=>
            i \in 1 .. n /\ (Len(log'[i].parts) > 1 \/ ~log'[i].ended)
      BY <1>5 DEF TornLines
    <2>2. \A i : i \in TornLines <=> i \in 1 .. k /\ (Len(log[i].parts) > 1 \/ ~log[i].ended)
      BY <1>1 DEF TornLines
    <2>3. \A i : i # n => (i \in 1 .. n <=> i \in 1 .. k)
      BY <1>1, <1>4
    <2>4. \A i : i # n => (i \in TornLines' <=> i \in TornLines)
      BY <1>1, <1>4, <2>1, <2>2, <2>3
    <2>5. ASSUME ended PROVE n \in TornLines' <=> n \in TornLines
      <3>1. n \in 1 .. n /\ log'[n].ended
        BY <1>4, <2>5
      <3>2. CASE n = k
        <4>1. Len(log'[n].parts) > 1 /\ ~log[n].ended /\ n \in 1 .. k
          BY <1>4, <1>6, <3>2 DEF new
        <4> QED BY <2>1, <2>2, <3>1, <4>1
      <3>3. CASE n = k + 1
        <4>1. Len(log'[n].parts) = 1 /\ n \notin 1 .. k
          BY <1>1, <1>4, <1>6, <3>3 DEF new
        <4>2. ~(Len(log'[n].parts) > 1)
          BY <4>1
        <4> QED BY <2>1, <2>2, <3>1, <4>1, <4>2
      <3> QED BY <1>4, <3>2, <3>3
    <2>6. \A i \in TornLines' : i \in TornLines \cup {n}
      BY <2>4
    <2>7. ended => \A i : i \in TornLines' <=> i \in TornLines
      BY <2>4, <2>5
    <2>8. ended => TornLines' = TornLines
      <3>1. ended => TornLines' \subseteq TornLines /\ TornLines \subseteq TornLines'
        BY <2>7
      <3> QED BY <3>1
    <2> QED BY <2>6, <2>8
  <1>10. n \in DOMAIN log' /\ log'[n].ended = ended /\ LastPart(log'[n]) = part
    BY <1>4, <1>5, <1>6 DEF LastPart, new
  <1> QED BY <1>7, <1>8, <1>9, <1>10 DEF n

LEMMA TornFinite == LogType => IsFiniteSet(TornLines)
  <1> SUFFICES ASSUME LogType
               PROVE  IsFiniteSet(TornLines)
    OBVIOUS
  <1>1. Len(log) \in Nat /\ DOMAIN log = 1 .. Len(log)
    BY LenProperties DEF LogType
  <1>2. IsFiniteSet(1 .. Len(log))
    BY <1>1, FS_Interval
  <1>3. TornLines \subseteq 1 .. Len(log)
    BY <1>1 DEF TornLines
  <1> QED BY <1>2, <1>3, FS_Subset

LEMMA AddOne ==
  ASSUME NEW S, IsFiniteSet(S), NEW x
  PROVE  IsFiniteSet(S \cup {x}) /\ Cardinality(S \cup {x}) <= Cardinality(S) + 1
  <1>1. Cardinality(S) \in Nat
    BY FS_CardinalityType
  <1>2. /\ IsFiniteSet(S \cup {x})
        /\ Cardinality(S \cup {x}) = IF x \in S THEN Cardinality(S) ELSE Cardinality(S) + 1
    BY FS_AddElement
  <1> QED BY <1>1, <1>2

\* A write that does not complete tears one line at most, and is counted.
LEMMA InterruptedKeeps ==
  ASSUME LogType, TearsInv, NEW id \in 1 .. Len(decisions), Interrupted(id),
         decisions' = decisions
  PROVE  LogType' /\ Kept /\ TearsInv'
  <1>1. PICK left \in Torn(log, id) :
          log' = left /\ tears' = IF left = log THEN tears ELSE tears + 1
    BY DEF Interrupted
  <1>2. CASE left = log
    <2>1. log' = log /\ tears' = tears
      BY <1>1, <1>2
    <2> QED BY <2>1 DEF LogType, Kept, TearsInv, TornLines
  <1>3. CASE left # log
    <2>1. PICK w \in BOOLEAN : left = AppendTo(log, [id |-> id, whole |-> w], FALSE)
      BY <1>3 DEF Torn
    <2> DEFINE part == [id |-> id, whole |-> w]
    <2>2. part \in Parts /\ part.id \in 1 .. Len(decisions)
      <3>1. id \in Nat
        BY LenProperties DEF LogType
      <3> QED BY <3>1 DEF Parts
    <2>3. log' = AppendTo(log, part, FALSE)
      BY <1>1, <2>1
    <2> HIDE DEF part
    <2>4. LogType' /\ Kept /\ TornLines' \subseteq TornLines \cup {Len(log')}
      BY <2>2, <2>3, AppendKeeps
    <2>5. IsFiniteSet(TornLines) /\ IsFiniteSet(TornLines \cup {Len(log')})
          /\ Cardinality(TornLines \cup {Len(log')}) <= Cardinality(TornLines) + 1
      BY TornFinite, AddOne
    <2>6. Cardinality(TornLines') <= Cardinality(TornLines \cup {Len(log')})
      BY <2>4, <2>5, FS_Subset
    <2>7. /\ Cardinality(TornLines) \in Nat /\ Cardinality(TornLines \cup {Len(log')}) \in Nat
          /\ Cardinality(TornLines') \in Nat
      BY <2>4, <2>5, FS_CardinalityType, FS_Subset
    <2>8. tears' = tears + 1
      BY <1>1, <1>3
    <2> QED BY <2>4, <2>5, <2>6, <2>7, <2>8 DEF TearsInv
  <1> QED BY <1>2, <1>3

LEMMA WrittenKeeps ==
  ASSUME WrittenInv, Kept, written' = written
  PROVE  WrittenInv'
  BY DEF WrittenInv, Kept, LastPart

-----------------------------------------------------------------------------
(* The invariant of the log and its writers.                               *)

\* The steps that leave the file alone.
logVars == <<log, decisions, written, tears>>
LEMMA LogFrame ==
  ASSUME LogType, WrittenInv, TearsInv, UNCHANGED logVars
  PROVE  LogType' /\ WrittenInv' /\ TearsInv'
  BY DEF LogType, WrittenInv, TearsInv, TornLines, LastPart, logVars

LEMMA StartKeeps ==
  ASSUME AuditInv, NEW p \in Writers, Start(p)
  PROVE  AuditInv'
  <1> USE DEF AuditInv
  <1>1. LogType' /\ WrittenInv' /\ TearsInv'
    BY LogFrame DEF Start, logVars
  <1>2. Len(decisions) \in Nat
    BY LenProperties DEF LogType
  <1>3. WriterType'
    <2>1. /\ DOMAIN proc' = Writers
          /\ \A q \in Writers : q # p => proc'[q] = proc[q]
          /\ proc'[p] = [pc |-> "ready", broken |-> FALSE, hand |-> 0]
      BY DEF Start, WriterType, Down
    <2>2. proc'[p] \in [pc : {"down", "ready", "write", "act"}, broken : BOOLEAN,
                        hand : 0 .. Len(decisions)]
      BY <1>2, <2>1
    <2>3. proc'[p].pc = "ready"
      BY <2>1
    <2>4. starts' \in 0 .. MaxStarts
      BY AuditAssumption DEF Start, WriterType
    <2>5. UNCHANGED <<decisions, written, reported>>
      BY DEF Start
    <2> QED BY <2>1, <2>2, <2>3, <2>4, <2>5 DEF WriterType
  <1> QED BY <1>1, <1>3 DEF CarriedInv, Start

LEMMA ActKeeps ==
  ASSUME AuditInv, NEW p \in Writers, Act(p)
  PROVE  AuditInv'
  <1> USE DEF AuditInv
  <1>1. LogType' /\ WrittenInv' /\ TearsInv'
    BY LogFrame DEF Act, logVars
  <1>2. Len(decisions) \in Nat
    BY LenProperties DEF LogType
  <1>3. WriterType'
    <2>1. /\ DOMAIN proc' = Writers
          /\ \A q \in Writers : q # p => proc'[q] = proc[q]
          /\ \/ proc'[p] = Down
             \/ proc'[p] = [proc[p] EXCEPT !.pc = "ready", !.hand = 0]
      BY DEF Act, WriterType
    <2>2. /\ proc'[p] \in [pc : {"down", "ready", "write", "act"}, broken : BOOLEAN,
                            hand : 0 .. Len(decisions)]
          /\ proc'[p].pc \in {"down", "ready"}
      <3>1. CASE proc'[p] = Down
        BY <1>2, <3>1 DEF Down
      <3>2. CASE proc'[p] = [proc[p] EXCEPT !.pc = "ready", !.hand = 0]
        <4>1. 0 \in 0 .. Len(decisions)
          BY <1>2
        <4> QED BY <3>2, <4>1 DEF WriterType
      <3> QED BY <2>1, <3>1, <3>2
    <2>3. UNCHANGED <<decisions, starts, written, reported>>
      BY DEF Act
    <2> QED BY <2>1, <2>2, <2>3 DEF WriterType
  <1>4. CarriedInv'
    BY DEF Act, WriterType, CarriedInv
  <1> QED BY <1>1, <1>3, <1>4

\* A process goes down without writing.
LEMMA DownKeeps ==
  ASSUME AuditInv, NEW p \in Writers, proc' = [proc EXCEPT ![p] = Down],
         UNCHANGED <<log, decisions, starts, written, reported, carried, tears>>
  PROVE  AuditInv'
  <1> USE DEF AuditInv
  <1>1. LogType' /\ WrittenInv' /\ TearsInv'
    BY LogFrame DEF logVars
  <1>2. Len(decisions) \in Nat
    BY LenProperties DEF LogType
  <1>3. WriterType'
    BY <1>2 DEF WriterType, Down
  <1> QED BY <1>1, <1>3 DEF CarriedInv

LEMMA CrashKeeps ==
  ASSUME AuditInv, NEW p \in Writers, Crash(p)
  PROVE  AuditInv' /\ (Kept \/ log' = log)
  <1> USE DEF AuditInv
  <1>1. CASE proc[p].pc = "write" /\ ~proc[p].broken
    <2>1. Interrupted(proc[p].hand) /\ decisions' = decisions /\ written' = written
      BY <1>1 DEF Crash
    <2>2. proc[p].hand \in 1 .. Len(decisions)
      BY <1>1, LenProperties DEF WriterType, LogType
    <2>3. LogType' /\ Kept /\ TearsInv'
      BY <2>1, <2>2, InterruptedKeeps
    <2>4. Len(decisions) \in Nat
      BY LenProperties DEF LogType
    <2>5. WriterType'
      BY <2>4 DEF Crash, WriterType, Down
    <2> QED BY <2>1, <2>3, <2>5, WrittenKeeps DEF CarriedInv, Crash
  <1>2. CASE ~(proc[p].pc = "write" /\ ~proc[p].broken)
    BY <1>2, DownKeeps DEF Crash
  <1> QED BY <1>1, <1>2

LEMMA SeqOfElements ==
  ASSUME NEW S, NEW q \in Seq(S)
  PROVE  q \in Seq(Elements(q))
  <1>1. Len(q) \in Nat /\ q \in [1 .. Len(q) -> S]
    BY LenProperties
  <1>2. \A i \in 1 .. Len(q) : q[i] \in Elements(q)
    BY <1>1 DEF Elements
  <1>3. 1 \in Int /\ Len(q) \in Int
    BY <1>1
  <1>4. SubSeq(q, 1, Len(q)) \in Seq(Elements(q))
    BY <1>2, <1>3, SubSeqProperties
  <1>5. q = SubSeq(q, 1, Len(q))
    BY SubSeqFull
  <1> QED BY <1>4, <1>5

\* A decision is added to those that have been made.
LEMMA DecisionAdded ==
  ASSUME decisions \in Seq(Elements(decisions)), NEW d, decisions' = Append(decisions, d)
  PROVE  /\ decisions' \in Seq(Elements(decisions')) /\ Len(decisions) \in Nat
         /\ Len(decisions') = Len(decisions) + 1
         /\ \A i \in 1 .. Len(decisions) : decisions'[i] = decisions[i]
         /\ decisions'[Len(decisions')] = d
  <1> DEFINE S == Elements(decisions) \cup {d}
  <1>1. decisions \in Seq(S) /\ d \in S
    BY SeqMonotonic
  <1> HIDE DEF S
  <1>2. /\ decisions' \in Seq(S) /\ Len(decisions) \in Nat
        /\ Len(decisions') = Len(decisions) + 1
        /\ \A i \in 1 .. Len(decisions) : decisions'[i] = decisions[i]
        /\ decisions'[Len(decisions) + 1] = d
    BY <1>1, LenProperties
  <1> QED BY <1>2, SeqOfElements

LEMMA DecideKeeps ==
  ASSUME AuditInv, NEW p \in Writers, NEW effect, NEW unenforced, NEW long,
         Decide(p, effect, unenforced, long)
  PROVE  AuditInv'
  <1> USE DEF AuditInv
  <1> DEFINE n == Len(decisions)
  <1>1. /\ decisions' \in Seq(Elements(decisions')) /\ n \in Nat
        /\ Len(decisions') = n + 1
    BY DecisionAdded DEF Decide, LogType
  <1>2. n + 1 <= MaxDecisions
    BY <1>1, AuditAssumption DEF Decide
  <1>3. 0 .. n \subseteq 0 .. Len(decisions') /\ 1 .. n \subseteq 1 .. Len(decisions')
        /\ n + 1 \in 0 .. Len(decisions') /\ n + 1 # 0
    BY <1>1
  <1> HIDE DEF n
  <1>4. UNCHANGED <<log, starts, written, reported, carried, tears>>
    BY DEF Decide
  <1>5. LogType'
    <2>1. \A i \in DOMAIN log : \A k \in DOMAIN log[i].parts :
             log[i].parts[k].id \in 0 .. Len(decisions')
      BY <1>3 DEF LogType, n
    <2> QED BY <1>1, <1>2, <1>4, <2>1 DEF LogType
  <1>6. WriterType'
    <2>1. /\ DOMAIN proc' = Writers
          /\ \A q \in Writers : q # p => proc'[q] = proc[q]
          /\ proc'[p] = [proc[p] EXCEPT !.pc = "write", !.hand = n + 1]
      BY <1>1 DEF Decide, WriterType
    <2>2. \A q \in Writers :
            proc[q] \in [pc : {"down", "ready", "write", "act"}, broken : BOOLEAN,
                         hand : 0 .. Len(decisions')]
      BY <1>3 DEF WriterType, n
    <2>3. proc'[p] \in [pc : {"down", "ready", "write", "act"}, broken : BOOLEAN,
                        hand : 0 .. Len(decisions')]
          /\ proc'[p].pc = "write" /\ proc'[p].hand = n + 1
      BY <1>3, <2>1, <2>2
    <2>4. written \cup reported \subseteq 1 .. Len(decisions')
      BY <1>3 DEF WriterType, n
    <2>5. UNCHANGED <<starts, written, reported>>
      BY <1>4
    <2> QED BY <1>3, <2>1, <2>2, <2>3, <2>4, <2>5 DEF WriterType
  <1>7. WrittenInv' /\ TearsInv' /\ CarriedInv'
    BY <1>4 DEF WrittenInv, LastPart, TearsInv, TornLines, CarriedInv
  <1> QED BY <1>5, <1>6, <1>7

\* After the attempt to write, the process carries the decision out.
LEMMA AfterWrite ==
  ASSUME AuditInv, NEW p \in Writers, proc[p].pc = "write", NEW b \in BOOLEAN,
         proc' = [proc EXCEPT ![p].pc = "act", ![p].broken = b],
         UNCHANGED <<decisions, starts>>,
         written \subseteq written', reported \subseteq reported',
         proc[p].hand \in written' \cup reported',
         written' \cup reported' \subseteq written \cup reported \cup {proc[p].hand}
  PROVE  WriterType' /\ proc[p].hand \in 1 .. Len(decisions)
  <1> USE DEF AuditInv
  <1>1. Len(decisions) \in Nat
    BY LenProperties DEF LogType
  <1>2. proc[p].hand \in 1 .. Len(decisions)
    BY <1>1 DEF WriterType
  <1>3. /\ DOMAIN proc' = Writers
        /\ \A q \in Writers : q # p => proc'[q] = proc[q]
        /\ proc'[p] = [proc[p] EXCEPT !.pc = "act", !.broken = b]
    BY DEF WriterType
  <1>4. /\ proc'[p] \in [pc : {"down", "ready", "write", "act"}, broken : BOOLEAN,
                         hand : 0 .. Len(decisions)]
        /\ proc'[p].pc = "act" /\ proc'[p].hand = proc[p].hand
    <2>1. proc[p] \in [pc : {"down", "ready", "write", "act"}, broken : BOOLEAN,
                       hand : 0 .. Len(decisions)]
      BY DEF WriterType
    <2> QED BY <1>3, <2>1
  <1>5. written' \cup reported' \subseteq 1 .. Len(decisions)
    BY <1>2 DEF WriterType
  <1> QED BY <1>2, <1>3, <1>4, <1>5 DEF WriterType

LEMMA WritesKeeps ==
  ASSUME AuditInv, NEW p \in Writers, EncodeWrites(p)
  PROVE  AuditInv' /\ Kept
  <1> USE DEF AuditInv
  <1> DEFINE part == [id |-> proc[p].hand, whole |-> TRUE]
  <1>1. proc' = [proc EXCEPT ![p].pc = "act", ![p].broken = proc[p].broken]
    BY DEF EncodeWrites, WriterType
  <1>2. WriterType' /\ proc[p].hand \in 1 .. Len(decisions)
    <2>1. proc[p].broken \in BOOLEAN
      BY DEF WriterType
    <2> QED BY <1>1, <2>1, AfterWrite DEF EncodeWrites
  <1>3. part \in Parts /\ part.id \in 1 .. Len(decisions)
    BY <1>2, LenProperties DEF Parts, LogType
  <1>4. log' = AppendTo(log, part, TRUE) /\ UNCHANGED <<decisions, carried, reported, tears>>
        /\ written' = written \cup {proc[p].hand}
    BY DEF EncodeWrites
  <1> HIDE DEF part
  <1>5. /\ LogType' /\ Kept /\ TornLines' = TornLines
        /\ \E i \in DOMAIN log' : log'[i].ended = TRUE /\ LastPart(log'[i]) = part
    BY <1>3, <1>4, AppendKeeps
  <1>6. WrittenInv'
    <2>1. \A id \in written : \E i \in DOMAIN log' :
            log'[i].ended /\ LastPart(log'[i]) = [id |-> id, whole |-> TRUE]
      BY <1>5 DEF WrittenInv, Kept, LastPart
    <2>2. \E i \in DOMAIN log' :
            log'[i].ended /\ LastPart(log'[i]) = [id |-> proc[p].hand, whole |-> TRUE]
      BY <1>5 DEF part
    <2>3. \A id \in written' : \E i \in DOMAIN log' :
            log'[i].ended /\ LastPart(log'[i]) = [id |-> id, whole |-> TRUE]
      BY <1>4, <2>1, <2>2
    <2> QED BY <2>3 DEF WrittenInv, LastPart
  <1> QED BY <1>2, <1>4, <1>5, <1>6 DEF TearsInv, CarriedInv

LEMMA FailsKeeps ==
  ASSUME AuditInv, NEW p \in Writers, EncodeFails(p)
  PROVE  AuditInv' /\ Kept
  <1> USE DEF AuditInv
  <1>1. WriterType' /\ proc[p].hand \in 1 .. Len(decisions)
    BY AfterWrite DEF EncodeFails
  <1>2. /\ UNCHANGED <<decisions, written, carried>>
        /\ reported' = reported \cup {proc[p].hand}
    BY DEF EncodeFails
  <1>3. LogType' /\ Kept /\ TearsInv'
    <2>1. CASE proc[p].broken
      BY <1>2, <2>1 DEF EncodeFails, LogType, Kept, TearsInv, TornLines
    <2>2. CASE ~proc[p].broken
      BY <1>1, <1>2, <2>2, InterruptedKeeps DEF EncodeFails
    <2> QED BY <2>1, <2>2
  <1> QED BY <1>1, <1>2, <1>3, WrittenKeeps DEF CarriedInv

LEMMA AuditStarts == AuditInit => AuditInv
  <1> SUFFICES ASSUME AuditInit
               PROVE  AuditInv
    OBVIOUS
  <1>1. /\ decisions = <<>> /\ starts = 0 /\ written = {} /\ reported = {} /\ carried = {}
        /\ proc = [p \in Writers |-> Down]
    BY DEF AuditInit
  <1>2. decisions \in Seq(Elements(decisions)) /\ Len(decisions) = 0 /\ 0 <= MaxDecisions
    BY <1>1, EmptySeq, AuditAssumption
  <1>3. WriterType
    <2>1. DOMAIN proc = Writers /\ \A p \in Writers : proc[p] = Down
      BY <1>1
    <2>2. /\ Down \in [pc : {"down", "ready", "write", "act"}, broken : BOOLEAN,
                       hand : 0 .. Len(decisions)]
          /\ Down.pc = "down"
      BY <1>2 DEF Down
    <2> QED BY <1>1, <2>1, <2>2, AuditAssumption DEF WriterType
  <1>4. LogType /\ TearsInv
    <2>1. CASE log = <<>>
      <3>1. log \in Seq(Lines) /\ DOMAIN log = {}
        BY <2>1
      <3>2. TornLines = {} /\ tears = 0
        BY <2>1, <3>1 DEF TornLines, AuditInit
      <3> QED BY <1>2, <3>1, <3>2, FS_EmptySet DEF LogType, TearsInv
    <2>2. CASE log # <<>>
      <3>1. PICK w \in BOOLEAN :
              log = <<[parts |-> <<[id |-> Old, whole |-> w]>>, ended |-> w]>>
        BY <2>2 DEF AuditInit
      <3> DEFINE part == [id |-> Old, whole |-> w]
                 line == [parts |-> <<part>>, ended |-> w]
      <3>2. part \in Parts /\ part.id = 0
        BY DEF Parts, Old
      <3>3. line.parts = <<part>> /\ line.ended = w
        OBVIOUS
      <3>4. log = <<line>>
        BY <3>1
      <3> HIDE DEF part
      <3>5. line \in Lines
        BY <3>2 DEF Lines
      <3> HIDE DEF line
      <3>6. log \in Seq(Lines) /\ DOMAIN log = {1} /\ log[1] = line /\ Len(log) = 1
        BY <3>4, <3>5
      <3>7. /\ line.parts # <<>> /\ Len(line.parts) = 1 /\ DOMAIN line.parts = {1}
            /\ line.parts[1] = part
        BY <3>3
      <3>8. LogType
        BY <1>2, <3>2, <3>6, <3>7 DEF LogType
      <3>9. TornLines = IF w THEN {} ELSE {1}
        <4>1. ~(Len(line.parts) > 1) /\ line.ended = w
          BY <3>3, <3>7
        <4>2. \A i : i \in TornLines <=> i = 1 /\ ~w
          BY <3>6, <4>1, Zenon DEF TornLines
        <4> QED BY <4>2
      <3>10. tears = IF w THEN 0 ELSE 1
        BY <2>2, <3>3, <3>6 DEF AuditInit, Last
      <3>11. Cardinality(TornLines) = tears /\ tears \in Nat
        BY <3>9, <3>10, FS_EmptySet, FS_Singleton
      <3> QED BY <3>8, <3>11 DEF TearsInv
    <2> QED BY <2>1, <2>2
  <1> QED BY <1>1, <1>3, <1>4 DEF AuditInv, WrittenInv, CarriedInv

-----------------------------------------------------------------------------
(* What the invariant says of the log that is read back.                   *)

\* A decision that was written well is on a line that is read, or that the
\* reader skips and reports, unless the reading ends with an error.
LEMMA ReadOrReported ==
  ASSUME LogType, WrittenInv, NEW id \in written, ~ReadFails
  PROVE  \E i \in DOMAIN log :
           /\ LastPart(log[i]) = [id |-> id, whole |-> TRUE]
           /\ Len(log[i].parts) \in DOMAIN log[i].parts
           /\ \/ i \in DOMAIN Read /\ Read[i].id = id
              \/ i \in Skipped /\ Len(log[i].parts) > 1
  <1>1. PICK i \in DOMAIN log : LastPart(log[i]) = [id |-> id, whole |-> TRUE]
    BY DEF WrittenInv
  <1>2. log[i].parts \in Seq(Parts) /\ log[i].parts # <<>>
    <2>1. log[i] \in Lines
      BY LenProperties, ElementOfSeq DEF LogType
    <2> QED BY <2>1 DEF Lines, LogType
  <1>3. Len(log[i].parts) \in Nat \ {0} /\ DOMAIN log[i].parts = 1 .. Len(log[i].parts)
    BY <1>2, LenProperties, EmptySeq
  <1>4. i \in Scanned
    <2>1. \A j \in 1 .. i : j \in DOMAIN log
      BY LenProperties DEF LogType
    <2> QED BY <2>1 DEF Scanned, ReadFails
  <1>5. /\ log[i].parts[Len(log[i].parts)].id = id
        /\ log[i].parts[Len(log[i].parts)].whole
    BY <1>1 DEF LastPart
  <1>6. CASE Parses(log[i])
    <2>1. log[i].parts[1].id = id
      BY <1>5, <1>6 DEF Parses
    <2>2. i \in DOMAIN Read /\ Read[i] = EntryOf(id)
      BY <1>4, <1>6, <2>1 DEF Read
    <2>3. EntryOf(id).id = id
      BY DEF EntryOf
    <2> QED BY <1>1, <1>3, <2>2, <2>3
  <1>7. CASE ~Parses(log[i])
    <2>1. i \in Skipped
      BY <1>4, <1>7 DEF Skipped
    <2>2. Len(log[i].parts) # 1
      BY <1>5, <1>7 DEF Parses
    <2>3. Len(log[i].parts) > 1
      <3> DEFINE n == Len(log[i].parts)
      <3>1. n \in Nat \ {0} /\ n # 1
        BY <1>3, <2>2
      <3> HIDE DEF n
      <3>2. n > 1
        BY <3>1
      <3> QED BY <3>2 DEF n
    <2> QED BY <1>1, <1>3, <2>1, <2>3
  <1> QED BY <1>6, <1>7

LEMMA NoSilentLossHolds == AuditInv => NoSilentLoss
  <1> SUFFICES ASSUME AuditInv, NEW id \in carried, id \notin reported, ~ReadFails
               PROVE  \/ \E i \in DOMAIN Read : Read[i].id = id
                      \/ \E i \in Skipped : \E k \in DOMAIN log[i].parts :
                           log[i].parts[k].id = id
    BY DEF NoSilentLoss
  <1>1. id \in written
    BY DEF AuditInv, CarriedInv
  <1>2. PICK i \in DOMAIN log :
           /\ LastPart(log[i]) = [id |-> id, whole |-> TRUE]
           /\ Len(log[i].parts) \in DOMAIN log[i].parts
           /\ \/ i \in DOMAIN Read /\ Read[i].id = id
              \/ i \in Skipped /\ Len(log[i].parts) > 1
    BY <1>1, ReadOrReported DEF AuditInv
  <1> QED BY <1>2 DEF LastPart

LEMMA TearHidesOneHolds == AuditInv => TearHidesOne
  <1> SUFFICES ASSUME AuditInv, ~ReadFails
               PROVE  Cardinality({id \in written : \A i \in DOMAIN Read : Read[i].id # id})
                        <= tears
    BY DEF TearHidesOne
  <1> DEFINE Hidden == {id \in written : \A i \in DOMAIN Read : Read[i].id # id}
             EndsLine(id, i) == i \in TornLines /\ LastPart(log[i]) = [id |-> id, whole |-> TRUE]
             f == [id \in Hidden |-> CHOOSE i : EndsLine(id, i)]
  <1>1. \A id \in Hidden : \E i : EndsLine(id, i)
    <2> TAKE id \in Hidden
    <2>1. PICK i \in DOMAIN log :
             /\ LastPart(log[i]) = [id |-> id, whole |-> TRUE]
             /\ Len(log[i].parts) \in DOMAIN log[i].parts
             /\ \/ i \in DOMAIN Read /\ Read[i].id = id
                \/ i \in Skipped /\ Len(log[i].parts) > 1
      BY ReadOrReported DEF AuditInv
    <2>2. i \in TornLines
      BY <2>1 DEF TornLines
    <2> QED BY <2>1, <2>2
  <1> HIDE DEF Hidden
  <1>2. \A id \in Hidden : EndsLine(id, f[id])
    BY <1>1
  <1>3. f \in [Hidden -> TornLines]
    BY <1>2
  <1>4. ASSUME NEW x \in Hidden, NEW y \in Hidden, f[x] = f[y]
        PROVE  x = y
    BY <1>2, <1>4
  <1> HIDE DEF f
  <1>5. f \in Injection(Hidden, TornLines)
    BY <1>3, <1>4 DEF Injection, IsInjective
  <1>6. IsFiniteSet(TornLines)
    BY TornFinite DEF AuditInv
  <1>7. IsFiniteSet(Hidden) /\ Cardinality(Hidden) <= Cardinality(TornLines)
    BY <1>5, <1>6, FS_Injection
  <1>8. /\ Cardinality(Hidden) \in Nat /\ Cardinality(TornLines) \in Nat
        /\ tears \in Nat /\ Cardinality(TornLines) <= tears
    BY <1>6, <1>7, FS_CardinalityType DEF AuditInv, TearsInv
  <1> QED BY <1>7, <1>8 DEF Hidden

\* What is counted is read back from the records alone, and says of every
\* decision what the decision was.
LEMMA ReportIsTrueHolds == ReportIsTrue
  <1> DEFINE Stopped(id) == id = Old \/ (decisions[id].effect = "deny" /\ ~decisions[id].unenforced)
             Let(id) == id # Old /\ decisions[id].effect = "deny" /\ decisions[id].unenforced
  <1>1. \A i \in DOMAIN Read : Read[i] = EntryOf(Read[i].id)
    <2> TAKE i \in DOMAIN Read
    <2>1. Read[i] = EntryOf(log[i].parts[1].id)
      BY DEF Read
    <2>2. EntryOf(log[i].parts[1].id).id = log[i].parts[1].id
      BY DEF EntryOf
    <2> QED BY <2>1, <2>2
  <1>2. \A id : /\ Breach(EntryOf(id)) /\ EntryOf(id).enforced <=> Stopped(id)
                /\ Breach(EntryOf(id)) /\ ~EntryOf(id).enforced <=> Let(id)
    <2> TAKE id
    <2>1. /\ Breach(EntryOf(id)) <=> RecordOf(id).effect = "deny"
          /\ EntryOf(id).enforced <=>
               RecordOf(id).enforced = "true"
                 \/ (RecordOf(id).effect = "deny" /\ RecordOf(id).enforced = "absent")
      BY DEF EntryOf, Breach
    <2>2. CASE id = Old
      BY <2>1, <2>2 DEF RecordOf
    <2>3. CASE id # Old
      <3>1. /\ RecordOf(id).effect = decisions[id].effect
            /\ RecordOf(id).enforced = IF decisions[id].effect # "deny" THEN "absent"
                                       ELSE IF decisions[id].unenforced THEN "false" ELSE "true"
        BY <2>3 DEF RecordOf, Attributes
      <3> QED BY <2>1, <2>3, <3>1
    <2> QED BY <2>2, <2>3
  <1>3. {i \in DOMAIN Read : Breach(Read[i]) /\ Read[i].enforced}
          = {i \in DOMAIN Read : Stopped(Read[i].id)}
    <2>1. \A i \in DOMAIN Read :
            Breach(Read[i]) /\ Read[i].enforced <=> Stopped(Read[i].id)
      BY <1>1, <1>2
    <2> HIDE DEF Stopped
    <2> QED BY <2>1
  <1>4. {i \in DOMAIN Read : Breach(Read[i]) /\ ~Read[i].enforced}
          = {i \in DOMAIN Read : Let(Read[i].id)}
    <2>1. \A i \in DOMAIN Read :
            Breach(Read[i]) /\ ~Read[i].enforced <=> Let(Read[i].id)
      BY <1>1, <1>2
    <2> HIDE DEF Let
    <2> QED BY <2>1
  <1> QED BY <1>3, <1>4 DEF ReportIsTrue, Blocked, Allowed

-----------------------------------------------------------------------------
(* The hooks.                                                              *)

\* For the log, every step of a hook is one that any writer may make.
LEMMA AuditNextKeeps ==
  ASSUME AuditInv, [HookNext]_hookVars
  PROVE  AuditInv' /\ (Kept \/ log' = log)
  <1>1. CASE UNCHANGED hookVars
    <2>1. UNCHANGED auditVars /\ UNCHANGED logVars
      BY <1>1 DEF hookVars, auditVars, logVars
    <2>2. WriterType' /\ CarriedInv'
      BY <2>1 DEF AuditInv, WriterType, CarriedInv, auditVars
    <2> QED BY <2>1, <2>2, LogFrame DEF AuditInv, auditVars
  <1>2. ASSUME NEW p \in Writers, WriterStep(p)
        PROVE  AuditInv' /\ (Kept \/ log' = log)
    <2>1. CASE Start(p)
      BY <2>1, StartKeeps DEF Start
    <2>2. CASE Act(p)
      BY <2>2, ActKeeps DEF Act
    <2>3. CASE EncodeWrites(p)
      BY <2>3, WritesKeeps
    <2>4. CASE EncodeFails(p)
      BY <2>4, FailsKeeps
    <2>5. CASE Crash(p)
      BY <2>5, CrashKeeps
    <2> QED BY <1>2, <2>1, <2>2, <2>3, <2>4, <2>5 DEF WriterStep
  <1>3. ASSUME NEW p \in Sessions, SessionStep(p)
        PROVE  AuditInv' /\ (Kept \/ log' = log)
    <2>1. p \in Writers
      BY DEF Writers
    <2>2. ASSUME NEW e, NEW u, NEW l, Decide(p, e, u, l)
          PROVE  AuditInv' /\ (Kept \/ log' = log)
      BY <2>1, <2>2, DecideKeeps DEF Decide
    <2> QED BY <1>2, <1>3, <2>1, <2>2 DEF SessionStep, SessionDecides
  <1>4. ASSUME NEW h \in Hooks, HookStep(h)
        PROVE  AuditInv' /\ (Kept \/ log' = log)
    <2>1. h \in Writers
      BY DEF Writers
    <2>2. CASE HookDecides(h)
      BY <2>1, <2>2, DecideKeeps DEF HookDecides, Decide
    <2>3. CASE PassesBy(h) \/ FailsClosed(h) \/ Panics(h) \/ HookDecidesUnrecorded(h)
      BY <2>1, <2>3, DownKeeps
         DEF PassesBy, FailsClosed, Panics, HookDecidesUnrecorded, Exits, Unrecorded
    <2>4. CASE HookStarts(h) \/ HookWrites(h) \/ HookAnswers(h)
      BY <1>2, <2>1, <2>4 DEF HookStarts, HookWrites, HookAnswers, WriterStep
    <2> QED BY <1>4, <2>2, <2>3, <2>4 DEF HookStep
  <1> QED BY <1>1, <1>3, <1>4 DEF HookNext

\* A step of another process leaves a hook where it is, and the decisions that
\* have been made what they are.
DecisionsStay ==
  /\ Len(decisions) \in Nat /\ Len(decisions') \in Nat
  /\ Len(decisions) <= Len(decisions')
  /\ \A i \in 1 .. Len(decisions) : decisions'[i] = decisions[i]

LEMMA NextKeepsDecisions ==
  ASSUME HookInv, AuditInv', [HookNext]_hookVars
  PROVE  DecisionsStay
  <1>1. Len(decisions) \in Nat /\ Len(decisions') \in Nat
    BY LenProperties DEF HookInv, AuditInv, LogType
  <1>2. CASE decisions' = decisions
    BY <1>1, <1>2 DEF DecisionsStay
  <1>3. CASE \E p, e, u, l : Decide(p, e, u, l)
    <2>1. \E d : decisions' = Append(decisions, d)
      BY <1>3 DEF Decide
    <2>2. /\ Len(decisions') = Len(decisions) + 1
          /\ \A i \in 1 .. Len(decisions) : decisions'[i] = decisions[i]
      BY <2>1, DecisionAdded DEF HookInv, AuditInv, LogType
    <2> QED BY <1>1, <2>2 DEF DecisionsStay
  <1>4. decisions' = decisions \/ \E p, e, u, l : Decide(p, e, u, l)
    <2>1. ASSUME NEW p, WriterStep(p)
          PROVE  decisions' = decisions
      BY <2>1 DEF WriterStep, Start, EncodeWrites, EncodeFails, Act, Crash
    <2>2. ASSUME NEW p \in Sessions, SessionStep(p)
          PROVE  decisions' = decisions \/ \E e, u, l : Decide(p, e, u, l)
      BY <2>1, <2>2 DEF SessionStep, SessionDecides
    <2>3. ASSUME NEW h \in Hooks, HookStep(h)
          PROVE  decisions' = decisions \/ \E e, u, l : Decide(h, e, u, l)
      <3>1. CASE HookDecides(h)
        BY <3>1 DEF HookDecides
      <3>2. CASE PassesBy(h) \/ FailsClosed(h) \/ Panics(h) \/ HookDecidesUnrecorded(h)
        BY <3>2 DEF PassesBy, FailsClosed, Panics, HookDecidesUnrecorded, Unrecorded
      <3>3. CASE HookStarts(h) \/ HookWrites(h) \/ HookAnswers(h)
        BY <2>1, <3>3 DEF HookStarts, HookWrites, HookAnswers, WriterStep
      <3> QED BY <2>3, <3>1, <3>2, <3>3 DEF HookStep
    <2>4. CASE UNCHANGED hookVars
      BY <2>4 DEF hookVars, auditVars
    <2> QED BY <2>2, <2>3, <2>4 DEF HookNext
  <1> QED BY <1>2, <1>3, <1>4

\* What a hook was started with decides what it will do.
LEMMA DecisionFixed ==
  ASSUME NEW h \in Hooks, run'[h].event = run[h].event, run'[h].config = run[h].config
  PROVE  /\ DecisionOf(h)' = DecisionOf(h) /\ (Usable(h)' <=> Usable(h))
         /\ LetThrough(h)' <=> LetThrough(h)
  <1>1. DecisionOf(h)' = DecisionOf(h) /\ (Usable(h)' <=> Usable(h))
    BY DEF DecisionOf, Usable
  <1> QED BY <1>1 DEF LetThrough

LEMMA RecordStays ==
  ASSUME HookInv, DecisionsStay, NEW g \in Hooks, run'[g] = run[g]
  PROVE  RecordOK(g)'
  <1>1. RecordOK(g)
    BY DEF HookInv, RunInv
  <1>2. run'[g].id \in 0 .. Len(decisions')
    BY <1>1 DEF RecordOK, DecisionsStay
  <1>3. run[g].id # 0 => decisions'[run[g].id] = decisions[run[g].id]
    BY <1>1 DEF RecordOK, DecisionsStay
  <1>4. DecisionOf(g)' = DecisionOf(g)
    BY DecisionFixed
  <1>5. run'[g].id # 0 =>
          /\ decisions'[run'[g].id].effect = DecisionOf(g)'.effect
          /\ decisions'[run'[g].id].unenforced <=> IsUnenforced(run'[g].config, DecisionOf(g)')
          /\ run'[g].answer \in {"none", Verdict(run'[g].config, DecisionOf(g)')}
    BY <1>1, <1>3, <1>4 DEF RecordOK
  <1> QED BY <1>2, <1>5 DEF RecordOK

\* The steps that leave a hook's run as it is: those of other processes, a
\* write of its own, well done or not, and its end.
LEMMA HookStays ==
  ASSUME HookInv, DecisionsStay, NEW g \in Hooks, run'[g] = run[g],
         \/ proc'[g] = proc[g]
         \/ proc'[g].pc = "down"
         \/ proc[g].pc = "write" /\ proc'[g].pc = "act" /\ proc'[g].hand = proc[g].hand
  PROVE  RunOK(g)' /\ RecordOK(g)'
  <1>1. RunOK(g)
    BY DEF HookInv, RunInv
  <1>2. (Usable(g)' <=> Usable(g)) /\ (LetThrough(g)' <=> LetThrough(g))
    BY DecisionFixed
  <1>3. RunOK(g)'
    BY <1>1, <1>2 DEF RunOK
  <1> QED BY <1>3, RecordStays

\* What a run of a hook that has started holds.
Fields == {"event", "config", "answer", "id"}
LEMMA StartedRun ==
  ASSUME HookInv, NEW h \in Hooks, proc[h].pc # "down"
  PROVE  /\ DOMAIN run = Hooks /\ DOMAIN run[h] = Fields
         /\ \E r \in Runs : run[h].event = r.event /\ run[h].config = r.config
         /\ proc[h].pc = "ready" => run[h].id = 0 /\ run[h].answer = "none"
         /\ proc[h].pc \in {"write", "act"} =>
              /\ run[h].id = proc[h].hand /\ run[h].id # 0
              /\ run[h].answer = "none" /\ Usable(h)
  BY DEF HookInv, RunInv, RunOK, Fields

\* A hook that answers without a decision on record.
LEMMA AnswersUnrecorded ==
  ASSUME HookInv, DecisionsStay, NEW h \in Hooks, proc[h].pc = "ready",
         NEW answer \in {"deny", "pass"}, Answer(h, answer), Exits(h),
         answer = "pass" => LetThrough(h)
  PROVE  RunOK(h)' /\ RecordOK(h)'
  <1>1. /\ run'[h] = [run[h] EXCEPT !.answer = answer] /\ proc'[h].pc = "down"
        /\ run[h].id = 0 /\ DOMAIN run[h] = Fields
        /\ \E r \in Runs : run[h].event = r.event /\ run[h].config = r.config
    BY StartedRun DEF Answer, Exits, Down, HookInv, AuditInv, WriterType, Writers
  <1>2. /\ run'[h].event = run[h].event /\ run'[h].config = run[h].config
        /\ run'[h].id = 0 /\ run'[h].answer = answer /\ DOMAIN run'[h] = Fields
    BY <1>1 DEF Fields
  <1>3. LetThrough(h)' <=> LetThrough(h)
    BY <1>2, DecisionFixed
  <1>4. RunOK(h)'
    BY <1>1, <1>2, <1>3 DEF RunOK, Fields
  <1>5. RecordOK(h)'
    BY <1>2 DEF RecordOK, DecisionsStay
  <1> QED BY <1>4, <1>5

LEMMA StartsOK ==
  ASSUME HookInv, DecisionsStay, NEW h \in Hooks, HookStarts(h)
  PROVE  RunOK(h)' /\ RecordOK(h)'
  <1>1. PICK r \in Runs : run'[h] =
          [event |-> r.event, config |-> r.config, answer |-> "none", id |-> 0]
    BY DEF HookStarts, HookInv, RunInv
  <1>2. proc'[h].pc = "ready"
    BY DEF HookStarts, Start, Down, HookInv, AuditInv, WriterType, Writers
  <1>3. RunOK(h)'
    BY <1>1, <1>2 DEF RunOK
  <1>4. RecordOK(h)'
    BY <1>1 DEF RecordOK, DecisionsStay
  <1> QED BY <1>3, <1>4

\* The record is of this decision, with what the mode makes of it.
LEMMA DecidesOK ==
  ASSUME HookInv, DecisionsStay, NEW h \in Hooks, HookDecides(h)
  PROVE  RunOK(h)' /\ RecordOK(h)'
  <1> DEFINE n == Len(decisions')
  <1>1. /\ n = Len(decisions) + 1 /\ n \in Nat
        /\ decisions'[n] = [effect |-> DecisionOf(h).effect,
                            unenforced |-> IsUnenforced(run[h].config, DecisionOf(h)),
                            long |-> FALSE]
    BY DecisionAdded DEF HookDecides, Decide, HookInv, AuditInv, LogType, DecisionsStay
  <1>2. n # 0 /\ n \in 0 .. n
    BY <1>1 DEF DecisionsStay
  <1>3. proc[h].pc = "ready" /\ Usable(h)
    BY DEF HookDecides, CanCheck, Usable
  <1>4. /\ proc'[h].pc = "write" /\ proc'[h].hand = n
        /\ run'[h] = [run[h] EXCEPT !.id = n]
    BY DEF HookDecides, Decide, HookInv, AuditInv, WriterType, RunInv, Writers
  <1> HIDE DEF n
  <1>5. /\ run'[h].event = run[h].event /\ run'[h].config = run[h].config
        /\ run'[h].id = n /\ run'[h].answer = "none" /\ DOMAIN run'[h] = Fields
        /\ \E r \in Runs : run'[h].event = r.event /\ run'[h].config = r.config
    BY <1>3, <1>4, StartedRun DEF Fields
  <1>6. DecisionOf(h)' = DecisionOf(h) /\ (Usable(h)' <=> Usable(h))
    BY <1>5, DecisionFixed
  <1>7. RunOK(h)'
    BY <1>2, <1>3, <1>4, <1>5, <1>6 DEF RunOK, Fields
  <1>8. RecordOK(h)'
    <2>1. run'[h].id \in 0 .. Len(decisions')
      BY <1>2, <1>5 DEF n
    <2>2. /\ decisions'[run'[h].id].effect = DecisionOf(h)'.effect
          /\ decisions'[run'[h].id].unenforced
               <=> IsUnenforced(run'[h].config, DecisionOf(h)')
      BY <1>1, <1>5, <1>6
    <2> QED BY <1>5, <2>1, <2>2 DEF RecordOK
  <1> QED BY <1>7, <1>8

LEMMA AnswersOK ==
  ASSUME HookInv, DecisionsStay, NEW h \in Hooks, HookAnswers(h)
  PROVE  RunOK(h)' /\ RecordOK(h)'
  <1> DEFINE v == Verdict(run[h].config, DecisionOf(h))
  <1>1. v \in {"deny", "pass"}
    BY DEF Verdict
  <1>2. /\ proc[h].pc = "act" /\ proc'[h].pc = "down" /\ decisions' = decisions
        /\ run'[h] = [run[h] EXCEPT !.answer = v]
    BY DEF HookAnswers, Act, Answer, Down, HookInv, AuditInv, WriterType, RunInv, Writers
  <1>3. /\ run'[h].event = run[h].event /\ run'[h].config = run[h].config
        /\ run'[h].id = run[h].id /\ run'[h].answer = v /\ DOMAIN run'[h] = Fields
        /\ \E r \in Runs : run'[h].event = r.event /\ run'[h].config = r.config
        /\ Usable(h)
    BY <1>2, StartedRun DEF Fields
  <1>4. DecisionOf(h)' = DecisionOf(h) /\ (LetThrough(h)' <=> LetThrough(h))
    BY <1>3, DecisionFixed
  <1>5. Verdict(run'[h].config, DecisionOf(h)') = v /\ (v = "pass" => LetThrough(h))
    BY <1>3, <1>4 DEF LetThrough
  <1> HIDE DEF v
  <1>6. RunOK(h)'
    BY <1>1, <1>2, <1>3, <1>4, <1>5 DEF RunOK, Fields
  <1>7. RecordOK(h)
    BY DEF HookInv, RunInv
  <1>8. RecordOK(h)'
    BY <1>2, <1>3, <1>4, <1>5, <1>7 DEF RecordOK
  <1> QED BY <1>6, <1>8

\* A step changes where its own process is, and the run of its own hook.
LEMMA WriterStepOthers ==
  ASSUME AuditInv, NEW p \in Writers, NEW q \in Writers, q # p,
         \/ WriterStep(p)
         \/ \E e, u, l : Decide(p, e, u, l)
         \/ Exits(p)
  PROVE  proc'[q] = proc[q]
  <1>1. CASE WriterStep(p)
    BY <1>1 DEF WriterStep, Start, EncodeWrites, EncodeFails, Act, Crash, AuditInv, WriterType
  <1>2. CASE \E e, u, l : Decide(p, e, u, l)
    BY <1>2 DEF Decide, AuditInv, WriterType
  <1>3. CASE Exits(p)
    BY <1>3 DEF Exits, AuditInv, WriterType
  <1> QED BY <1>1, <1>2, <1>3

LEMMA HookStepOthers ==
  ASSUME HookInv, NEW h \in Hooks, HookStep(h)
  PROVE  /\ DOMAIN run' = Hooks
         /\ \A g \in Hooks : g # h => run'[g] = run[g] /\ proc'[g] = proc[g]
  <1>1. DOMAIN run' = Hooks /\ \A g \in Hooks : g # h => run'[g] = run[g]
    BY DEF HookInv, RunInv, HookStep, HookStarts, PassesBy, FailsClosed, Panics, HookDecides,
       HookDecidesUnrecorded, HookWrites, HookAnswers, Answer
  <1>2. \/ WriterStep(h)
        \/ \E e, u, l : Decide(h, e, u, l)
        \/ Exits(h)
    BY DEF HookStep, HookStarts, PassesBy, FailsClosed, Panics, HookDecides,
       HookDecidesUnrecorded, HookWrites, HookAnswers, WriterStep
  <1>3. \A g \in Hooks : g # h => proc'[g] = proc[g]
    BY <1>2, WriterStepOthers DEF HookInv, Writers
  <1> QED BY <1>1, <1>3

\* A hook's own step.
LEMMA HookStepOK ==
  ASSUME HookInv, DecisionsStay, NEW h \in Hooks, HookStep(h)
  PROVE  RunOK(h)' /\ RecordOK(h)'
  <1>1. CASE HookStarts(h)
    BY <1>1, StartsOK
  <1>2. CASE PassesBy(h)
    BY <1>2, AnswersUnrecorded DEF PassesBy, LetThrough
  <1>3. CASE FailsClosed(h)
    BY <1>3, AnswersUnrecorded DEF FailsClosed
  <1>4. CASE Panics(h)
    BY <1>4, AnswersUnrecorded DEF Panics
  <1>5. CASE HookDecides(h)
    BY <1>5, DecidesOK
  <1>6. CASE HookDecidesUnrecorded(h)
    <2> DEFINE v == Verdict(run[h].config, DecisionOf(h))
    <2>1. v \in {"deny", "pass"}
      BY DEF Verdict
    <2>2. /\ proc[h].pc = "ready" /\ Answer(h, v) /\ Exits(h)
          /\ v = "pass" => LetThrough(h)
      BY <1>6 DEF HookDecidesUnrecorded, CanCheck, Usable, LetThrough
    <2> QED BY <2>1, <2>2, AnswersUnrecorded
  <1>7. CASE HookWrites(h)
    <2>1. run'[h] = run[h]
      BY <1>7 DEF HookWrites
    <2>2. \/ proc'[h].pc = "down"
          \/ proc[h].pc = "write" /\ proc'[h].pc = "act" /\ proc'[h].hand = proc[h].hand
      <3>1. h \in DOMAIN proc /\ {"pc", "broken", "hand"} = DOMAIN proc[h]
        BY DEF HookInv, AuditInv, WriterType, Writers
      <3>2. CASE EncodeWrites(h)
        BY <3>1, <3>2 DEF EncodeWrites
      <3>3. CASE EncodeFails(h)
        BY <3>1, <3>3 DEF EncodeFails
      <3>4. CASE Crash(h)
        BY <3>1, <3>4 DEF Crash, Down
      <3> QED BY <1>7, <3>2, <3>3, <3>4 DEF HookWrites
    <2> QED BY <2>1, <2>2, HookStays
  <1>8. CASE HookAnswers(h)
    BY <1>8, AnswersOK
  <1> QED BY <1>1, <1>2, <1>3, <1>4, <1>5, <1>6, <1>7, <1>8 DEF HookStep

LEMMA HookNextKeeps == HookInv /\ [HookNext]_hookVars => HookInv'
  <1> SUFFICES ASSUME HookInv, [HookNext]_hookVars
               PROVE  HookInv'
    OBVIOUS
  <1>1. AuditInv' /\ DecisionsStay
    BY AuditNextKeeps, NextKeepsDecisions DEF HookInv
  <1>2. CASE UNCHANGED hookVars
    <2>1. run' = run /\ proc' = proc
      BY <1>2 DEF hookVars, auditVars
    <2>2. \A g \in Hooks : RunOK(g)' /\ RecordOK(g)'
      BY <1>1, <2>1, HookStays
    <2> QED BY <1>1, <2>1, <2>2 DEF HookInv, RunInv
  <1>3. ASSUME NEW p \in Sessions, SessionStep(p)
        PROVE  HookInv'
    <2>1. run' = run
      BY <1>3 DEF SessionStep
    <2>2. WriterStep(p) \/ \E e, u, l : Decide(p, e, u, l)
      BY <1>3 DEF SessionStep, SessionDecides
    <2>3. \A g \in Hooks : proc'[g] = proc[g]
      BY <2>2, WriterStepOthers, AuditAssumption DEF HookInv, Writers
    <2>4. \A g \in Hooks : RunOK(g)' /\ RecordOK(g)'
      BY <1>1, <2>1, <2>3, HookStays
    <2> QED BY <1>1, <2>1, <2>4 DEF HookInv, RunInv
  <1>4. ASSUME NEW h \in Hooks, HookStep(h)
        PROVE  HookInv'
    <2>1. /\ DOMAIN run' = Hooks
          /\ \A g \in Hooks : g # h => run'[g] = run[g] /\ proc'[g] = proc[g]
      BY <1>4, HookStepOthers
    <2>2. \A g \in Hooks : g # h => RunOK(g)' /\ RecordOK(g)'
      BY <1>1, <2>1, HookStays
    <2>3. RunOK(h)' /\ RecordOK(h)'
      BY <1>1, <1>4, HookStepOK
    <2>4. \A g \in Hooks : RunOK(g)' /\ RecordOK(g)'
      BY <2>2, <2>3
    <2> QED BY <1>1, <2>1, <2>4 DEF HookInv, RunInv
  <1> QED BY <1>2, <1>3, <1>4 DEF HookNext

LEMMA HookInvariant == HookSpec => []HookInv
  <1>1. HookInit => HookInv
    <2> SUFFICES ASSUME HookInit
                 PROVE  HookInv
      OBVIOUS
    <2>1. AuditInv
      BY AuditStarts DEF HookInit
    <2>2. Len(decisions) \in Nat
      BY <2>1, LenProperties DEF AuditInv, LogType
    <2>3. \A h \in Hooks : run[h] = NoRun /\ proc[h].pc = "down" /\ run[h].id = 0
      BY DEF HookInit, AuditInit, NoRun, Down, Writers
    <2> QED BY <2>1, <2>2, <2>3 DEF HookInv, RunInv, RunOK, RecordOK, HookInit
  <1> QED BY <1>1, HookNextKeeps, PTL DEF HookSpec

-----------------------------------------------------------------------------
(* Cleaning a path from the left, and where the path leads.                *)

LEMMA EndIsNotEmpty ==
  ASSUME NEW S, NEW s \in Seq(S), NEW e \in S
  PROVE  Append(s, e) # <<>>
  BY AppendProperties

LEMMA AppendInduction ==
  ASSUME NEW S, NEW Q, <<>> \in Q,
         \A s \in Seq(S), e \in S : s \in Q => Append(s, e) \in Q
  PROVE  \A s \in Seq(S) : s \in Q
  <1> SUFFICES ASSUME NEW s \in Seq(S) PROVE s \in Q
    OBVIOUS
  <1>1. PICK n \in Nat : n = Len(s)
    BY LenProperties
  <1> DEFINE Good == {k \in 0 .. n : SubSeq(s, 1, k) \in Seq(S) /\ SubSeq(s, 1, k) \in Q}
  <1>2. 0 \in Good
    <2>1. SubSeq(s, 1, 0) = <<>> /\ <<>> \in Seq(S)
      BY SubSeqEmpty, EmptySeq
    <2>2. 0 \in 0 .. n
      OBVIOUS
    <2> QED BY <2>1, <2>2
  <1>3. ASSUME NEW k \in 0 .. n, k \in Good, k # n PROVE k + 1 \in Good
    <2>1. k + 1 \in 1 .. n /\ (k + 1) - 1 = k /\ k + 1 \in 0 .. n /\ k + 1 \in k + 1 .. n /\ 1 \in 1 .. n /\ k + 1 \in 1 .. n
      BY <1>3
    <2>2. PICK e \in S : e = s[k + 1]
      BY <1>1, <2>1, ElementOfSeq
    <2>3. PICK t \in Seq(S) : t = SubSeq(s, 1, k) /\ t \in Q
      BY <1>3
    <2>4. SubSeq(s, 1, k + 1) = Append(t, e)
      <3>1. SubSeq(s, 1, k + 1) = SubSeq(s, 1, (k + 1) - 1) \o <<s[k + 1]>>
        BY <1>1, <2>1, SubSeqRecursiveSecond
      <3>2. Append(t, e) = t \o <<e>>
        BY AppendIsConcat
      <3> QED BY <2>1, <2>2, <2>3, <3>1, <3>2
    <2>5. Append(t, e) \in Q /\ Append(t, e) \in Seq(S)
      BY <2>3, AppendProperties
    <2> QED BY <2>1, <2>4, <2>5
  <1>4. n \in Good
    <2>1. n \in 0 .. n
      OBVIOUS
    <2> HIDE DEF Good
    <2> QED BY <1>2, <1>3, <2>1, UpTo
  <1>5. SubSeq(s, 1, n) = s
    BY <1>1, SubSeqFull
  <1> QED BY <1>4, <1>5

\* The stages of cleaning a path.
LEMMA CleanRuns ==
  ASSUME NEW W, ".." \in W, NEW rooted \in BOOLEAN, NEW segs \in Seq(W)
  PROVE  \E at : /\ at[0] = <<>>
                 /\ \A k \in 1 .. Len(segs) : at[k] = CleanStep(rooted, at[k - 1], segs[k])
                 /\ Cleaned(rooted, segs) = at[Len(segs)]
  <1>0. \A done \in Seq(W), seg \in W : CleanStep(rooted, done, seg) \in Seq(W)
    <2> SUFFICES ASSUME NEW done \in Seq(W), NEW seg \in W PROVE CleanStep(rooted, done, seg) \in Seq(W)
      OBVIOUS
    <2>1. Append(done, seg) \in Seq(W) /\ Append(done, "..") \in Seq(W)
      BY AppendProperties
    <2>2. done # <<>> => Front(done) \in Seq(W)
      <3> SUFFICES ASSUME done # <<>> PROVE SubSeq(done, 1, Len(done) - 1) \in Seq(W)
        BY DEF Front
      <3>1. PICK n \in Nat : n = Len(done) - 1 /\ n + 1 = Len(done)
        BY EmptySeq
      <3>2. \A i \in 1 .. n : done[i] \in W
        BY <3>1, ElementOfSeq
      <3>3. n \in Int /\ 1 \in Int
        BY <3>1
      <3> QED BY <3>1, <3>2, <3>3, SubSeqProperties
    <2> QED BY <2>1, <2>2 DEF CleanStep
  <1>1. PICK n \in Nat : n = Len(segs) /\ DOMAIN segs = 1 .. n
    BY LenProperties
  <1>2. PICK step : step = [i \in 1 .. n |-> [x \in Seq(W) |-> CleanStep(rooted, x, segs[i])]]
    OBVIOUS
  <1>3. step \in [1 .. n -> [Seq(W) -> Seq(W)]]
    <2>1. \A i \in 1 .. n : [x \in Seq(W) |-> CleanStep(rooted, x, segs[i])] \in [Seq(W) -> Seq(W)]
      <3>1. \A i \in 1 .. n : segs[i] \in W
        BY <1>1, ElementOfSeq
      <3> QED BY <1>0, <3>1
    <2> QED BY <1>2, <2>1
  <1>4. \A i \in 1 .. n, x \in Seq(W) : step[i][x] = CleanStep(rooted, x, segs[i])
    BY <1>2
  <1>5. <<>> \in Seq(W)
    BY EmptySeq
  <1>6. PICK it \in [SUBSET (1 .. n) -> Seq(W)] : IsFoldOf(n, <<>>, step, it)
    BY <1>3, <1>5, FoldExists
  <1> DEFINE IsFold(iter) ==
               iter = [s \in SUBSET (1 .. n) |->
                         IF s = {} THEN <<>>
                         ELSE CleanStep(rooted, iter[s \ {Max(s)}], segs[Max(s)])]
  <1>7. \A s \in SUBSET (1 .. n) : s # {} => Max(s) \in 1 .. n /\ s \ {Max(s)} \in SUBSET (1 .. n)
    <2> SUFFICES ASSUME NEW s \in SUBSET (1 .. n), s # {} PROVE Max(s) \in 1 .. n
      OBVIOUS
    <2>1. s \in SUBSET (0 .. n)
      OBVIOUS
    <2> QED BY <2>1, MaxIs
  <1>8. IsFold(it)
    <2>1. \A s \in SUBSET (1 .. n) :
            s # {} => it[s] = CleanStep(rooted, it[s \ {Max(s)}], segs[Max(s)])
      BY <1>4, <1>6, <1>7 DEF IsFoldOf
    <2>2. it[{}] = <<>>
      BY <1>6 DEF IsFoldOf
    <2>3. it = [s \in SUBSET (1 .. n) |-> it[s]]
      BY <1>6
    <2> QED BY <2>1, <2>2, <2>3
  <1>9. Cleaned(rooted, segs) = (CHOOSE iter : IsFold(iter))[1 .. n]
    BY <1>1, Zenon DEF Cleaned, FoldLeft, MapThenFoldSet
  <1>10. PICK iter : IsFold(iter) /\ Cleaned(rooted, segs) = iter[1 .. n]
    <2> HIDE DEF IsFold
    <2> QED BY <1>8, <1>9, Zenon
  <1>11. PICK at : at = [k \in 0 .. n |-> iter[1 .. k]]
    OBVIOUS
  <1>12. at[0] = <<>>
    BY <1>10, <1>11
  <1>13. \A k \in 1 .. n : at[k] = CleanStep(rooted, at[k - 1], segs[k])
    <2> SUFFICES ASSUME NEW k \in 1 .. n PROVE at[k] = CleanStep(rooted, at[k - 1], segs[k])
      OBVIOUS
    <2>1. k \in 0 .. n /\ k - 1 \in 0 .. n
      OBVIOUS
    <2>2. iter[1 .. k] = CleanStep(rooted, iter[1 .. k - 1], segs[k])
      <3>1. PICK x \in SUBSET (1 .. n) :
                   x = 1 .. k /\ x # {} /\ Max(x) = k /\ x \ {k} = 1 .. k - 1
        BY StageOf
      <3>2. iter[x] = CleanStep(rooted, iter[x \ {Max(x)}], segs[Max(x)])
        BY <1>10, <3>1
      <3> QED BY <3>1, <3>2, Zenon
    <2>3. at[k] = iter[1 .. k] /\ at[k - 1] = iter[1 .. k - 1]
      BY <1>11, <2>1
    <2> QED BY <2>2, <2>3, Zenon
  <1>14. Cleaned(rooted, segs) = at[n]
    <2>1. n \in 0 .. n
      OBVIOUS
    <2> HIDE DEF IsFold
    <2> QED BY <1>10, <1>11, <2>1
  <1> QED BY <1>1, <1>12, <1>13, <1>14, Zenon

\* A path is cleaned a segment at a time.
LEMMA CleanedAppend ==
  ASSUME NEW W, ".." \in W, NEW rooted \in BOOLEAN, NEW segs \in Seq(W), NEW seg \in W
  PROVE  Cleaned(rooted, Append(segs, seg)) = CleanStep(rooted, Cleaned(rooted, segs), seg)
  <1>1. PICK n \in Nat : n = Len(segs)
    BY LenProperties
  <1>2. PICK t : t = Append(segs, seg)
    OBVIOUS
  <1>3. t \in Seq(W) /\ Len(t) = n + 1 /\ t[n + 1] = seg /\ \A i \in 1 .. n : t[i] = segs[i]
    BY <1>1, <1>2, AppendProperties
  <1>4. PICK at : /\ at[0] = <<>>
                  /\ \A k \in 1 .. n : at[k] = CleanStep(rooted, at[k - 1], segs[k])
                  /\ Cleaned(rooted, segs) = at[n]
    BY <1>1, CleanRuns
  <1>5. PICK to : /\ to[0] = <<>>
                  /\ \A k \in 1 .. n + 1 : to[k] = CleanStep(rooted, to[k - 1], t[k])
                  /\ Cleaned(rooted, t) = to[n + 1]
    <2>1. PICK m \in Nat : m = n + 1 /\ m = Len(t)
      BY <1>3
    <2>2. PICK to : /\ to[0] = <<>>
                    /\ \A k \in 1 .. m : to[k] = CleanStep(rooted, to[k - 1], t[k])
                    /\ Cleaned(rooted, t) = to[m]
      <3>1. PICK to : /\ to[0] = <<>>
                      /\ \A k \in 1 .. Len(t) : to[k] = CleanStep(rooted, to[k - 1], t[k])
                      /\ Cleaned(rooted, t) = to[Len(t)]
        BY <1>3, CleanRuns
      <3> QED BY <2>1, <3>1, Zenon
    <2> QED BY <2>1, <2>2, Zenon
  <1> DEFINE Good == {k \in 0 .. n : to[k] = at[k]}
  <1>6. 0 \in Good
    BY <1>4, <1>5
  <1>7. ASSUME NEW k \in 0 .. n, k \in Good, k # n PROVE k + 1 \in Good
    <2>1. k + 1 \in 1 .. n /\ (k + 1) - 1 = k /\ k + 1 \in 0 .. n /\ k + 1 \in 1 .. n + 1
      BY <1>7
    <2>2. at[k + 1] = CleanStep(rooted, at[k], segs[k + 1])
      BY <1>4, <2>1
    <2>3. to[k + 1] = CleanStep(rooted, to[k], t[k + 1])
      BY <1>5, <2>1
    <2>4. t[k + 1] = segs[k + 1] /\ to[k] = at[k]
      BY <1>3, <1>7, <2>1
    <2> QED BY <2>1, <2>2, <2>3, <2>4
  <1>8. n \in Good
    <2>1. n \in 0 .. n
      OBVIOUS
    <2> HIDE DEF Good
    <2> QED BY <1>6, <1>7, <2>1, UpTo
  <1>9. n + 1 \in 1 .. n + 1 /\ (n + 1) - 1 = n
    OBVIOUS
  <1>10. to[n + 1] = CleanStep(rooted, to[n], seg)
    BY <1>3, <1>5, <1>9
  <1> QED BY <1>2, <1>4, <1>5, <1>8, <1>10

LEMMA CleanedEmpty ==
  ASSUME NEW rooted \in BOOLEAN
  PROVE  Cleaned(rooted, <<>>) = <<>>
  <1>1. PICK W : W = {".."} /\ ".." \in W
    OBVIOUS
  <1>2. <<>> \in Seq(W) /\ Len(<<>>) = 0
    BY EmptySeq
  <1>3. PICK s \in Seq(W) : s = <<>> /\ Len(s) = 0
    BY <1>2
  <1>4. PICK n \in Nat : n = 0 /\ n = Len(s)
    BY <1>3
  <1>5. PICK at : /\ at[0] = <<>>
                  /\ \A k \in 1 .. Len(s) : at[k] = CleanStep(rooted, at[k - 1], s[k])
                  /\ Cleaned(rooted, s) = at[Len(s)]
    BY <1>1, CleanRuns
  <1> QED BY <1>3, <1>4, <1>5, Zenon

-----------------------------------------------------------------------------
(* Which names are left standing.  A name stands until a later ".." takes  *)
(* it back; the model of the code and the reference agree name by name.    *)

\* A segment is left out, kept or goes back.  (The prover that knows arithmetic
\* cannot read the empty string: it is met here only.)
LeftOut(seg) == seg \in {"", "."}

LEMMA StepLeftOut ==
  ASSUME NEW rooted, NEW done, NEW seg, LeftOut(seg)
  PROVE  CleanStep(rooted, done, seg) = done /\ ~IsName(seg) /\ seg # ".."
  <1>1. seg # ".."
    BY Zenon DEF LeftOut
  <1> QED BY <1>1, Zenon DEF LeftOut, CleanStep, IsName

LEMMA StepName ==
  ASSUME NEW rooted, NEW done, NEW seg, IsName(seg)
  PROVE  CleanStep(rooted, done, seg) = Append(done, seg) /\ seg # ".."
  BY Zenon DEF CleanStep, IsName

LEMMA StepUp ==
  ASSUME NEW rooted, NEW done
  PROVE  CleanStep(rooted, done, "..") = IF done # <<>> /\ Last(done) # ".." THEN Front(done)
                                         ELSE IF rooted THEN done ELSE Append(done, "..")
  <1>1. ".." \notin {"", "."}
    BY Zenon
  <1> QED BY <1>1, Zenon DEF CleanStep

LEMMA SegmentKinds ==
  ASSUME NEW seg
  PROVE  (LeftOut(seg) \/ IsName(seg) \/ seg = "..") /\ ~IsName("..")
  BY Zenon DEF LeftOut, IsName

\* How many names, and how many "..", there are from place i to place j.
NamesIn(segs, i, j) == Cardinality({k \in i .. j : IsName(segs[k])})
UpsIn(segs, i, j)   == Cardinality({k \in i .. j : segs[k] = ".."})

LEMMA CountNext ==
  ASSUME NEW segs, NEW i \in Nat, NEW j \in Nat, i <= j + 1
  PROVE  /\ NamesIn(segs, i, j) \in Nat /\ UpsIn(segs, i, j) \in Nat
         /\ NamesIn(segs, i, j + 1) =
              IF IsName(segs[j + 1]) THEN NamesIn(segs, i, j) + 1 ELSE NamesIn(segs, i, j)
         /\ UpsIn(segs, i, j + 1) =
              IF segs[j + 1] = ".." THEN UpsIn(segs, i, j) + 1 ELSE UpsIn(segs, i, j)
         /\ i = j + 1 => NamesIn(segs, i, j) = 0 /\ UpsIn(segs, i, j) = 0
  <1> DEFINE A == {k \in i .. j : IsName(segs[k])}
             B == {k \in i .. j : segs[k] = ".."}
  <1>1. IsFiniteSet(i .. j) /\ A \in SUBSET (i .. j) /\ B \in SUBSET (i .. j)
    BY FS_Interval
  <1>2. IsFiniteSet(A) /\ IsFiniteSet(B)
    BY <1>1, FS_Subset
  <1>3. Cardinality(A) \in Nat /\ Cardinality(B) \in Nat
    BY <1>2, FS_CardinalityType
  <1>4. {k \in i .. j + 1 : IsName(segs[k])} = IF IsName(segs[j + 1]) THEN A \cup {j + 1} ELSE A
    <2>1. i .. j + 1 = (i .. j) \cup {j + 1}
      OBVIOUS
    <2> QED BY <2>1
  <1>5. {k \in i .. j + 1 : segs[k] = ".."} = IF segs[j + 1] = ".." THEN B \cup {j + 1} ELSE B
    <2>1. i .. j + 1 = (i .. j) \cup {j + 1}
      OBVIOUS
    <2> QED BY <2>1
  <1>6. j + 1 \notin A /\ j + 1 \notin B
    OBVIOUS
  <1>7. i = j + 1 => A = {} /\ B = {}
    OBVIOUS
  <1> HIDE DEF A, B
  <1>8. /\ Cardinality(A \cup {j + 1}) = Cardinality(A) + 1
        /\ Cardinality(B \cup {j + 1}) = Cardinality(B) + 1
    BY <1>2, <1>6, FS_AddElement
  <1>9. NamesIn(segs, i, j) = Cardinality(A) /\ UpsIn(segs, i, j) = Cardinality(B)
    BY DEF NamesIn, UpsIn, A, B
  <1>10. NamesIn(segs, i, j + 1) =
           IF IsName(segs[j + 1]) THEN Cardinality(A) + 1 ELSE Cardinality(A)
    BY <1>4, <1>8 DEF NamesIn
  <1>11. UpsIn(segs, i, j + 1) = IF segs[j + 1] = ".." THEN Cardinality(B) + 1 ELSE Cardinality(B)
    BY <1>5, <1>8 DEF UpsIn
  <1> QED BY <1>3, <1>7, <1>9, <1>10, <1>11, FS_EmptySet

\* The place k + 1 alone.
LEMMA CountAlone ==
  ASSUME NEW segs, NEW k \in Nat
  PROVE  /\ NamesIn(segs, k + 1, k + 1) = IF IsName(segs[k + 1]) THEN 1 ELSE 0
         /\ UpsIn(segs, k + 1, k + 1) = IF segs[k + 1] = ".." THEN 1 ELSE 0
  <1>1. PICK i \in Nat : i = k + 1 /\ i <= k + 1
    OBVIOUS
  <1>2. NamesIn(segs, i, k) = 0 /\ UpsIn(segs, i, k) = 0
    BY <1>1, CountNext, Zenon
  <1>3. NamesIn(segs, i, k + 1) =
          IF IsName(segs[k + 1]) THEN NamesIn(segs, i, k) + 1 ELSE NamesIn(segs, i, k)
    BY <1>1, CountNext, Zenon
  <1>4. UpsIn(segs, i, k + 1) =
          IF segs[k + 1] = ".." THEN UpsIn(segs, i, k) + 1 ELSE UpsIn(segs, i, k)
    BY <1>1, CountNext, Zenon
  <1>5. /\ NamesIn(segs, i, k + 1) = IF IsName(segs[k + 1]) THEN 0 + 1 ELSE 0
        /\ UpsIn(segs, i, k + 1) = IF segs[k + 1] = ".." THEN 0 + 1 ELSE 0
    BY <1>2, <1>3, <1>4, Zenon
  <1>6. 0 + 1 = 1
    OBVIOUS
  <1> QED BY <1>1, <1>5, <1>6, Zenon

LEMMA CountWithin ==
  ASSUME NEW segs, NEW k \in Nat, NEW i \in 1 .. k
  PROVE  /\ NamesIn(segs, i, k) \in Nat /\ UpsIn(segs, i, k) \in Nat
         /\ NamesIn(segs, i, k + 1) =
              IF IsName(segs[k + 1]) THEN NamesIn(segs, i, k) + 1 ELSE NamesIn(segs, i, k)
         /\ UpsIn(segs, i, k + 1) =
              IF segs[k + 1] = ".." THEN UpsIn(segs, i, k) + 1 ELSE UpsIn(segs, i, k)
  <1>1. i \in Nat /\ i <= k + 1
    OBVIOUS
  <1> QED BY <1>1, CountNext

\* The name at place i is still there at place k.
StaysTo(segs, i, k) ==
  IsName(segs[i]) /\ \A j \in i .. k : NamesIn(segs, i, j) > UpsIn(segs, i, j)

LEMMA StaysNext ==
  ASSUME NEW segs, NEW i \in Nat, NEW k \in Nat, i <= k
  PROVE  StaysTo(segs, i, k + 1) <=>
           StaysTo(segs, i, k) /\ NamesIn(segs, i, k + 1) > UpsIn(segs, i, k + 1)
  <1>1. i .. k + 1 = (i .. k) \cup {k + 1}
    OBVIOUS
  <1> QED BY <1>1 DEF StaysTo

LEMMA StaysSelf ==
  ASSUME NEW segs, NEW k \in Nat
  PROVE  StaysTo(segs, k + 1, k + 1) <=> IsName(segs[k + 1])
  <1>1. (k + 1) .. (k + 1) = {k + 1}
    OBVIOUS
  <1>2. IsName(segs[k + 1]) => segs[k + 1] # ".."
    BY StepName
  <1>3. IsName(segs[k + 1]) => NamesIn(segs, k + 1, k + 1) = 1 /\ UpsIn(segs, k + 1, k + 1) = 0
    BY <1>2, CountAlone, Zenon
  <1> QED BY <1>1, <1>3 DEF StaysTo

\* The places, among the first k, of the names one stands in after them; the
\* nearer to the end a place is, the fewer ".." it takes to leave it.
Standing(segs, k, p) ==
  /\ p \in Seq(1 .. k)
  /\ \A a, b \in 1 .. Len(p) : a < b => p[a] < p[b]
  /\ \A i \in 1 .. k : StaysTo(segs, i, k) <=> \E m \in 1 .. Len(p) : p[m] = i
  /\ \A m \in 1 .. Len(p) :
       NamesIn(segs, p[m], k) = UpsIn(segs, p[m], k) + (Len(p) - m) + 1

At(segs, p) == [m \in 1 .. Len(p) |-> segs[p[m]]]

\* A segment that is no name and does not go back.
LEMMA StandNoise ==
  ASSUME NEW segs, NEW k \in Nat, NEW p, Standing(segs, k, p), LeftOut(segs[k + 1])
  PROVE  Standing(segs, k + 1, p) /\ At(segs, p) = CleanStep(TRUE, At(segs, p), segs[k + 1])
  <1>1. PICK l \in Nat : l = Len(p) /\ \A m \in 1 .. l : p[m] \in 1 .. k
    BY LenProperties, ElementOfSeq DEF Standing
  <1>2. p \in Seq(1 .. k + 1)
    <2>1. 1 .. k \subseteq 1 .. k + 1
      OBVIOUS
    <2> QED BY <2>1, SeqMonotonic DEF Standing
  <1>3. ~IsName(segs[k + 1]) /\ segs[k + 1] # ".."
    BY StepLeftOut
  <1>4. \A i \in 1 .. k : /\ NamesIn(segs, i, k + 1) = NamesIn(segs, i, k)
                          /\ UpsIn(segs, i, k + 1) = UpsIn(segs, i, k)
    BY <1>3, CountWithin
  <1>5. ASSUME NEW i \in 1 .. k + 1
        PROVE  StaysTo(segs, i, k + 1) <=> \E m \in 1 .. l : p[m] = i
    <2>1. CASE i = k + 1
      BY <1>1, <1>3, <2>1, StaysSelf
    <2>2. CASE i # k + 1
      <3>1. i \in 1 .. k /\ i \in Nat /\ i <= k /\ k \in i .. k
        BY <2>2
      <3>2. StaysTo(segs, i, k) => NamesIn(segs, i, k) > UpsIn(segs, i, k)
        BY <3>1 DEF StaysTo
      <3>3. StaysTo(segs, i, k + 1) <=> StaysTo(segs, i, k)
        BY <1>4, <3>1, <3>2, StaysNext
      <3> QED BY <1>1, <3>1, <3>3 DEF Standing
    <2> QED BY <2>1, <2>2
  <1>6. \A m \in 1 .. l : NamesIn(segs, p[m], k + 1) = UpsIn(segs, p[m], k + 1) + (l - m) + 1
    BY <1>1, <1>4 DEF Standing
  <1>7. Standing(segs, k + 1, p)
    BY <1>1, <1>2, <1>5, <1>6 DEF Standing
  <1> QED BY <1>7, StepLeftOut

\* A name.
LEMMA StandName ==
  ASSUME NEW segs, NEW k \in Nat, NEW p, Standing(segs, k, p), IsName(segs[k + 1])
  PROVE  /\ Standing(segs, k + 1, Append(p, k + 1))
         /\ At(segs, Append(p, k + 1)) = CleanStep(TRUE, At(segs, p), segs[k + 1])
  <1>1. PICK l \in Nat : l = Len(p) /\ \A m \in 1 .. l : p[m] \in 1 .. k
    BY LenProperties, ElementOfSeq DEF Standing
  <1>2. PICK q : q = Append(p, k + 1)
    OBVIOUS
  <1>3. /\ q \in Seq(1 .. k + 1) /\ Len(q) = l + 1
        /\ q[l + 1] = k + 1 /\ \A m \in 1 .. l : q[m] = p[m]
    <2>1. 1 .. k \subseteq 1 .. k + 1 /\ k + 1 \in 1 .. k + 1
      OBVIOUS
    <2>2. p \in Seq(1 .. k + 1)
      BY <2>1, SeqMonotonic DEF Standing
    <2> QED BY <1>1, <1>2, <2>1, <2>2, AppendProperties
  <1>4. segs[k + 1] # ".."
    BY StepName
  <1>5. \A i \in 1 .. k : /\ NamesIn(segs, i, k) \in Nat /\ UpsIn(segs, i, k) \in Nat
                          /\ NamesIn(segs, i, k + 1) = NamesIn(segs, i, k) + 1
                          /\ UpsIn(segs, i, k + 1) = UpsIn(segs, i, k)
    BY <1>4, CountWithin
  <1>6. /\ NamesIn(segs, k + 1, k + 1) = 1 /\ UpsIn(segs, k + 1, k + 1) = 0
    BY <1>4, CountAlone, Zenon
  <1>7. \A a, b \in 1 .. l + 1 : a < b => q[a] < q[b]
    <2> SUFFICES ASSUME NEW a \in 1 .. l + 1, NEW b \in 1 .. l + 1, a < b PROVE q[a] < q[b]
      OBVIOUS
    <2>1. a \in 1 .. l /\ p[a] \in 1 .. k
      BY <1>1
    <2>2. CASE b = l + 1
      BY <1>3, <2>1, <2>2
    <2>3. CASE b # l + 1
      <3>1. b \in 1 .. l
        BY <2>3
      <3> QED BY <1>1, <1>3, <2>1, <3>1 DEF Standing
    <2> QED BY <2>2, <2>3
  <1>8. ASSUME NEW i \in 1 .. k + 1
        PROVE  StaysTo(segs, i, k + 1) <=> \E m \in 1 .. l + 1 : q[m] = i
    <2>1. CASE i = k + 1
      <3>1. l + 1 \in 1 .. l + 1
        OBVIOUS
      <3> QED BY <1>3, <2>1, <3>1, StaysSelf
    <2>2. CASE i # k + 1
      <3>1. i \in 1 .. k /\ i \in Nat /\ i <= k /\ k \in i .. k
        BY <2>2
      <3>2. StaysTo(segs, i, k) => NamesIn(segs, i, k) > UpsIn(segs, i, k)
        BY <3>1 DEF StaysTo
      <3>3. StaysTo(segs, i, k + 1) <=> StaysTo(segs, i, k)
        BY <1>5, <3>1, <3>2, StaysNext
      <3>4. (\E m \in 1 .. l + 1 : q[m] = i) <=> \E m \in 1 .. l : p[m] = i
        <4>1. 1 .. l + 1 = (1 .. l) \cup {l + 1}
          OBVIOUS
        <4> QED BY <1>3, <2>2, <4>1
      <3> QED BY <1>1, <3>1, <3>3, <3>4 DEF Standing
    <2> QED BY <2>1, <2>2
  <1>9. ASSUME NEW m \in 1 .. l + 1
        PROVE  NamesIn(segs, q[m], k + 1) = UpsIn(segs, q[m], k + 1) + ((l + 1) - m) + 1
    <2>1. CASE m = l + 1
      BY <1>3, <1>6, <2>1
    <2>2. CASE m # l + 1
      <3>1. m \in 1 .. l
        BY <2>2
      <3>2. PICK i \in 1 .. k : i = p[m] /\ i = q[m]
        BY <1>1, <1>3, <3>1
      <3>3. NamesIn(segs, i, k) = UpsIn(segs, i, k) + (l - m) + 1
        BY <1>1, <3>1, <3>2 DEF Standing
      <3>4. /\ NamesIn(segs, i, k) \in Nat /\ UpsIn(segs, i, k) \in Nat
            /\ NamesIn(segs, i, k + 1) = NamesIn(segs, i, k) + 1
            /\ UpsIn(segs, i, k + 1) = UpsIn(segs, i, k)
        BY <1>5, Zenon
      <3>5. NamesIn(segs, i, k + 1) = UpsIn(segs, i, k + 1) + ((l + 1) - m) + 1
        BY <3>1, <3>3, <3>4
      <3> QED BY <3>2, <3>5, Zenon
    <2> QED BY <2>1, <2>2
  <1>10. Standing(segs, k + 1, q)
    BY <1>3, <1>7, <1>8, <1>9 DEF Standing
  <1>11. At(segs, q) = Append(At(segs, p), segs[k + 1])
    <2> DEFINE V == {segs[i] : i \in 1 .. k + 1}
    <2>1. At(segs, p) = [m \in 1 .. l |-> segs[p[m]]] /\ At(segs, q) = [m \in 1 .. l + 1 |-> segs[q[m]]]
      BY <1>1, <1>3 DEF At
    <2>2. \A m \in 1 .. l : segs[p[m]] \in V
      BY <1>1
    <2>3. \A m \in 1 .. l + 1 : segs[q[m]] \in V
      <3>1. \A m \in 1 .. l + 1 : q[m] \in 1 .. k + 1
        BY <1>3, ElementOfSeq
      <3> QED BY <3>1
    <2>4. segs[k + 1] \in V
      BY <1>3
    <2> HIDE DEF V
    <2>5. At(segs, p) \in Seq(V) /\ At(segs, q) \in Seq(V)
      BY <2>1, <2>2, <2>3
    <2>6. Len(At(segs, p)) = l /\ Len(At(segs, q)) = l + 1
      BY <2>1, <2>5, LenProperties
    <2>7. PICK t : t = Append(At(segs, p), segs[k + 1])
      OBVIOUS
    <2>8. /\ t \in Seq(V) /\ Len(t) = l + 1 /\ t[l + 1] = segs[k + 1]
          /\ \A m \in 1 .. l : t[m] = segs[p[m]]
      BY <2>1, <2>4, <2>5, <2>6, <2>7, AppendProperties
    <2>9. \A m \in 1 .. l + 1 : t[m] = At(segs, q)[m]
      <3> SUFFICES ASSUME NEW m \in 1 .. l + 1 PROVE t[m] = At(segs, q)[m]
        OBVIOUS
      <3>1. m \in 1 .. l \/ m = l + 1
        OBVIOUS
      <3>2. At(segs, q)[m] = segs[q[m]]
        BY <2>1
      <3>3. CASE m \in 1 .. l
        <4>1. t[m] = segs[p[m]]
          BY <2>8, <3>3
        <4>2. q[m] = p[m]
          BY <1>3, <3>3
        <4> QED BY <3>2, <4>1, <4>2, Zenon
      <3>4. CASE m = l + 1
        BY <1>3, <2>8, <3>2, <3>4, Zenon
      <3> QED BY <3>1, <3>3, <3>4
    <2> QED BY <2>5, <2>6, <2>7, <2>8, <2>9, SeqEqual
  <1>12. CleanStep(TRUE, At(segs, p), segs[k + 1]) = Append(At(segs, p), segs[k + 1])
    BY StepName
  <1> QED BY <1>2, <1>10, <1>11, <1>12

\* A "..": one stands in the folder above, or still at the root.
LEMMA StandUp ==
  ASSUME NEW segs, NEW k \in Nat, NEW p, Standing(segs, k, p), segs[k + 1] = ".."
  PROVE  \E q : /\ Standing(segs, k + 1, q)
                /\ At(segs, q) = CleanStep(TRUE, At(segs, p), segs[k + 1])
  <1>1. PICK l \in Nat : l = Len(p) /\ \A m \in 1 .. l : p[m] \in 1 .. k
    BY LenProperties, ElementOfSeq DEF Standing
  <1>2. ~IsName(segs[k + 1])
    BY SegmentKinds
  <1>3. \A i \in 1 .. k : /\ NamesIn(segs, i, k) \in Nat /\ UpsIn(segs, i, k) \in Nat
                          /\ NamesIn(segs, i, k + 1) = NamesIn(segs, i, k)
                          /\ UpsIn(segs, i, k + 1) = UpsIn(segs, i, k) + 1
    BY <1>2, CountWithin
  <1>4. PICK n \in Nat : n = IF l = 0 THEN 0 ELSE l - 1
    BY <1>1
  <1>5. PICK q : q = SubSeq(p, 1, n)
    OBVIOUS
  <1>6. /\ q \in Seq(1 .. k + 1) /\ Len(q) = n
        /\ \A m \in 1 .. n : m \in 1 .. l /\ q[m] = p[m]
    <2>1. \A m \in 1 .. n : m \in 1 .. l
      BY <1>1, <1>4
    <2>2. \A m \in 1 .. n : p[m] \in 1 .. k + 1
      BY <1>1, <2>1
    <2>3. n \in Int /\ 1 \in Int /\ n - 1 + 1 = n /\ (1 <= n => n - 1 + 1 = n) /\ (~(1 <= n) => n = 0)
      BY <1>4
    <2>4. /\ q \in Seq(1 .. k + 1) /\ Len(q) = IF 1 <= n THEN n - 1 + 1 ELSE 0
          /\ \A m \in 1 .. n - 1 + 1 : q[m] = p[1 + m - 1]
      BY <1>5, <2>2, <2>3, SubSeqProperties
    <2>5. Len(q) = n
      BY <2>3, <2>4
    <2>6. \A m \in 1 .. n : q[m] = p[m]
      <3>1. \A m \in 1 .. n : 1 + m - 1 = m
        OBVIOUS
      <3> QED BY <2>3, <2>4, <3>1
    <2> QED BY <2>1, <2>4, <2>5, <2>6
  <1>7. ASSUME NEW m \in 1 .. l
        PROVE  /\ StaysTo(segs, p[m], k)
               /\ NamesIn(segs, p[m], k + 1) + 1 = UpsIn(segs, p[m], k + 1) + (l - m) + 1
               /\ StaysTo(segs, p[m], k + 1) <=> m <= n
    <2>1. p[m] \in 1 .. k /\ p[m] \in Nat /\ p[m] <= k
      BY <1>1
    <2>2. NamesIn(segs, p[m], k) = UpsIn(segs, p[m], k) + (l - m) + 1 /\ StaysTo(segs, p[m], k)
      BY <1>1, <2>1 DEF Standing
    <2>3. /\ NamesIn(segs, p[m], k) \in Nat /\ UpsIn(segs, p[m], k) \in Nat
          /\ NamesIn(segs, p[m], k + 1) = NamesIn(segs, p[m], k)
          /\ UpsIn(segs, p[m], k + 1) = UpsIn(segs, p[m], k) + 1
      BY <1>3, <2>1
    <2>4. StaysTo(segs, p[m], k + 1) <=> NamesIn(segs, p[m], k + 1) > UpsIn(segs, p[m], k + 1)
      BY <2>1, <2>2, StaysNext
    <2>5. NamesIn(segs, p[m], k + 1) > UpsIn(segs, p[m], k + 1) <=> m <= n
      BY <1>1, <1>4, <2>2, <2>3
    <2> QED BY <2>2, <2>3, <2>4, <2>5
  <1>8. ASSUME NEW i \in 1 .. k + 1
        PROVE  StaysTo(segs, i, k + 1) <=> \E m \in 1 .. n : q[m] = i
    <2>1. CASE i = k + 1
      <3>1. \A m \in 1 .. n : q[m] \in 1 .. k
        BY <1>1, <1>6
      <3>2. ~(\E m \in 1 .. n : q[m] = i)
        BY <2>1, <3>1
      <3> QED BY <1>2, <2>1, <3>2, StaysSelf
    <2>2. CASE i # k + 1
      <3>1. i \in 1 .. k /\ i \in Nat /\ i <= k
        BY <2>2
      <3>2. ASSUME StaysTo(segs, i, k + 1) PROVE \E m \in 1 .. n : q[m] = i
        <4>1. StaysTo(segs, i, k)
          BY <3>1, <3>2, StaysNext
        <4>2. PICK m \in 1 .. l : p[m] = i
          BY <1>1, <3>1, <4>1 DEF Standing
        <4>3. m \in 1 .. n
          BY <1>7, <3>2, <4>2
        <4> QED BY <1>6, <4>2, <4>3
      <3>3. ASSUME NEW m \in 1 .. n, q[m] = i PROVE StaysTo(segs, i, k + 1)
        <4>1. m \in 1 .. l /\ p[m] = i /\ m <= n
          BY <1>6, <3>3
        <4> QED BY <1>7, <4>1
      <3> QED BY <3>2, <3>3
    <2> QED BY <2>1, <2>2
  <1>9. \A m \in 1 .. n : NamesIn(segs, q[m], k + 1) = UpsIn(segs, q[m], k + 1) + (n - m) + 1
    <2> SUFFICES ASSUME NEW m \in 1 .. n
                 PROVE  NamesIn(segs, q[m], k + 1) = UpsIn(segs, q[m], k + 1) + (n - m) + 1
      OBVIOUS
    <2>1. m \in 1 .. l /\ q[m] = p[m] /\ n = l - 1 /\ p[m] \in 1 .. k
      BY <1>1, <1>4, <1>6
    <2>2. NamesIn(segs, p[m], k + 1) + 1 = UpsIn(segs, p[m], k + 1) + (l - m) + 1
      BY <1>7, <2>1
    <2>3. NamesIn(segs, p[m], k + 1) \in Nat /\ UpsIn(segs, p[m], k + 1) \in Nat
      BY <1>3, <2>1
    <2> QED BY <2>1, <2>2, <2>3
  <1>10. \A a, b \in 1 .. n : a < b => q[a] < q[b]
    <2>1. \A a, b \in 1 .. l : a < b => p[a] < p[b]
      BY <1>1 DEF Standing
    <2> QED BY <1>6, <2>1
  <1>11. Standing(segs, k + 1, q)
    BY <1>6, <1>8, <1>9, <1>10 DEF Standing
  <1>12. At(segs, q) = CleanStep(TRUE, At(segs, p), segs[k + 1])
    <2> DEFINE V == {segs[i] : i \in 1 .. k + 1}
               d == At(segs, p)
    <2>1. d = [m \in 1 .. l |-> segs[p[m]]] /\ At(segs, q) = [m \in 1 .. n |-> segs[q[m]]]
      BY <1>1, <1>6 DEF At
    <2>2. (\A m \in 1 .. l : segs[p[m]] \in V) /\ (\A m \in 1 .. n : segs[q[m]] \in V)
      BY <1>1, <1>6
    <2> HIDE DEF V, d
    <2>3. d \in Seq(V) /\ At(segs, q) \in Seq(V)
      BY <2>1, <2>2
    <2>4. Len(d) = l /\ Len(At(segs, q)) = n
      BY <2>1, <2>3, LenProperties
    <2>5. CASE l = 0
      <3>1. d = <<>> /\ At(segs, q) = <<>>
        BY <1>4, <2>3, <2>4, <2>5, EmptySeq
      <3> QED BY <3>1, StepUp DEF d
    <2>6. CASE l # 0
      <3>1. n = l - 1 /\ l \in 1 .. l /\ l >= 1
        BY <1>4, <2>6
      <3>2. IsName(segs[p[l]])
        BY <1>7, <3>1 DEF StaysTo
      <3>3. d # <<>> /\ Last(d) # ".."
        BY <2>1, <2>4, <2>6, <3>1, <3>2, EmptySeq, StepName DEF Last
      <3>4. CleanStep(TRUE, d, segs[k + 1]) = SubSeq(d, 1, n)
        BY <2>4, <3>1, <3>3, StepUp DEF Front
      <3>5. PICK t : t = SubSeq(d, 1, n)
        OBVIOUS
      <3>6. t \in Seq(V) /\ Len(t) = n /\ \A m \in 1 .. n : t[m] = d[m]
        <4>1. \A m \in 1 .. n : d[m] \in V
          BY <1>6, <2>3, <2>4, ElementOfSeq
        <4>2. n \in Int /\ 1 \in Int /\ n - 1 + 1 = n /\ (~(1 <= n) => n = 0) /\ \A m \in 1 .. n : 1 + m - 1 = m
          BY <1>4
        <4>3. /\ t \in Seq(V) /\ Len(t) = IF 1 <= n THEN n - 1 + 1 ELSE 0
              /\ \A m \in 1 .. n - 1 + 1 : t[m] = d[1 + m - 1]
          BY <3>5, <4>1, <4>2, SubSeqProperties
        <4>4. Len(t) = n
          BY <4>2, <4>3
        <4> QED BY <4>2, <4>3, <4>4
      <3>7. \A m \in 1 .. n : t[m] = At(segs, q)[m]
        <4> SUFFICES ASSUME NEW m \in 1 .. n PROVE t[m] = At(segs, q)[m]
          OBVIOUS
        <4>1. m \in 1 .. l /\ q[m] = p[m]
          BY <1>6
        <4>2. t[m] = d[m]
          BY <3>6
        <4>3. d[m] = segs[p[m]]
          BY <2>1, <4>1
        <4>4. At(segs, q)[m] = segs[q[m]]
          BY <2>1
        <4> QED BY <4>1, <4>2, <4>3, <4>4, Zenon
      <3>8. t = At(segs, q)
        BY <2>3, <2>4, <3>6, <3>7, SeqEqual
      <3> QED BY <3>4, <3>5, <3>8 DEF d
    <2> QED BY <2>5, <2>6
  <1> QED BY <1>11, <1>12

\* The places of an ascending sequence, counted.
LEMMA Ranks ==
  ASSUME NEW l \in Nat, NEW p \in [1 .. l -> Nat],
         \A a, b \in 1 .. l : a < b => p[a] < p[b]
  PROVE  /\ Cardinality({p[m] : m \in 1 .. l}) = l
         /\ \A m \in 1 .. l : Nth({p[x] : x \in 1 .. l}, m) = p[m]
  <1> DEFINE T(m) == {p[x] : x \in 1 .. m}
             S    == T(l)
  <1>1. ASSUME NEW a \in 1 .. l, NEW b \in 1 .. l, p[a] <= p[b] PROVE a <= b
    <2>1. p[a] \in Nat /\ p[b] \in Nat /\ a \in Nat /\ b \in Nat
      OBVIOUS
    <2>2. b < a => p[b] < p[a]
      OBVIOUS
    <2> QED BY <1>1, <2>1, <2>2
  <1>2. ASSUME NEW m \in 0 .. l PROVE Cardinality(T(m)) = m
    <2>1. PICK f : f = [x \in 1 .. m |-> p[x]]
      OBVIOUS
    <2>2. m \in Nat /\ 1 .. m \subseteq 1 .. l
      OBVIOUS
    <2>3. \A a, b \in 1 .. m : f[a] = f[b] => a = b
      <3> SUFFICES ASSUME NEW a \in 1 .. m, NEW b \in 1 .. m, f[a] = f[b] PROVE a = b
        OBVIOUS
      <3>1. a \in 1 .. l /\ b \in 1 .. l /\ p[a] = p[b] /\ p[a] \in Nat
        BY <2>1, <2>2
      <3>2. p[a] <= p[b] /\ p[b] <= p[a]
        BY <3>1
      <3>3. a <= b /\ b <= a
        BY <1>1, <3>1, <3>2
      <3> QED BY <3>1, <3>3
    <2>4. f \in [1 .. m -> T(m)] /\ \A t \in T(m) : \E x \in 1 .. m : f[x] = t
      BY <2>1
    <2> HIDE DEF T
    <2>5. f \in Bijection(1 .. m, T(m))
      BY <2>3, <2>4 DEF Bijection, Injection, Surjection, IsInjective
    <2>6. ExistsBijection(1 .. m, T(m))
      BY <2>5 DEF ExistsBijection
    <2>7. IsFiniteSet(1 .. m) /\ Cardinality(1 .. m) = m
      <3>1. 1 \in Int /\ m \in Int /\ (1 > m => m = 0) /\ m - 1 + 1 = m
        BY <2>2
      <3>2. IsFiniteSet(1 .. m) /\ Cardinality(1 .. m) = IF 1 > m THEN 0 ELSE m - 1 + 1
        BY <3>1, FS_Interval
      <3> QED BY <3>1, <3>2
    <2> QED BY <2>6, <2>7, FS_Bijection
  <1>3. ASSUME NEW m \in 1 .. l PROVE {j \in S : j <= p[m]} = T(m)
    <2>1. ASSUME NEW j \in S, j <= p[m] PROVE j \in T(m)
      <3>1. PICK x \in 1 .. l : j = p[x]
        OBVIOUS
      <3>2. x <= m
        BY <1>1, <2>1, <3>1
      <3>3. x \in 1 .. m
        BY <3>2
      <3> QED BY <3>1, <3>3
    <2>2. ASSUME NEW x \in 1 .. m PROVE p[x] \in S /\ p[x] <= p[m]
      <3>1. x \in 1 .. l /\ p[x] \in Nat /\ p[m] \in Nat
        OBVIOUS
      <3>2. x < m => p[x] < p[m]
        BY <3>1
      <3>3. x = m \/ x < m
        OBVIOUS
      <3> QED BY <3>1, <3>2, <3>3
    <2> QED BY <2>1, <2>2
  <1>4. ASSUME NEW m \in 1 .. l PROVE Nth(S, m) = p[m]
    <2> DEFINE Ranked(i) == Cardinality({j \in S : j <= i}) = m
    <2>1. ASSUME NEW x \in 1 .. l PROVE p[x] \in S /\ (Ranked(p[x]) <=> x = m)
      <3>1. x \in 0 .. l
        OBVIOUS
      <3>2. {j \in S : j <= p[x]} = T(x)
        BY <1>3
      <3>3. Cardinality(T(x)) = x
        BY <1>2, <3>1
      <3> HIDE DEF T, S
      <3>4. Ranked(p[x]) <=> x = m
        BY <3>2, <3>3
      <3>5. p[x] \in S
        BY DEF S, T
      <3> QED BY <3>4, <3>5
    <2>2. \A i \in S : \E x \in 1 .. l : i = p[x]
      OBVIOUS
    <2>3. Nth(S, m) = CHOOSE i \in S : Ranked(i)
      BY DEF Nth
    <2> HIDE DEF S, T, Ranked
    <2>4. \E i \in S : Ranked(i)
      BY <2>1
    <2>5. Nth(S, m) \in S /\ Ranked(Nth(S, m))
      BY <2>3, <2>4
    <2> QED BY <2>1, <2>2, <2>5
  <1>5. Cardinality(T(l)) = l
    <2>1. l \in 0 .. l
      OBVIOUS
    <2> HIDE DEF T
    <2> QED BY <1>2, <2>1
  <1> QED BY <1>4, <1>5

\* What the code makes of a rooted path is where it leads.
LEMMA CleanedIsPlace ==
  ASSUME NEW W, ".." \in W, NEW segs \in Seq(W)
  PROVE  /\ Cleaned(TRUE, segs) = Place(segs)
         /\ Place(segs) \in Seq({seg \in W : IsName(seg)})
  <1>1. PICK n \in Nat : n = Len(segs) /\ DOMAIN segs = 1 .. n
    BY LenProperties
  <1>2. PICK at : /\ at[0] = <<>>
                  /\ \A k \in 1 .. n : at[k] = CleanStep(TRUE, at[k - 1], segs[k])
                  /\ Cleaned(TRUE, segs) = at[n]
    BY <1>1, CleanRuns
  <1> DEFINE Stands(k) == \E p : Standing(segs, k, p) /\ at[k] = At(segs, p)
             Good == {k \in 0 .. n : Stands(k)}
  <1>3. 0 \in Good
    <2>1. <<>> \in Seq(1 .. 0) /\ Len(<<>>) = 0 /\ 1 .. 0 = {}
      BY EmptySeq
    <2>2. Standing(segs, 0, <<>>)
      BY <2>1 DEF Standing
    <2>3. At(segs, <<>>) = <<>>
      BY <2>1 DEF At
    <2> QED BY <1>2, <2>2, <2>3
  <1>4. ASSUME NEW k \in 0 .. n, Stands(k), k # n PROVE k + 1 \in 0 .. n /\ Stands(k + 1)
    <2>1. PICK p : Standing(segs, k, p) /\ at[k] = At(segs, p)
      BY <1>4
    <2>2. k \in Nat /\ k + 1 \in 1 .. n /\ (k + 1) - 1 = k /\ k + 1 \in 0 .. n
      BY <1>4
    <2>3. at[k + 1] = CleanStep(TRUE, At(segs, p), segs[k + 1])
      BY <1>2, <2>1, <2>2
    <2>4. \E q : /\ Standing(segs, k + 1, q)
                 /\ At(segs, q) = CleanStep(TRUE, At(segs, p), segs[k + 1])
      <3>1. CASE LeftOut(segs[k + 1])
        BY <2>1, <2>2, <3>1, StandNoise
      <3>2. CASE IsName(segs[k + 1])
        BY <2>1, <2>2, <3>2, StandName
      <3>3. CASE segs[k + 1] = ".."
        BY <2>1, <2>2, <3>3, StandUp
      <3> QED BY <3>1, <3>2, <3>3, SegmentKinds
    <2> QED BY <2>2, <2>3, <2>4
  <1>5. n \in Good
    <2>1. n \in 0 .. n
      OBVIOUS
    <2> HIDE DEF Stands
    <2>2. \A k \in 0 .. n : k \in Good /\ k # n => k + 1 \in Good
      BY <1>4
    <2> HIDE DEF Good
    <2> QED BY <1>3, <2>1, <2>2, UpTo
  <1>6. PICK p : Standing(segs, n, p) /\ Cleaned(TRUE, segs) = At(segs, p)
    BY <1>2, <1>5
  <1>7. PICK l \in Nat : /\ l = Len(p) /\ p \in [1 .. l -> 1 .. n]
                         /\ \A m \in 1 .. l : p[m] \in 1 .. n
    <2>1. p \in Seq(1 .. n)
      BY <1>6 DEF Standing
    <2>2. PICK l \in Nat : l = Len(p) /\ p \in [1 .. l -> 1 .. n]
      BY <2>1, LenProperties
    <2>3. \A m \in 1 .. l : p[m] \in 1 .. n
      BY <2>2
    <2> QED BY <2>2, <2>3, Zenon
  <1>8. PICK S : S = {p[m] : m \in 1 .. l}
    OBVIOUS
  <1>9. Cardinality(S) = l /\ \A m \in 1 .. l : Nth(S, m) = p[m]
    <2>1. p \in [1 .. l -> Nat] /\ \A a, b \in 1 .. l : a < b => p[a] < p[b]
      BY <1>6, <1>7 DEF Standing
    <2> QED BY <1>8, <2>1, Ranks
  <1>10. {i \in DOMAIN segs : Stays(segs, i)} = S
    <2>1. \A i \in 1 .. n : Stays(segs, i) <=> StaysTo(segs, i, n)
      BY <1>1, Zenon DEF Stays, StaysTo, NamesIn, UpsIn
    <2>2. \A i \in 1 .. n : StaysTo(segs, i, n) <=> i \in S
      BY <1>6, <1>7, <1>8 DEF Standing
    <2>3. S \subseteq 1 .. n
      BY <1>7, <1>8
    <2> QED BY <1>1, <2>1, <2>2, <2>3
  <1>11. Place(segs) = [m \in 1 .. l |-> segs[Nth(S, m)]]
    BY <1>9, <1>10 DEF Place
  <1>12. Place(segs) = At(segs, p)
    BY <1>7, <1>9, <1>11 DEF At
  <1>13. \A m \in 1 .. l : segs[p[m]] \in {seg \in W : IsName(seg)}
    <2> SUFFICES ASSUME NEW m \in 1 .. l PROVE segs[p[m]] \in {seg \in W : IsName(seg)}
      OBVIOUS
    <2>1. p[m] \in 1 .. n /\ segs[p[m]] \in W
      BY <1>1, <1>7, ElementOfSeq
    <2>2. StaysTo(segs, p[m], n)
      BY <1>6, <1>7, <2>1 DEF Standing
    <2> QED BY <2>1, <2>2 DEF StaysTo
  <1>14. At(segs, p) \in Seq({seg \in W : IsName(seg)})
    BY <1>7, <1>13 DEF At
  <1> QED BY <1>6, <1>12, <1>14

-----------------------------------------------------------------------------
(* A path cleaned in parts: cleaning a part first changes nothing.         *)

Solid(W) == {seg \in W : ~LeftOut(seg)}
NamesOf(W) == {seg \in W : IsName(seg)}

\* What is left of a path has nothing in it that cleaning leaves out.
LEMMA CleanedType ==
  ASSUME NEW W, ".." \in W, NEW rooted \in BOOLEAN
  PROVE  \A segs \in Seq(W) : Cleaned(rooted, segs) \in Seq(Solid(W))
  <1> DEFINE Q == {segs \in Seq(W) : Cleaned(rooted, segs) \in Seq(Solid(W))}
  <1>1. <<>> \in Q
    BY CleanedEmpty, EmptySeq
  <1>2. ASSUME NEW s \in Seq(W), NEW e \in W, s \in Q PROVE Append(s, e) \in Q
    <2>1. PICK c \in Seq(Solid(W)) : c = Cleaned(rooted, s)
      BY <1>2
    <2>2. Cleaned(rooted, Append(s, e)) = CleanStep(rooted, c, e)
      BY <2>1, CleanedAppend
    <2>3. CleanStep(rooted, c, e) \in Seq(Solid(W))
      <3>1. CASE LeftOut(e)
        BY <3>1, StepLeftOut
      <3>2. CASE IsName(e)
        <4>1. e \in Solid(W)
          BY <3>2, StepLeftOut DEF Solid
        <4> QED BY <3>2, <4>1, StepName, AppendProperties
      <3>3. CASE e = ".."
        <4>1. ".." \in Solid(W)
          BY StepLeftOut DEF Solid
        <4>2. Append(c, "..") \in Seq(Solid(W))
          BY <4>1, AppendProperties
        <4>3. c # <<>> => Front(c) \in Seq(Solid(W))
          <5> SUFFICES ASSUME c # <<>> PROVE SubSeq(c, 1, Len(c) - 1) \in Seq(Solid(W))
            BY DEF Front
          <5>1. PICK n \in Nat : n = Len(c) - 1 /\ n + 1 = Len(c)
            BY EmptySeq
          <5>2. \A i \in 1 .. n : c[i] \in Solid(W)
            BY <5>1, ElementOfSeq
          <5>3. n \in Int /\ 1 \in Int
            BY <5>1
          <5> QED BY <5>1, <5>2, <5>3, SubSeqProperties
        <4> QED BY <3>3, <4>2, <4>3, StepUp
      <3> QED BY <3>1, <3>2, <3>3, SegmentKinds
    <2>4. Append(s, e) \in Seq(W)
      BY AppendProperties
    <2> QED BY <2>2, <2>3, <2>4
  <1> HIDE DEF Q
  <1>3. \A s \in Seq(W) : s \in Q
    BY <1>1, <1>2, AppendInduction
  <1> QED BY <1>3 DEF Q

\* Names are all kept.
LEMMA NamesClean ==
  ASSUME NEW W, ".." \in W, NEW rooted \in BOOLEAN
  PROVE  \A segs \in Seq(NamesOf(W)) : Cleaned(rooted, segs) = segs
  <1> DEFINE Q == {segs \in Seq(NamesOf(W)) : Cleaned(rooted, segs) = segs}
  <1>1. <<>> \in Q
    BY CleanedEmpty, EmptySeq
  <1>2. ASSUME NEW s \in Seq(NamesOf(W)), NEW e \in NamesOf(W), s \in Q PROVE Append(s, e) \in Q
    <2>1. NamesOf(W) \subseteq W /\ IsName(e) /\ e \in W
      BY DEF NamesOf
    <2>2. s \in Seq(W)
      BY <2>1, SeqMonotonic
    <2>3. Cleaned(rooted, Append(s, e)) = CleanStep(rooted, s, e)
      BY <1>2, <2>1, <2>2, CleanedAppend
    <2>4. Append(s, e) \in Seq(NamesOf(W))
      BY AppendProperties
    <2> QED BY <2>1, <2>3, <2>4, StepName
  <1> HIDE DEF Q
  <1>3. \A s \in Seq(NamesOf(W)) : s \in Q
    BY <1>1, <1>2, AppendInduction
  <1> QED BY <1>3 DEF Q

LEMMA ConcatAppend ==
  ASSUME NEW W, NEW a \in Seq(W), NEW s \in Seq(W), NEW e \in W
  PROVE  a \o Append(s, e) = Append(a \o s, e)
  <1>1. <<e>> \in Seq(W) /\ a \o s \in Seq(W)
    BY ConcatProperties
  <1>2. Append(s, e) = s \o <<e>> /\ Append(a \o s, e) = (a \o s) \o <<e>>
    BY <1>1, AppendIsConcat
  <1> QED BY <1>1, <1>2, ConcatAssociative

LEMMA FrontOfAppend ==
  ASSUME NEW W, NEW s \in Seq(W), NEW e \in W
  PROVE  Front(Append(s, e)) = s /\ Last(Append(s, e)) = e
  <1>1. PICK n \in Nat : n = Len(s)
    BY LenProperties
  <1>2. PICK t : t = Append(s, e)
    OBVIOUS
  <1>3. t \in Seq(W) /\ Len(t) = n + 1 /\ t[n + 1] = e /\ \A i \in 1 .. n : t[i] = s[i]
    BY <1>1, <1>2, AppendProperties
  <1>4. PICK f : f = SubSeq(t, 1, n)
    OBVIOUS
  <1>5. f \in Seq(W) /\ Len(f) = n /\ \A i \in 1 .. n : f[i] = s[i]
    <2>1. \A i \in 1 .. n : t[i] \in W
      BY <1>1, <1>3, ElementOfSeq
    <2>2. n \in Int /\ 1 \in Int /\ n - 1 + 1 = n /\ (~(1 <= n) => n = 0) /\ \A i \in 1 .. n : 1 + i - 1 = i
      OBVIOUS
    <2>3. /\ f \in Seq(W) /\ Len(f) = IF 1 <= n THEN n - 1 + 1 ELSE 0
          /\ \A i \in 1 .. n - 1 + 1 : f[i] = t[1 + i - 1]
      BY <1>4, <2>1, <2>2, SubSeqProperties
    <2>4. Len(f) = n
      BY <2>2, <2>3
    <2> QED BY <1>3, <2>2, <2>3, <2>4
  <1>6. f = s
    BY <1>1, <1>5, SeqEqual
  <1>7. (n + 1) - 1 = n
    OBVIOUS
  <1> QED BY <1>2, <1>3, <1>4, <1>6, <1>7 DEF Front, Last

\* A path that has been cleaned before it is joined to a folder leads where it
\* would have led.
LEMMA CleanedLater ==
  ASSUME NEW W, ".." \in W, NEW a \in Seq(W)
  PROVE  \A segs \in Seq(W) : Cleaned(TRUE, a \o Cleaned(FALSE, segs)) = Cleaned(TRUE, a \o segs)
  <1> DEFINE K(s) == Cleaned(TRUE, s)
             R(s) == Cleaned(FALSE, s)
             Q    == {segs \in Seq(W) : K(a \o R(segs)) = K(a \o segs)}
  <1>0. /\ \A s \in Seq(W) : R(s) \in Seq(Solid(W)) /\ R(s) \in Seq(W)
        /\ \A s \in Seq(W), e \in W : /\ K(Append(s, e)) = CleanStep(TRUE, K(s), e)
                                      /\ R(Append(s, e)) = CleanStep(FALSE, R(s), e)
        /\ R(<<>>) = <<>>
    <2>1. Solid(W) \subseteq W
      BY DEF Solid
    <2>2. \A s \in Seq(W) : R(s) \in Seq(Solid(W))
      BY CleanedType
    <2>3. \A s \in Seq(W) : R(s) \in Seq(W)
      BY <2>1, <2>2, SeqMonotonic
    <2>4. \A s \in Seq(W), e \in W : K(Append(s, e)) = CleanStep(TRUE, K(s), e)
      BY CleanedAppend
    <2>5. \A s \in Seq(W), e \in W : R(Append(s, e)) = CleanStep(FALSE, R(s), e)
      BY CleanedAppend
    <2> QED BY <2>2, <2>3, <2>4, <2>5, CleanedEmpty
  <1> HIDE DEF K, R
  <1>1. <<>> \in Q
    BY <1>0, EmptySeq
  <1>2. ASSUME NEW s \in Seq(W), NEW e \in W, s \in Q PROVE Append(s, e) \in Q
    <2>1. PICK c \in Seq(W) : c = R(s) /\ c \in Seq(Solid(W))
      BY <1>0
    <2>2. R(Append(s, e)) = CleanStep(FALSE, c, e) /\ Append(s, e) \in Seq(W)
      BY <1>0, <2>1, AppendProperties
    <2>3. a \o s \in Seq(W) /\ a \o c \in Seq(W)
      BY <2>1, ConcatProperties
    <2>4. K(a \o Append(s, e)) = CleanStep(TRUE, K(a \o c), e)
      <3>1. a \o Append(s, e) = Append(a \o s, e)
        BY ConcatAppend
      <3>2. K(Append(a \o s, e)) = CleanStep(TRUE, K(a \o s), e)
        BY <1>0, <2>3
      <3>3. K(a \o s) = K(a \o c)
        BY <1>2, <2>1
      <3> QED BY <3>1, <3>2, <3>3
    <2>5. K(a \o Append(c, e)) = CleanStep(TRUE, K(a \o c), e)
      <3>1. a \o Append(c, e) = Append(a \o c, e)
        BY <2>1, ConcatAppend
      <3>2. PICK x \in Seq(W) : x = a \o c
        BY <2>3
      <3>3. K(Append(x, e)) = CleanStep(TRUE, K(x), e)
        BY <1>0
      <3> QED BY <3>1, <3>2, <3>3, Zenon
    <2>6. K(a \o CleanStep(FALSE, c, e)) = CleanStep(TRUE, K(a \o c), e)
      <3>1. CASE LeftOut(e)
        <4>1. CleanStep(FALSE, c, e) = c
          BY <3>1, StepLeftOut, Zenon
        <4>2. CleanStep(TRUE, K(a \o c), e) = K(a \o c)
          BY <3>1, StepLeftOut, Zenon
        <4> QED BY <4>1, <4>2, Zenon
      <3>2. CASE IsName(e)
        <4>1. CleanStep(FALSE, c, e) = Append(c, e)
          BY <3>2, StepName, Zenon
        <4> QED BY <2>5, <4>1, Zenon
      <3>3. CASE e = ".." /\ ~(c # <<>> /\ Last(c) # "..")
        <4>1. CleanStep(FALSE, c, "..") = Append(c, "..")
          BY <3>3, StepUp, Zenon
        <4> QED BY <2>5, <3>3, <4>1, Zenon
      <3>4. CASE e = ".." /\ c # <<>> /\ Last(c) # ".."
        <4>1. PICK f \in Seq(Solid(W)), g \in Solid(W) : c = Append(f, g)
          BY <2>1, <3>4, SequenceEmptyOrAppend
        <4>2. f \in Seq(W) /\ g \in W
          <5>1. Solid(W) \subseteq W
            BY DEF Solid
          <5> QED BY <4>1, <5>1, SeqMonotonic
        <4>3. Front(c) = f /\ Last(c) = g
          BY <4>1, <4>2, FrontOfAppend
        <4>4. IsName(g)
          BY <3>4, <4>1, <4>3, SegmentKinds DEF Solid
        <4>5. CleanStep(FALSE, c, e) = f
          BY <3>4, <4>3, StepUp
        <4>6. K(a \o c) = Append(K(a \o f), g)
          <5>1. a \o c = Append(a \o f, g) /\ a \o f \in Seq(W)
            BY <4>1, <4>2, ConcatAppend, ConcatProperties
          <5>2. K(Append(a \o f, g)) = CleanStep(TRUE, K(a \o f), g)
            BY <1>0, <4>2, <5>1
          <5>3. CleanStep(TRUE, K(a \o f), g) = Append(K(a \o f), g)
            BY <4>4, StepName
          <5> QED BY <4>1, <5>1, <5>2, <5>3, Zenon
        <4>7. K(a \o f) \in Seq(W)
          <5>1. a \o f \in Seq(W) /\ Solid(W) \subseteq W
            BY <4>2, ConcatProperties DEF Solid
          <5>2. K(a \o f) \in Seq(Solid(W))
            BY <5>1, CleanedType DEF K
          <5> QED BY <5>1, <5>2, SeqMonotonic
        <4>8. PICK y \in Seq(W) : y = K(a \o f)
          BY <4>7
        <4>9. /\ Append(y, g) # <<>> /\ Last(Append(y, g)) = g /\ Front(Append(y, g)) = y
          <5>1. PICK z : z = Append(y, g)
            OBVIOUS
          <5>2. Last(z) = g /\ Front(z) = y
            BY <4>2, <5>1, FrontOfAppend
          <5>3. z # <<>>
            BY <4>2, <5>1, EndIsNotEmpty
          <5> QED BY <5>1, <5>2, <5>3, Zenon
        <4>10. CleanStep(TRUE, Append(y, g), "..") = y
          <5>1. PICK z : z = Append(y, g)
            OBVIOUS
          <5>2. z # <<>> /\ Last(z) # ".." /\ Front(z) = y
            BY <3>4, <4>3, <4>9, <5>1, Zenon
          <5>3. CleanStep(TRUE, z, "..") = Front(z)
            BY <5>2, StepUp, Zenon
          <5> QED BY <5>1, <5>2, <5>3, Zenon
        <4> QED BY <3>4, <4>5, <4>6, <4>8, <4>10
      <3> QED BY <3>1, <3>2, <3>3, <3>4, SegmentKinds
    <2> QED BY <2>2, <2>4, <2>6
  <1> HIDE DEF Q
  <1>3. \A s \in Seq(W) : s \in Q
    BY <1>1, <1>2, AppendInduction
  <1> QED BY <1>3 DEF Q, K, R

\* Where nothing goes back, what the path begins with stays.
LEMMA CleanedAfter ==
  ASSUME NEW W, ".." \in W, NEW first \in W, IsName(first)
  PROVE  \A segs \in Seq(W \ {".."}) :
           Cleaned(FALSE, <<first>> \o segs) = <<first>> \o Cleaned(FALSE, segs)
  <1> DEFINE V == W \ {".."}
             Q == {segs \in Seq(V) :
                     Cleaned(FALSE, <<first>> \o segs) = <<first>> \o Cleaned(FALSE, segs)}
  <1>0. V \subseteq W /\ <<first>> \in Seq(W) /\ ".." \notin V
    OBVIOUS
  <1>1. <<>> \in Q
    <2>1. Cleaned(FALSE, <<first>>) = <<first>>
      <3>1. <<first>> \in Seq(NamesOf(W))
        BY DEF NamesOf
      <3> QED BY <3>1, NamesClean
    <2>2. <<first>> \o <<>> = <<first>>
      BY <1>0, ConcatEmptySeq
    <2> QED BY <2>1, <2>2, CleanedEmpty, EmptySeq
  <1> HIDE DEF V
  <1>2. ASSUME NEW s \in Seq(V), NEW e \in V, s \in Q PROVE Append(s, e) \in Q
    <2>1. s \in Seq(W) /\ e \in W /\ Append(s, e) \in Seq(V) /\ e # ".."
      BY <1>0, SeqMonotonic, AppendProperties
    <2>2. Cleaned(FALSE, s) \in Seq(W)
      <3>1. Solid(W) \subseteq W /\ Cleaned(FALSE, s) \in Seq(Solid(W))
        BY <2>1, CleanedType DEF Solid
      <3> QED BY <3>1, SeqMonotonic
    <2>3. PICK c \in Seq(W) : c = Cleaned(FALSE, s)
      BY <2>2
    <2>4. <<first>> \o Append(s, e) = Append(<<first>> \o s, e) /\ <<first>> \o s \in Seq(W)
      BY <1>0, <2>1, ConcatAppend, ConcatProperties
    <2>5. Cleaned(FALSE, <<first>> \o Append(s, e)) = CleanStep(FALSE, <<first>> \o c, e)
      BY <1>2, <2>1, <2>3, <2>4, CleanedAppend
    <2>6. Cleaned(FALSE, Append(s, e)) = CleanStep(FALSE, c, e)
      BY <2>1, <2>3, CleanedAppend
    <2>7. CleanStep(FALSE, <<first>> \o c, e) = <<first>> \o CleanStep(FALSE, c, e)
      <3>1. CASE LeftOut(e)
        BY <3>1, StepLeftOut
      <3>2. CASE IsName(e)
        <4>1. <<first>> \o Append(c, e) = Append(<<first>> \o c, e)
          <5>1. PICK a \in Seq(W) : a = <<first>>
            BY <1>0
          <5>2. c \in Seq(W) /\ e \in W
            BY <2>1, <2>3
          <5>3. a \o Append(c, e) = Append(a \o c, e)
            BY <5>2, ConcatAppend
          <5> QED BY <5>1, <5>3, Zenon
        <4>2. PICK h : h = <<first>> \o c
          OBVIOUS
        <4>3. CleanStep(FALSE, h, e) = Append(h, e)
          BY <3>2, StepName, Zenon
        <4>4. CleanStep(FALSE, c, e) = Append(c, e)
          BY <3>2, StepName, Zenon
        <4> QED BY <4>1, <4>2, <4>3, <4>4, Zenon
      <3> QED BY <2>1, <3>1, <3>2, SegmentKinds
    <2> QED BY <2>1, <2>5, <2>6, <2>7
  <1> HIDE DEF Q
  <1>3. \A s \in Seq(V) : s \in Q
    BY <1>1, <1>2, AppendInduction
  <1> QED BY <1>3 DEF Q, V

KeepsFirst(first, segs) ==
  Cleaned(FALSE, <<first>> \o segs) = <<first>> \o Cleaned(FALSE, segs)

LEMMA CleanedAfterIn ==
  ASSUME NEW W, ".." \in W, NEW first \in W, IsName(first), NEW segs \in Seq(W \ {".."})
  PROVE  KeepsFirst(first, segs)
  BY CleanedAfter DEF KeepsFirst

-----------------------------------------------------------------------------
(* Where a string leads.  A string v leads to a place l when what the code *)
(* makes of l is the place of v: the same scheme, host and names.          *)

Bare(raw)   == raw.scheme = ""
NoHost(raw) == raw.auth = ""

LEMMA RawParts ==
  ASSUME NEW W, NEW raw \in Raws(W)
  PROVE  /\ raw.scheme \in W /\ raw.auth \in W /\ raw.segs \in Seq(W)
         /\ raw.rooted \in BOOLEAN /\ raw.home \in BOOLEAN
         /\ DOMAIN raw = {"scheme", "auth", "rooted", "home", "segs"}
  BY DEF Raws, RawRecords

LEMMA RawSplit ==
  ASSUME NEW W, NEW raw \in Raws(W)
  PROVE  /\ raw.home => ~raw.rooted /\ Bare(raw)
         /\ Bare(raw) => NoHost(raw)
         /\ ~Bare(raw) => raw.rooted \/ (~NoHost(raw) /\ raw.segs = <<>>)
  BY Zenon DEF Raws, WellSplit, Bare, NoHost

LEMMA ParsedIs ==
  ASSUME NEW raw
  PROVE  LET r == ParseResource(raw)
         IN  /\ r.scheme = SchemeOf(raw) /\ r.auth = raw.auth /\ r.rooted = raw.rooted
             /\ r.segs = CleanPath(raw.rooted, IF raw.home THEN <<"~">> \o raw.segs ELSE raw.segs)
  BY DEF ParseResource

LEMMA SchemeIs ==
  ASSUME NEW raw
  PROVE  SchemeOf(raw) = IF Bare(raw) THEN "file" ELSE raw.scheme
  BY Zenon DEF SchemeOf, Bare

LEMMA RootedIs ==
  ASSUME NEW segs
  PROVE  /\ Rooted(segs).segs = segs /\ Rooted(segs).rooted = TRUE /\ Rooted(segs).home = FALSE
         /\ Bare(Rooted(segs)) /\ NoHost(Rooted(segs))
  BY Zenon DEF Rooted, Raw, Bare, NoHost

LEMMA InHomeIs ==
  ASSUME NEW segs
  PROVE  /\ InHome(segs).segs = segs /\ InHome(segs).home = TRUE /\ Bare(InHome(segs))
  BY Zenon DEF InHome, Relative, Raw, Bare

LEMMA ResolvedIs ==
  ASSUME NEW value, NEW cwd, NEW home
  PROVE  /\ ~Bare(value) => ResolvePath(value, cwd, home) = value
         /\ Bare(value) /\ value.home =>
              ResolvePath(value, cwd, home) = Rooted(CleanPath(TRUE, home \o value.segs))
         /\ Bare(value) /\ ~value.home =>
              ResolvePath(value, cwd, home) =
                Rooted(CleanPath(TRUE, IF value.rooted THEN value.segs ELSE cwd \o value.segs))
  BY Zenon DEF ResolvePath, Bare

\* The same, case by case.
LEMMA ResolvedFromRoot ==
  ASSUME NEW value, NEW cwd, NEW home, Bare(value), value.home = FALSE, value.rooted = TRUE
  PROVE  ResolvePath(value, cwd, home) = Rooted(CleanPath(TRUE, value.segs))
  BY ResolvedIs, Zenon

LEMMA ResolvedAtHome ==
  ASSUME NEW value, NEW cwd, NEW home, Bare(value), value.home = TRUE
  PROVE  ResolvePath(value, cwd, home) = Rooted(CleanPath(TRUE, home \o value.segs))
  BY ResolvedIs, Zenon

LEMMA ResolvedFromFolder ==
  ASSUME NEW value, NEW cwd, NEW home, Bare(value), value.home = FALSE, value.rooted = FALSE
  PROVE  ResolvePath(value, cwd, home) = Rooted(CleanPath(TRUE, cwd \o value.segs))
  BY ResolvedIs, Zenon

LEMMA FromRootIs ==
  ASSUME NEW W, NEW value \in Raws(W), NEW cwd, NEW home
  PROVE  /\ ~Bare(value) \/ value.rooted => FromRoot(value, cwd, home) = value
         /\ Bare(value) /\ ~value.rooted =>
              /\ FromRoot(value, cwd, home).scheme = value.scheme
              /\ FromRoot(value, cwd, home).auth = value.auth
              /\ FromRoot(value, cwd, home).rooted = TRUE
              /\ FromRoot(value, cwd, home).segs = (IF value.home THEN home ELSE cwd) \o value.segs
  <1>1. ~Bare(value) \/ value.rooted => FromRoot(value, cwd, home) = value
    BY Zenon DEF FromRoot, Bare
  <1>2. ASSUME Bare(value), ~value.rooted
        PROVE  FromRoot(value, cwd, home) =
                 [value EXCEPT !.rooted = TRUE, !.home = FALSE,
                               !.segs = (IF value.home THEN home ELSE cwd) \o @]
    BY <1>2, Zenon DEF FromRoot, Bare
  <1>3. DOMAIN value = {"scheme", "auth", "rooted", "home", "segs"}
    BY RawParts
  <1> QED BY <1>1, <1>2, <1>3

-----------------------------------------------------------------------------

\* What the hook looks at leads where the string does.
Leads(W, v, l) ==
  LET r == ParseResource(l)
  IN  /\ r.scheme = SchemeOf(v) /\ r.auth = v.auth /\ r.rooted = v.rooted
      /\ r.segs = Place(v.segs) /\ r.segs \in Seq(W) /\ r.scheme \in W /\ r.auth \in W
      /\ v.rooted \/ (~NoHost(v) /\ r.segs = <<>>)

Known(W) == {"", ".", "..", "~", "file"} \subseteq W

LEMMA KnownHas ==
  ASSUME NEW W, Known(W)
  PROVE  ".." \in W /\ "." \in W /\ "~" \in W /\ "file" \in W /\ IsName("~") /\ LeftOut(".")
  <1>1. ".." \in W /\ "." \in W /\ "~" \in W /\ "file" \in W
    BY Zenon DEF Known
  <1>2. IsName("~")
    BY Zenon DEF IsName
  <1>3. LeftOut(".")
    BY Zenon DEF LeftOut
  <1> QED BY <1>1, <1>2, <1>3

LEMMA RootedClean ==
  ASSUME NEW W, ".." \in W, NEW segs \in Seq(W)
  PROVE  /\ CleanPath(TRUE, segs) = Place(segs) /\ Place(segs) \in Seq(W)
         /\ CleanPath(TRUE, Place(segs)) = Place(segs)
  <1>1. Cleaned(TRUE, segs) = Place(segs) /\ Place(segs) \in Seq(NamesOf(W))
    BY CleanedIsPlace DEF NamesOf
  <1>2. Cleaned(TRUE, Place(segs)) = Place(segs)
    BY <1>1, NamesClean
  <1>3. Place(segs) \in Seq(W)
    <2>1. NamesOf(W) \subseteq W
      BY DEF NamesOf
    <2> QED BY <1>1, <2>1, SeqMonotonic
  <1>4. \A s : CleanPath(TRUE, s) = Cleaned(TRUE, s)
    BY DEF CleanPath
  <1> QED BY <1>1, <1>2, <1>3, <1>4

\* A folder joined to a relative path that has been cleaned.
LEMMA JoinedClean ==
  ASSUME NEW W, Known(W), NEW a \in Seq(W), NEW segs \in Seq(W)
  PROVE  /\ CleanPath(TRUE, a \o CleanPath(FALSE, segs)) = Place(a \o segs)
         /\ CleanPath(TRUE, a \o Cleaned(FALSE, segs)) = Place(a \o segs)
         /\ Cleaned(FALSE, segs) \in Seq(W) /\ CleanPath(FALSE, segs) \in Seq(W)
  <1>1. ".." \in W /\ "." \in W /\ LeftOut(".")
    BY KnownHas
  <1>2. Cleaned(FALSE, segs) \in Seq(W)
    <2>1. Solid(W) \subseteq W /\ Cleaned(FALSE, segs) \in Seq(Solid(W))
      BY <1>1, CleanedType DEF Solid
    <2> QED BY <2>1, SeqMonotonic
  <1>3. \A s : CleanPath(TRUE, s) = Cleaned(TRUE, s)
    BY DEF CleanPath
  <1>4. a \o segs \in Seq(W)
    BY ConcatProperties
  <1>5. Cleaned(TRUE, a \o Cleaned(FALSE, segs)) = Place(a \o segs)
    <2>1. PICK t \in Seq(W) : t = a \o segs
      BY <1>4
    <2>2. Cleaned(TRUE, t) = Place(t)
      BY <1>1, CleanedIsPlace
    <2>3. Cleaned(TRUE, a \o Cleaned(FALSE, segs)) = Cleaned(TRUE, a \o segs)
      BY <1>1, CleanedLater
    <2> QED BY <2>1, <2>2, <2>3, Zenon
  <1>6. CASE CleanPath(FALSE, segs) = Cleaned(FALSE, segs)
    BY <1>2, <1>3, <1>5, <1>6
  <1>7. CASE CleanPath(FALSE, segs) # Cleaned(FALSE, segs)
    <2>1. CleanPath(FALSE, segs) = <<".">> /\ Cleaned(FALSE, segs) = <<>>
      BY <1>7 DEF CleanPath
    <2>2. a \o <<".">> = Append(a, ".") /\ a \o <<>> = a /\ <<".">> \in Seq(W)
      BY <1>1, AppendIsConcat, ConcatEmptySeq
    <2>3. Cleaned(TRUE, Append(a, ".")) = CleanStep(TRUE, Cleaned(TRUE, a), ".")
      BY <1>1, CleanedAppend
    <2>4. CleanStep(TRUE, Cleaned(TRUE, a), ".") = Cleaned(TRUE, a)
      BY <1>1, StepLeftOut
    <2> QED BY <1>2, <1>3, <1>5, <2>1, <2>2, <2>3, <2>4
  <1> QED BY <1>6, <1>7

LEMMA JoinedCleanPath ==
  ASSUME NEW W, Known(W), NEW a \in Seq(W), NEW segs \in Seq(W)
  PROVE  CleanPath(TRUE, a \o CleanPath(FALSE, segs)) = Place(a \o segs)
  BY JoinedClean

LEMMA JoinedCleaned ==
  ASSUME NEW W, Known(W), NEW a \in Seq(W), NEW segs \in Seq(W)
  PROVE  CleanPath(TRUE, a \o Cleaned(FALSE, segs)) = Place(a \o segs)
  BY JoinedClean

LEMMA RootedLeads ==
  ASSUME NEW W, Known(W), NEW t \in Seq(W), NEW v, Bare(v), NoHost(v), v.rooted = TRUE, v.auth \in W,
         CleanPath(TRUE, t) = Place(v.segs)
  PROVE  Leads(W, v, Rooted(CleanPath(TRUE, t)))
  <1>1. ".." \in W /\ "file" \in W
    BY KnownHas
  <1>2. PICK s : s = CleanPath(TRUE, t)
    OBVIOUS
  <1>3. s = Place(t) /\ s \in Seq(W) /\ CleanPath(TRUE, s) = s
    BY <1>1, <1>2, RootedClean
  <1>4. PICK l : l = Rooted(s)
    OBVIOUS
  <1>5. /\ l.segs = s /\ l.rooted = TRUE /\ l.home = FALSE /\ Bare(l) /\ NoHost(l)
    BY <1>4, RootedIs
  <1>6. SchemeOf(l) = "file" /\ SchemeOf(v) = "file"
    BY <1>5, SchemeIs
  <1>7. l.auth = v.auth
    BY <1>5, Zenon DEF NoHost
  <1>8. PICK r : r = ParseResource(l)
    OBVIOUS
  <1>9. /\ r.scheme = "file" /\ r.auth = v.auth /\ r.rooted = TRUE /\ r.segs = s
    BY <1>3, <1>5, <1>6, <1>7, <1>8, ParsedIs
  <1> QED BY <1>1, <1>2, <1>3, <1>4, <1>6, <1>8, <1>9 DEF Leads

LEMMA EmptyPlace == Place(<<>>) = <<>>
  <1>1. PICK W : W = {".."} /\ ".." \in W
    OBVIOUS
  <1>2. <<>> \in Seq(W)
    BY EmptySeq
  <1> QED BY <1>1, <1>2, CleanedIsPlace, CleanedEmpty

LEMMA UriLeads ==
  ASSUME NEW W, Known(W), NEW v \in Raws(W), ~Bare(v)
  PROVE  Leads(W, v, v)
  <1>1. ".." \in W
    BY KnownHas
  <1>2. /\ v.scheme \in W /\ v.auth \in W /\ v.segs \in Seq(W) /\ v.rooted \in BOOLEAN
        /\ v.home \in BOOLEAN
    BY RawParts
  <1>3. v.home = FALSE /\ (v.rooted \/ (~NoHost(v) /\ v.segs = <<>>))
    BY <1>2, RawSplit
  <1>4. SchemeOf(v) = v.scheme
    BY SchemeIs
  <1>5. CleanPath(v.rooted, v.segs) = Place(v.segs) /\ Place(v.segs) \in Seq(W)
    <2>1. CASE v.rooted
      BY <1>1, <1>2, <2>1, RootedClean
    <2>2. CASE ~v.rooted
      <3>1. v.segs = <<>> /\ v.rooted = FALSE
        BY <1>2, <1>3, <2>2
      <3>2. CleanPath(FALSE, <<>>) = <<>>
        BY CleanedEmpty DEF CleanPath
      <3> QED BY <3>1, <3>2, EmptyPlace, EmptySeq
    <2> QED BY <2>1, <2>2
  <1>6. PICK r : r = ParseResource(v)
    OBVIOUS
  <1>7. r.scheme = v.scheme /\ r.auth = v.auth /\ r.rooted = v.rooted /\ r.segs = Place(v.segs)
    BY <1>3, <1>4, <1>5, <1>6, ParsedIs
  <1>8. ~v.rooted => Place(v.segs) = <<>>
    BY <1>3, EmptyPlace
  <1> QED BY <1>2, <1>3, <1>4, <1>5, <1>6, <1>7, <1>8 DEF Leads

\* resolvePath.
LEMMA ResolvedLeads ==
  ASSUME NEW W, Known(W), NEW home \in Seq(W), NEW cwd \in Seq(W), NEW value \in Raws(W)
  PROVE  Leads(W, FromRoot(value, cwd, home), ResolvePath(value, cwd, home))
  <1>1. ".." \in W
    BY KnownHas
  <1>2. /\ value.auth \in W /\ value.segs \in Seq(W) /\ value.rooted \in BOOLEAN
        /\ value.home \in BOOLEAN
    BY RawParts
  <1>3. CASE ~Bare(value)
    <2>1. ResolvePath(value, cwd, home) = value
      BY <1>3, ResolvedIs, Zenon
    <2>2. FromRoot(value, cwd, home) = value
      BY <1>3, FromRootIs, Zenon
    <2>3. Leads(W, value, value)
      BY <1>3, UriLeads, Zenon
    <2> QED BY <2>1, <2>2, <2>3, Zenon
  <1>4. CASE Bare(value)
    <2>1. PICK v : v = FromRoot(value, cwd, home)
      OBVIOUS
    <2>2. PICK t : t = IF value.rooted THEN value.segs
                       ELSE IF value.home THEN home \o value.segs ELSE cwd \o value.segs
      OBVIOUS
    <2>3. t \in Seq(W)
      BY <1>2, <2>2, ConcatProperties
    <2>4. value.home => ~value.rooted
      BY RawSplit
    <2>5. ResolvePath(value, cwd, home) = Rooted(CleanPath(TRUE, t))
      <3>1. CASE value.rooted
        BY <1>2, <1>4, <2>2, <2>4, <3>1, ResolvedFromRoot
      <3>2. CASE ~value.rooted /\ value.home
        BY <1>2, <1>4, <2>2, <3>2, ResolvedAtHome
      <3>3. CASE ~value.rooted /\ ~value.home
        BY <1>2, <1>4, <2>2, <3>3, ResolvedFromFolder
      <3> QED BY <3>1, <3>2, <3>3
    <2>6. v.segs = t /\ v.rooted = TRUE /\ v.scheme = value.scheme /\ v.auth = value.auth
      BY <1>2, <1>4, <2>1, <2>2, FromRootIs
    <2>7. Bare(v) /\ NoHost(v)
      <3>1. NoHost(value)
        BY <1>4, RawSplit
      <3> QED BY <1>4, <2>6, <3>1, Zenon DEF Bare, NoHost
    <2>8. CleanPath(TRUE, t) = Place(v.segs)
      BY <1>1, <2>3, <2>6, RootedClean
    <2> QED BY <1>2, <2>1, <2>3, <2>5, <2>6, <2>7, <2>8, RootedLeads
  <1> QED BY <1>3, <1>4

-----------------------------------------------------------------------------
(* What a search walks.                                                    *)

JoinedOf(base, pattern) == ParseResource([base EXCEPT !.segs = @ \o pattern.segs]).segs

LEMMA JoinPlain ==
  ASSUME NEW base, NEW pattern, base.home = FALSE
  PROVE  LET j == Join(base, pattern)
         IN  /\ Bare(j) /\ j.rooted = base.rooted /\ j.home = FALSE
             /\ j.segs = JoinedOf(base, pattern)
  BY Zenon DEF Join, JoinedOf, Raw, Bare

LEMMA JoinHome ==
  ASSUME NEW base, NEW pattern, base.home = TRUE, NEW rest,
         JoinedOf(base, pattern) # <<>>, Head(JoinedOf(base, pattern)) = "~",
         Tail(JoinedOf(base, pattern)) = rest
  PROVE  Join(base, pattern) = InHome(rest)
  BY Zenon DEF Join, JoinedOf

LEMMA JoinedIs ==
  ASSUME NEW W, NEW base \in Raws(W), NEW pattern
  PROVE  JoinedOf(base, pattern) =
           CleanPath(base.rooted, IF base.home THEN <<"~">> \o (base.segs \o pattern.segs)
                                  ELSE base.segs \o pattern.segs)
  <1>1. PICK j : j = [base EXCEPT !.segs = @ \o pattern.segs]
    OBVIOUS
  <1>2. /\ j.segs = base.segs \o pattern.segs /\ j.rooted = base.rooted /\ j.home = base.home
    BY <1>1, RawParts
  <1>3. ParseResource(j).segs = CleanPath(j.rooted, IF j.home THEN <<"~">> \o j.segs ELSE j.segs)
    BY ParsedIs
  <1>4. JoinedOf(base, pattern) = ParseResource(j).segs
    BY <1>1 DEF JoinedOf
  <1> QED BY <1>2, <1>3, <1>4, Zenon

\* A search that begins at the root, in a folder, or at home: base is where it
\* begins, and from where FromRoot says so.
LEMMA JoinRooted ==
  ASSUME NEW W, Known(W), NEW cwd, NEW home, NEW base \in Raws(W), NEW pattern \in Raws(W),
         base.rooted = TRUE, NEW v, Bare(v), NoHost(v), v.rooted = TRUE, v.auth \in W,
         v.segs = base.segs \o pattern.segs
  PROVE  Leads(W, v, ResolvePath(Join(base, pattern), cwd, home))
  <1>1. ".." \in W
    BY KnownHas
  <1>2. base.home = FALSE
    BY RawSplit, RawParts
  <1>3. PICK t \in Seq(W) : t = base.segs \o pattern.segs
    BY RawParts, ConcatProperties
  <1>4. JoinedOf(base, pattern) = Place(t)
    <2>1. JoinedOf(base, pattern) = CleanPath(TRUE, t)
      BY <1>2, <1>3, JoinedIs
    <2> QED BY <1>1, <2>1, RootedClean
  <1>5. PICK j : j = Join(base, pattern)
    OBVIOUS
  <1>6. Bare(j) /\ j.rooted = TRUE /\ j.home = FALSE /\ j.segs = Place(t)
    BY <1>2, <1>4, <1>5, JoinPlain
  <1>7. ResolvePath(j, cwd, home) = Rooted(CleanPath(TRUE, Place(t)))
    <2>1. ResolvePath(j, cwd, home) = Rooted(CleanPath(TRUE, j.segs))
      BY <1>6, ResolvedFromRoot, Zenon
    <2> QED BY <1>6, <2>1, Zenon
  <1>8. Place(t) \in Seq(W) /\ CleanPath(TRUE, Place(t)) = Place(v.segs)
    BY <1>1, <1>3, RootedClean
  <1>9. PICK p \in Seq(W) : p = Place(t)
    BY <1>8
  <1>10. Leads(W, v, Rooted(CleanPath(TRUE, p)))
    BY <1>8, <1>9, RootedLeads, Zenon
  <1> QED BY <1>5, <1>7, <1>9, <1>10, Zenon

LEMMA JoinRelative ==
  ASSUME NEW W, Known(W), NEW cwd \in Seq(W), NEW home, NEW base \in Raws(W),
         NEW pattern \in Raws(W),
         base.rooted = FALSE, base.home = FALSE,
         NEW v, Bare(v), NoHost(v), v.rooted = TRUE, v.auth \in W,
         v.segs = cwd \o (base.segs \o pattern.segs)
  PROVE  Leads(W, v, ResolvePath(Join(base, pattern), cwd, home))
  <1>1. PICK t \in Seq(W) : t = base.segs \o pattern.segs
    BY RawParts, ConcatProperties
  <1>2. JoinedOf(base, pattern) = CleanPath(FALSE, t)
    BY <1>1, JoinedIs
  <1>3. PICK j : j = Join(base, pattern)
    OBVIOUS
  <1>4. Bare(j) /\ j.rooted = FALSE /\ j.home = FALSE /\ j.segs = CleanPath(FALSE, t)
    BY <1>2, <1>3, JoinPlain
  <1>5. ResolvePath(j, cwd, home) = Rooted(CleanPath(TRUE, cwd \o CleanPath(FALSE, t)))
    <2>1. ResolvePath(j, cwd, home) = Rooted(CleanPath(TRUE, cwd \o j.segs))
      BY <1>4, ResolvedFromFolder, Zenon
    <2> QED BY <1>4, <2>1, Zenon
  <1>6. CleanPath(TRUE, cwd \o CleanPath(FALSE, t)) = Place(cwd \o t)
    BY JoinedCleanPath
  <1>7. CleanPath(FALSE, t) \in Seq(W)
    BY JoinedClean, Zenon
  <1>8. PICK c \in Seq(W) : c = CleanPath(FALSE, t)
    BY <1>7
  <1>9. PICK p \in Seq(W) : p = cwd \o c
    BY ConcatProperties
  <1>10. CleanPath(TRUE, p) = Place(v.segs)
    BY <1>1, <1>6, <1>8, <1>9, Zenon
  <1>11. Leads(W, v, Rooted(CleanPath(TRUE, p)))
    BY <1>10, RootedLeads, Zenon
  <1> QED BY <1>3, <1>5, <1>8, <1>9, <1>11, Zenon

LEMMA JoinInHome ==
  ASSUME NEW W, Known(W), NEW home \in Seq(W), NEW cwd, NEW base \in Raws(W),
         NEW pattern \in Raws(W),
         base.home = TRUE, base.segs \o pattern.segs \in Seq(W \ {".."}),
         NEW v, Bare(v), NoHost(v), v.rooted = TRUE, v.auth \in W,
         v.segs = home \o (base.segs \o pattern.segs)
  PROVE  Leads(W, v, ResolvePath(Join(base, pattern), cwd, home))
  <1>1. ".." \in W /\ "~" \in W /\ IsName("~")
    BY KnownHas
  <1>2. base.rooted = FALSE
    BY RawSplit, RawParts
  <1>3. PICK t \in Seq(W \ {".."}) : t = base.segs \o pattern.segs
    OBVIOUS
  <1>4. t \in Seq(W)
    BY SeqMonotonic
  <1>5. PICK c \in Seq(W) : c = Cleaned(FALSE, t)
    BY <1>4, JoinedClean, EmptySeq
  <1>6. PICK h : h = <<"~">> \o c
    OBVIOUS
  <1>7. h # <<>> /\ Head(h) = "~" /\ Tail(h) = c
    <2>1. <<"~">> \in Seq(W) /\ Len(<<"~">>) = 1
      BY <1>1
    <2> QED BY <1>6, <2>1
  <1>8. JoinedOf(base, pattern) = h
    <2>1. Cleaned(FALSE, <<"~">> \o t) = h
      <3>1. PICK first \in W : first = "~"
        BY <1>1
      <3>2. ".." \in W /\ IsName(first) /\ t \in Seq(W \ {".."})
        BY <1>1, <1>3, <3>1, Zenon
      <3>3. KeepsFirst(first, t)
        BY <3>2, CleanedAfterIn, Zenon
      <3> QED BY <1>5, <1>6, <3>1, <3>3, Zenon DEF KeepsFirst
    <2>2. CleanPath(FALSE, <<"~">> \o t) = h
      BY <1>7, <2>1 DEF CleanPath
    <2>3. JoinedOf(base, pattern) = CleanPath(FALSE, <<"~">> \o (base.segs \o pattern.segs))
      BY <1>2, JoinedIs
    <2> QED BY <1>3, <2>2, <2>3, Zenon
  <1>9. Join(base, pattern) = InHome(c)
    BY <1>7, <1>8, JoinHome
  <1>10. ResolvePath(InHome(c), cwd, home) = Rooted(CleanPath(TRUE, home \o c))
    <2>1. PICK x : x = InHome(c)
      OBVIOUS
    <2>2. Bare(x) /\ x.home = TRUE /\ x.segs = c
      BY <2>1, InHomeIs
    <2>3. ResolvePath(x, cwd, home) = Rooted(CleanPath(TRUE, home \o x.segs))
      BY <2>2, ResolvedAtHome, Zenon
    <2> QED BY <2>1, <2>2, <2>3, Zenon
  <1>11. CleanPath(TRUE, home \o c) = Place(home \o t)
    <2>1. PICK a \in Seq(W) : a = home
      OBVIOUS
    <2>2. CleanPath(TRUE, a \o Cleaned(FALSE, t)) = Place(a \o t)
      BY <1>4, JoinedCleaned
    <2> QED BY <1>5, <2>1, <2>2, Zenon
  <1>12. PICK p \in Seq(W) : p = home \o c
    BY ConcatProperties
  <1>13. CleanPath(TRUE, p) = Place(v.segs)
    BY <1>3, <1>11, <1>12, Zenon
  <1>14. Leads(W, v, Rooted(CleanPath(TRUE, p)))
    BY <1>13, RootedLeads, Zenon
  <1> QED BY <1>9, <1>10, <1>12, <1>14, Zenon

\* A folder, a path in it and a pattern below that.
Regroups(h, a, b) == (h \o a) \o b = h \o (a \o b)

LEMMA ThreeParts ==
  ASSUME NEW W, NEW h \in Seq(W), NEW root \in Raws(W), NEW p \in Raws(W)
  PROVE  Regroups(h, root.segs, p.segs)
  <1>1. PICK a \in Seq(W), b \in Seq(W) : a = root.segs /\ b = p.segs
    BY RawParts
  <1>2. (h \o a) \o b = h \o (a \o b)
    BY ConcatAssociative
  <1> QED BY <1>1, <1>2, Zenon DEF Regroups

LEMMA WithoutUps ==
  ASSUME NEW W, NEW raw \in Raws(W), NoUps(raw)
  PROVE  raw.segs \in Seq(W \ {".."})
  <1>1. PICK s \in Seq(W) : s = raw.segs
    BY RawParts
  <1>2. \A i \in 1 .. Len(s) : s[i] \in W \ {".."}
    BY <1>1, LenProperties, ElementOfSeq DEF NoUps
  <1>3. Len(s) \in Nat /\ s = [i \in 1 .. Len(s) |-> s[i]]
    BY LenProperties
  <1> QED BY <1>1, <1>2, <1>3

\* Where a search begins, and what it walks there.
LEMMA SearchLeads ==
  ASSUME NEW W, Known(W), NEW home \in Seq(W), NEW cwd \in Seq(W),
         NEW root \in Raws(W), NEW p \in Raws(W), Searchable(root, p)
  PROVE  Leads(W, Matched(root, p, cwd, home), ResolvePath(Join(BaseOf(root, p), p), cwd, home))
  <1>1. Bare(root) /\ Bare(p) /\ NoHost(root) /\ NoHost(p)
    <2>1. Bare(root) /\ Bare(p)
      BY Zenon DEF Searchable, Bare
    <2> QED BY <2>1, RawSplit
  <1>2. /\ p.home => NoUps(p)
        /\ root.home => NoUps(root) /\ (p.rooted \/ NoUps(p))
    BY Zenon DEF Searchable
  <1>3. /\ root.auth \in W /\ root.segs \in Seq(W) /\ root.rooted \in BOOLEAN /\ root.home \in BOOLEAN
        /\ p.auth \in W /\ p.segs \in Seq(W) /\ p.rooted \in BOOLEAN /\ p.home \in BOOLEAN
        /\ DOMAIN p = {"scheme", "auth", "rooted", "home", "segs"}
    BY RawParts
  <1>4. (p.home => ~p.rooted) /\ (root.home => ~root.rooted)
    BY RawSplit
  <1>5. PICK base : base = BaseOf(root, p)
    OBVIOUS
  <1>6. PICK v : v = Matched(root, p, cwd, home)
    OBVIOUS
  <1>7. CASE p.rooted \/ p.home
    <2>1. base.segs = <<>> /\ base.rooted = p.rooted /\ base.home = p.home /\ base.scheme = p.scheme
          /\ base.auth = p.auth /\ base = [p EXCEPT !.segs = <<>>]
      BY <1>3, <1>5, <1>7 DEF BaseOf
    <2>2. base \in Raws(W)
      <3>1. base \in RawRecords(W)
        <4>1. p \in RawRecords(W) /\ <<>> \in Seq(W)
          BY EmptySeq DEF Raws
        <4> QED BY <2>1, <4>1 DEF RawRecords
      <3>2. WellSplit(base)
        <4>1. WellSplit(p) /\ p.scheme = ""
          BY <1>1, Zenon DEF Raws, Bare
        <4> QED BY <2>1, <4>1, Zenon DEF WellSplit
      <3> QED BY <3>1, <3>2 DEF Raws
    <2>3. base.segs \o p.segs = p.segs
      BY <1>3, <2>1, ConcatEmptySeq
    <2>4. v = FromRoot(p, cwd, home)
      BY <1>6, <1>7 DEF Matched
    <2>5. /\ v.scheme = p.scheme /\ v.auth = p.auth /\ v.rooted = TRUE
          /\ v.segs = IF p.home THEN home \o p.segs ELSE p.segs
      BY <1>1, <1>3, <1>4, <1>7, <2>4, FromRootIs
    <2>6. Bare(v) /\ NoHost(v)
      BY <1>1, <2>5, Zenon DEF Bare, NoHost
    <2>7. CASE p.rooted
      <3>1. p.home = FALSE /\ base.rooted = TRUE /\ v.segs = base.segs \o p.segs
        BY <1>3, <1>4, <2>1, <2>3, <2>5, <2>7
      <3>2. v.rooted = TRUE /\ v.auth \in W
        BY <1>3, <2>5
      <3>3. Leads(W, v, ResolvePath(Join(base, p), cwd, home))
        BY <2>2, <2>6, <3>1, <3>2, JoinRooted, Zenon
      <3> QED BY <1>5, <1>6, <3>3, Zenon
    <2>8. CASE p.home
      <3>1. base.home = TRUE /\ v.segs = home \o (base.segs \o p.segs)
        BY <1>3, <2>1, <2>3, <2>5, <2>8
      <3>2. base.segs \o p.segs \in Seq(W \ {".."})
        BY <1>2, <2>3, <2>8, WithoutUps
      <3>3. v.rooted = TRUE /\ v.auth \in W
        BY <1>3, <2>5
      <3>4. Leads(W, v, ResolvePath(Join(base, p), cwd, home))
        BY <2>2, <2>6, <3>1, <3>2, <3>3, JoinInHome, Zenon
      <3> QED BY <1>5, <1>6, <3>4, Zenon
    <2> QED BY <1>7, <2>7, <2>8
  <1>8. CASE ~(p.rooted \/ p.home)
    <2>1. base = root
      BY <1>5, <1>8 DEF BaseOf
    <2>2. PICK from : from = FromRoot(root, cwd, home)
      OBVIOUS
    <2>3. /\ from.scheme = root.scheme /\ from.auth = root.auth /\ from.rooted = TRUE
          /\ from.segs = IF root.rooted THEN root.segs
                         ELSE IF root.home THEN home \o root.segs ELSE cwd \o root.segs
          /\ DOMAIN from = {"scheme", "auth", "rooted", "home", "segs"}
      <3>1. CASE root.rooted
        <4>1. from = root
          BY <2>2, <3>1, FromRootIs
        <4> QED BY <1>3, <3>1, <4>1, RawParts
      <3>2. CASE ~root.rooted
        <4>1. DOMAIN from = DOMAIN root
          BY <1>1, <2>2, <3>2, Zenon DEF FromRoot, Bare
        <4>2. /\ from.scheme = root.scheme /\ from.auth = root.auth /\ from.rooted = TRUE
              /\ from.segs = (IF root.home THEN home ELSE cwd) \o root.segs
          BY <1>1, <2>2, <3>2, FromRootIs
        <4> QED BY <3>2, <4>1, <4>2, RawParts
      <3> QED BY <3>1, <3>2
    <2>4. v = [from EXCEPT !.segs = @ \o p.segs]
      BY <1>6, <1>8, <2>2 DEF Matched
    <2>5. /\ v.scheme = root.scheme /\ v.auth = root.auth /\ v.rooted = TRUE
          /\ v.segs = from.segs \o p.segs
      BY <2>3, <2>4
    <2>6. /\ Bare(v) /\ NoHost(v) /\ v.rooted = TRUE /\ v.auth \in W
          /\ base \in Raws(W)
      <3>1. Bare(v) /\ NoHost(v)
        BY <1>1, <2>5, Zenon DEF Bare, NoHost
      <3>2. v.rooted = TRUE /\ v.auth \in W
        BY <1>3, <2>5
      <3> QED BY <2>1, <3>1, <3>2
    <2>7. CASE root.rooted
      <3>1. v.segs = root.segs \o p.segs /\ root.rooted = TRUE
        BY <1>3, <2>3, <2>5, <2>7
      <3>2. base.rooted = TRUE /\ v.segs = base.segs \o p.segs
        BY <2>1, <3>1
      <3>3. Leads(W, v, ResolvePath(Join(base, p), cwd, home))
        BY <2>6, <3>2, JoinRooted, Zenon
      <3> QED BY <1>5, <1>6, <3>3, Zenon
    <2>8. CASE root.home
      <3>1. ~root.rooted /\ root.home = TRUE
        BY <1>3, <1>4, <2>8
      <3>2. v.segs = home \o (root.segs \o p.segs)
        <4>1. v.segs = (home \o root.segs) \o p.segs
          <5>1. v.segs = from.segs \o p.segs
            BY <2>5
          <5>2. from.segs = home \o root.segs
            BY <2>3, <3>1
          <5> QED BY <5>1, <5>2, Zenon
        <4>2. Regroups(home, root.segs, p.segs)
          BY ThreeParts, Zenon
        <4> QED BY <4>1, <4>2, Zenon DEF Regroups
      <3>3. root.segs \o p.segs \in Seq(W \ {".."})
        <4>1. root.segs \in Seq(W \ {".."}) /\ p.segs \in Seq(W \ {".."})
          BY <1>2, <1>8, <2>8, WithoutUps
        <4> QED BY <4>1, ConcatProperties
      <3>4. /\ base.home = TRUE /\ v.segs = home \o (base.segs \o p.segs)
            /\ base.segs \o p.segs \in Seq(W \ {".."})
        BY <2>1, <3>1, <3>2, <3>3
      <3>5. Leads(W, v, ResolvePath(Join(base, p), cwd, home))
        BY <2>6, <3>4, JoinInHome, Zenon
      <3> QED BY <1>5, <1>6, <3>5, Zenon
    <2>9. CASE ~root.rooted /\ ~root.home
      <3>1. root.rooted = FALSE /\ root.home = FALSE
        BY <1>3, <2>9
      <3>2. v.segs = cwd \o (root.segs \o p.segs)
        <4>1. v.segs = (cwd \o root.segs) \o p.segs
          <5>1. v.segs = from.segs \o p.segs
            BY <2>5
          <5>2. from.segs = cwd \o root.segs
            BY <2>3, <3>1
          <5> QED BY <5>1, <5>2, Zenon
        <4>2. Regroups(cwd, root.segs, p.segs)
          BY ThreeParts, Zenon
        <4> QED BY <4>1, <4>2, Zenon DEF Regroups
      <3>3. /\ base.rooted = FALSE /\ base.home = FALSE
            /\ v.segs = cwd \o (base.segs \o p.segs)
        BY <2>1, <3>1, <3>2
      <3>4. Leads(W, v, ResolvePath(Join(base, p), cwd, home))
        BY <2>6, <3>3, JoinRelative, Zenon
      <3> QED BY <1>5, <1>6, <3>4, Zenon
    <2> QED BY <2>7, <2>8, <2>9
  <1> QED BY <1>7, <1>8

-----------------------------------------------------------------------------
(* What an entry of the workspace holds.                                   *)

LEMMA PrefixIs ==
  ASSUME NEW V, NEW s \in Seq(V), NEW t \in Seq(V)
  PROVE  IsPrefix(s, t) <=> Len(s) <= Len(t) /\ \A i \in 1 .. Len(s) : s[i] = t[i]
  <1>1. PICK m \in Nat, n \in Nat : m = Len(s) /\ n = Len(t)
    BY LenProperties
  <1>2. SubSeq(s, 1, m) = s
    BY <1>1, SubSeqFull
  <1>3. ASSUME m <= n
        PROVE  SubSeq(t, 1, m) = s <=> \A i \in 1 .. m : s[i] = t[i]
    <2>1. \A i \in 1 .. m : t[i] \in V
      BY <1>1, <1>3, ElementOfSeq
    <2>2. m \in Int /\ 1 \in Int /\ m - 1 + 1 = m /\ (~(1 <= m) => m = 0) /\ \A i \in 1 .. m : 1 + i - 1 = i
      OBVIOUS
    <2>3. PICK u : u = SubSeq(t, 1, m)
      OBVIOUS
    <2>4. /\ u \in Seq(V) /\ Len(u) = IF 1 <= m THEN m - 1 + 1 ELSE 0
          /\ \A i \in 1 .. m - 1 + 1 : u[i] = t[1 + i - 1]
      BY <2>1, <2>2, <2>3, SubSeqProperties
    <2>5. Len(u) = m /\ \A i \in 1 .. m : u[i] = t[i]
      BY <2>2, <2>4
    <2>6. (\A i \in 1 .. m : s[i] = t[i]) => u = s
      BY <1>1, <2>4, <2>5, SeqEqual
    <2> QED BY <2>3, <2>5, <2>6
  <1> QED BY <1>1, <1>2, <1>3 DEF IsPrefix

LEMMA PrefixKey ==
  ASSUME NEW V, NEW a \in V, NEW b \in V, NEW c \in V, NEW d \in V, NEW s \in Seq(V), NEW t \in Seq(V)
  PROVE  IsPrefix(<<a, b>> \o s, <<c, d>> \o t) <=> a = c /\ b = d /\ IsPrefix(s, t)
  <1>1. PICK m \in Nat, n \in Nat : m = Len(s) /\ n = Len(t)
    BY LenProperties
  <1>2. PICK u, w : u = <<a, b>> \o s /\ w = <<c, d>> \o t
    OBVIOUS
  <1>3. /\ u \in Seq(V) /\ w \in Seq(V) /\ Len(u) = 2 + m /\ Len(w) = 2 + n
        /\ u[1] = a /\ u[2] = b /\ w[1] = c /\ w[2] = d
        /\ \A i \in 1 .. m : u[i + 2] = s[i]
        /\ \A i \in 1 .. n : w[i + 2] = t[i]
    <2>1. <<a, b>> \in Seq(V) /\ Len(<<a, b>>) = 2 /\ <<c, d>> \in Seq(V) /\ Len(<<c, d>>) = 2
      OBVIOUS
    <2>2. PICK p \in Seq(V), q \in Seq(V) : p = <<a, b>> /\ q = <<c, d>>
      BY <2>1
    <2>3. p[1] = a /\ p[2] = b /\ q[1] = c /\ q[2] = d /\ Len(p) = 2 /\ Len(q) = 2
      BY <2>1, <2>2
    <2>4. u = p \o s /\ w = q \o t
      BY <1>2, <2>2
    <2>5. /\ u \in Seq(V) /\ Len(u) = 2 + m
          /\ \A i \in 1 .. 2 + m : u[i] = IF i <= 2 THEN p[i] ELSE s[i - 2]
      <3>1. /\ p \o s \in Seq(V) /\ Len(p \o s) = Len(p) + Len(s)
            /\ \A i \in 1 .. Len(p) + Len(s) :
                 (p \o s)[i] = IF i <= Len(p) THEN p[i] ELSE s[i - Len(p)]
        BY ConcatProperties
      <3> QED BY <1>1, <2>3, <2>4, <3>1, Zenon
    <2>6. /\ w \in Seq(V) /\ Len(w) = 2 + n
          /\ \A i \in 1 .. 2 + n : w[i] = IF i <= 2 THEN q[i] ELSE t[i - 2]
      <3>1. /\ q \o t \in Seq(V) /\ Len(q \o t) = Len(q) + Len(t)
            /\ \A i \in 1 .. Len(q) + Len(t) :
                 (q \o t)[i] = IF i <= Len(q) THEN q[i] ELSE t[i - Len(q)]
        BY ConcatProperties
      <3> QED BY <1>1, <2>3, <2>4, <3>1, Zenon
    <2>7. \A i \in 1 .. m : i + 2 \in 1 .. 2 + m /\ ~(i + 2 <= 2) /\ (i + 2) - 2 = i
      OBVIOUS
    <2>8. \A i \in 1 .. n : i + 2 \in 1 .. 2 + n /\ ~(i + 2 <= 2) /\ (i + 2) - 2 = i
      OBVIOUS
    <2>9. 1 \in 1 .. 2 + m /\ 2 \in 1 .. 2 + m /\ 1 \in 1 .. 2 + n /\ 2 \in 1 .. 2 + n
      OBVIOUS
    <2> QED BY <2>3, <2>5, <2>6, <2>7, <2>8, <2>9
  <1>4. IsPrefix(u, w) <=> 2 + m <= 2 + n /\ \A i \in 1 .. 2 + m : u[i] = w[i]
    <2>0. u \in Seq(V) /\ w \in Seq(V)
      BY <1>3
    <2>1. IsPrefix(u, w) <=> Len(u) <= Len(w) /\ \A i \in 1 .. Len(u) : u[i] = w[i]
      BY <2>0, PrefixIs
    <2> QED BY <1>3, <2>1, Zenon
  <1>5. IsPrefix(s, t) <=> m <= n /\ \A i \in 1 .. m : s[i] = t[i]
    BY <1>1, PrefixIs
  <1>6. ASSUME m <= n
        PROVE  (\A i \in 1 .. 2 + m : u[i] = w[i]) <=> a = c /\ b = d /\ \A i \in 1 .. m : s[i] = t[i]
    <2>1. \A i \in 1 .. m : i \in 1 .. n
      BY <1>6
    <2>2. ASSUME \A i \in 1 .. 2 + m : u[i] = w[i]
          PROVE  a = c /\ b = d /\ \A i \in 1 .. m : s[i] = t[i]
      <3>1. 1 \in 1 .. 2 + m /\ 2 \in 1 .. 2 + m /\ \A i \in 1 .. m : i + 2 \in 1 .. 2 + m
        OBVIOUS
      <3> QED BY <1>3, <2>1, <2>2, <3>1
    <2>3. ASSUME a = c, b = d, \A i \in 1 .. m : s[i] = t[i], NEW i \in 1 .. 2 + m
          PROVE  u[i] = w[i]
      <3>1. CASE i = 1 \/ i = 2
        BY <1>3, <2>3, <3>1
      <3>2. CASE ~(i = 1 \/ i = 2)
        <4>1. i - 2 \in 1 .. m /\ (i - 2) + 2 = i
          BY <3>2
        <4> QED BY <1>3, <2>1, <2>3, <4>1
      <3> QED BY <3>1, <3>2
    <2> QED BY <2>2, <2>3
  <1>7. 2 + m <= 2 + n <=> m <= n
    OBVIOUS
  <1> QED BY <1>2, <1>4, <1>5, <1>6, <1>7

LEMMA SameScheme ==
  ASSUME NEW v, NEW decl
  PROVE  SchemeOf(decl) = SchemeOf(v) <=>
           decl.scheme = v.scheme \/ {decl.scheme, v.scheme} = {"", "file"}
  BY Zenon DEF SchemeOf

\* An entry of the workspace that is taken leads where it says.
LEMMA EntryLeads ==
  ASSUME NEW W, Known(W), NEW decl \in Raws(W),
         LET e == ParseResource(decl) IN ~NoHost(e) \/ e.rooted
  PROVE  Leads(W, decl, decl)
  <1>1. CASE ~Bare(decl)
    BY <1>1, UriLeads
  <1>2. CASE Bare(decl)
    <2>1. PICK e : e = ParseResource(decl)
      OBVIOUS
    <2>2. /\ decl.scheme \in W /\ decl.auth \in W /\ decl.segs \in Seq(W)
          /\ decl.rooted \in BOOLEAN /\ decl.home \in BOOLEAN
      BY RawParts
    <2>3. NoHost(decl) /\ (decl.home => ~decl.rooted)
      BY <1>2, RawSplit
    <2>4. e.auth = decl.auth /\ e.rooted = decl.rooted
      BY <2>1, ParsedIs
    <2>5. decl.rooted = TRUE /\ decl.home = FALSE
      <3>1. NoHost(e)
        BY <2>3, <2>4, Zenon DEF NoHost
      <3> QED BY <2>1, <2>2, <2>3, <2>4, <3>1
    <2>6. ".." \in W /\ "file" \in W
      BY KnownHas
    <2>7. CleanPath(TRUE, decl.segs) = Place(decl.segs) /\ Place(decl.segs) \in Seq(W)
      BY <2>2, <2>6, RootedClean
    <2>8. e.scheme = SchemeOf(decl) /\ SchemeOf(decl) = "file" /\ e.segs = Place(decl.segs)
      BY <1>2, <2>1, <2>5, <2>7, ParsedIs, SchemeIs
    <2> QED BY <2>1, <2>2, <2>4, <2>5, <2>6, <2>7, <2>8 DEF Leads
  <1> QED BY <1>1, <1>2

\* Scope.Contains says of a place what is so of the string.
LEMMA HoldsIs ==
  ASSUME NEW W, NEW decl, NEW v, NEW l, Leads(W, decl, decl), Leads(W, v, l)
  PROVE  /\ Holds(ParseResource(decl), ParseResource(l)) => LiesIn(decl, v)
         /\ LiesIn(decl, v) /\ v.rooted => Holds(ParseResource(decl), ParseResource(l))
  <1>1. PICK e, r : e = ParseResource(decl) /\ r = ParseResource(l)
    OBVIOUS
  <1>2. /\ e.scheme = SchemeOf(decl) /\ e.auth = decl.auth /\ e.rooted = decl.rooted
        /\ e.segs = Place(decl.segs) /\ e.segs \in Seq(W) /\ e.scheme \in W /\ e.auth \in W
        /\ e.rooted \/ e.segs = <<>>
    BY <1>1 DEF Leads
  <1>3. /\ r.scheme = SchemeOf(v) /\ r.auth = v.auth /\ r.rooted = v.rooted
        /\ r.segs = Place(v.segs) /\ r.segs \in Seq(W) /\ r.scheme \in W /\ r.auth \in W
        /\ r.rooted \/ r.segs = <<>>
    BY <1>1 DEF Leads
  <1>4. ScopeKey(e) = <<e.scheme, e.auth>> \o e.segs /\ ScopeKey(r) = <<r.scheme, r.auth>> \o r.segs
    BY <1>2, <1>3 DEF ScopeKey
  <1>5. IsPrefix(ScopeKey(e), ScopeKey(r)) <=>
          e.scheme = r.scheme /\ e.auth = r.auth /\ IsPrefix(e.segs, r.segs)
    BY <1>2, <1>3, <1>4, PrefixKey
  <1>6. LiesIn(decl, v) <=>
          SchemeOf(decl) = SchemeOf(v) /\ v.auth = decl.auth /\ IsPrefix(Place(decl.segs), Place(v.segs))
    BY SameScheme, Zenon DEF LiesIn
  <1>7. IsPrefix(ScopeKey(e), ScopeKey(r)) <=> LiesIn(decl, v)
    BY <1>2, <1>3, <1>5, <1>6
  <1>8. v.rooted => ~IsEmptyPath(r)
    BY <1>3 DEF IsEmptyPath
  <1> QED BY <1>1, <1>7, <1>8 DEF Holds

LEMMA EmptyIs ==
  ASSUME NEW r
  PROVE  IsEmpty(r) <=> IsEmptyPath(r) /\ NoHost(r)
  BY Zenon DEF IsEmpty, NoHost

LEMMA ScopeValidIs ==
  ASSUME NEW decls, ScopeValid(decls), NEW i \in DOMAIN decls
  PROVE  LET e == ParseResource(decls[i]) IN ~NoHost(e) \/ e.rooted
  BY Zenon DEF ScopeValid, NoHost

LEMMA ScopeSays ==
  ASSUME NEW W, Known(W), NEW event, NEW config, config.workspace \in Seq(Raws(W)),
         ScopeValid(config.workspace), NEW v, NEW l \in Places(event), Leads(W, v, l)
  PROVE  /\ Outside(v, config) => l \in OutOfScope(event, config.workspace)
         /\ l \in OutOfScope(event, config.workspace) /\ v.rooted => Outside(v, config)
  <1>1. PICK ws \in Seq(Raws(W)) : ws = config.workspace
    OBVIOUS
  <1>2. PICK n \in Nat : n = Len(ws) /\ DOMAIN ws = 1 .. n
    BY LenProperties
  <1>3. PICK scope : scope = ScopeOf(ws)
    OBVIOUS
  <1>4. DOMAIN scope = DOMAIN ws /\ \A i \in DOMAIN ws : scope[i] = ParseResource(ws[i])
    BY <1>3 DEF ScopeOf
  <1>5. Declared(scope) <=> ws # <<>>
    <2>1. CASE ws = <<>>
      <3>1. scope = [i \in {} |-> ParseResource(ws[i])] /\ <<>> = [i \in {} |-> ParseResource(ws[i])]
        BY <1>3, <2>1 DEF ScopeOf
      <3> QED BY <2>1, <3>1 DEF Declared
    <2>2. CASE ws # <<>>
      <3>1. n # 0 /\ 1 \in DOMAIN scope
        BY <1>2, <1>4, <2>2, EmptySeq
      <3>2. scope # <<>>
        BY <3>1
      <3> QED BY <2>2, <3>2 DEF Declared
    <2> QED BY <2>1, <2>2
  <1>6. PICK r : r = ParseResource(l)
    OBVIOUS
  <1>7. ~IsEmpty(r)
    <2>1. r.rooted \/ ~NoHost(r)
      <3>1. /\ r.auth = v.auth /\ r.rooted = v.rooted /\ (v.rooted \/ ~NoHost(v))
        BY <1>6 DEF Leads
      <3> QED BY <3>1, Zenon DEF NoHost
    <2> QED BY <2>1, EmptyIs DEF IsEmptyPath
  <1>8. \A i \in DOMAIN ws : /\ Holds(scope[i], r) => LiesIn(ws[i], v)
                             /\ LiesIn(ws[i], v) /\ v.rooted => Holds(scope[i], r)
    <2> SUFFICES ASSUME NEW i \in DOMAIN ws
                 PROVE  /\ Holds(scope[i], r) => LiesIn(ws[i], v)
                        /\ LiesIn(ws[i], v) /\ v.rooted => Holds(scope[i], r)
      OBVIOUS
    <2>1. PICK decl \in Raws(W) : decl = ws[i]
      BY <1>2, ElementOfSeq
    <2>2. Leads(W, decl, decl)
      BY <1>1, <2>1, ScopeValidIs, EntryLeads
    <2>3. scope[i] = ParseResource(decl)
      BY <1>4, <2>1
    <2> QED BY <1>6, <2>1, <2>2, <2>3, HoldsIs
  <1>9. l \in OutOfScope(event, ws) <=> ws # <<>> /\ \A i \in DOMAIN ws : ~Holds(scope[i], r)
    BY <1>3, <1>4, <1>5, <1>6, <1>7, Zenon DEF OutOfScope, InScope
  <1>10. Outside(v, config) <=> ws # <<>> /\ \A i \in DOMAIN ws : ~LiesIn(ws[i], v)
    BY <1>1, Zenon DEF Outside
  <1> QED BY <1>1, <1>8, <1>9, <1>10

-----------------------------------------------------------------------------
(* What a call names and what the hook looks at: the same places.          *)

LEMMA RelativeIs ==
  ASSUME NEW segs
  PROVE  Relative(segs).segs = segs /\ Relative(segs).rooted = FALSE /\ Relative(segs).home = FALSE
  BY Zenon DEF Relative, Raw

LEMMA RelativeType ==
  ASSUME NEW W, Known(W), NEW segs \in Seq(W)
  PROVE  Relative(segs) \in Raws(W)
  <1>1. PICK e : e = "" /\ e \in W
    BY Zenon DEF Known
  <1>2. Relative(segs) = Raw(e, e, FALSE, segs)
    BY <1>1, Zenon DEF Relative
  <1>3. Raw(e, e, FALSE, segs) \in RawRecords(W)
    BY <1>1 DEF Raw, RawRecords
  <1>4. WellSplit(Relative(segs))
    BY Zenon DEF Relative, Raw, WellSplit
  <1> QED BY <1>2, <1>3, <1>4, Zenon DEF Raws

\* The strings a search is made of.
LEMMA RootsType ==
  ASSUME NEW W, Known(W), NEW event, Readable(event, W)
  PROVE  SearchRoots(event) \subseteq Raws(W) /\ Patterns(event) \subseteq Raws(W)
  <1>1. \A key : ValueAt(event, key) \subseteq Raws(W)
    BY DEF ValueAt, Readable
  <1>2. Relative(<<".">>) \in Raws(W)
    <2>1. <<".">> \in Seq(W)
      BY KnownHas
    <2> QED BY <2>1, RelativeType
  <1>3. SearchRoots(event) \subseteq ValueAt(event, "path") \cup {Relative(<<".">>)}
    BY Zenon DEF SearchRoots
  <1>4. Patterns(event) \subseteq ValueAt(event, "pattern")
    BY Zenon DEF Patterns
  <1> QED BY <1>1, <1>2, <1>3, <1>4

PathWords(event) == IF event.tool = "Bash" THEN ShellPaths(event.words) ELSE {}

LEMMA PlacesAre ==
  ASSUME NEW event
  PROVE  Places(event) =
           {ResolvePath(v, event.cwd, Tilde(event)) : v \in
              ExtractLocations(event.args) \cup SearchRoots(event) \cup PathWords(event)
              \cup {Join(BaseOf(root, p), p) :
                      root \in SearchRoots(event), p \in Patterns(event) \ {Relative(<<>>)}}}
  <1>1. SearchPlaces(event) = SearchRoots(event) \cup
          {Join(BaseOf(root, p), p) :
             root \in SearchRoots(event), p \in Patterns(event) \ {Relative(<<>>)}}
    BY DEF SearchPlaces
  <1> QED BY <1>1 DEF Places, PathWords

LEMMA SearchedPlace ==
  ASSUME NEW event, NEW root \in SearchRoots(event), NEW p \in Patterns(event),
         p # Relative(<<>>)
  PROVE  ResolvePath(Join(BaseOf(root, p), p), event.cwd, Tilde(event)) \in Places(event)
  <1>1. PICK j : j = Join(BaseOf(root, p), p)
    OBVIOUS
  <1>2. j \in SearchPlaces(event)
    BY <1>1 DEF SearchPlaces
  <1>3. ResolvePath(j, event.cwd, Tilde(event)) \in Places(event)
    BY <1>2 DEF Places
  <1> QED BY <1>1, <1>3, Zenon

\* The words of a command that the hook reads, and the strings under its keys.
LEMMA WordsRead ==
  ASSUME NEW W, NEW event, Readable(event, W)
  PROVE  PathWords(event) = Words(event) /\ Words(event) \subseteq Raws(W)
  <1>1. \A w \in event.words :
          w.form \notin {"option", "device", "plain"} <=> w.form \in {"bare", "assigned", "at"}
    BY Zenon DEF Readable
  <1>2. PathWords(event) = Words(event)
    <2>1. CASE event.tool = "Bash"
      <3>1. {x \in event.words : x.form \notin {"option", "device", "plain"}} =
              {x \in event.words : event.tool = "Bash" /\ x.form \in {"bare", "assigned", "at"}}
        BY <1>1, <2>1, Zenon
      <3> QED BY <2>1, <3>1, Zenon DEF PathWords, ShellPaths, Words
    <2>2. CASE event.tool # "Bash"
      BY <2>2 DEF PathWords, Words
    <2> QED BY <2>1, <2>2
  <1>3. Words(event) \subseteq Raws(W)
    BY DEF Words, Readable
  <1> QED BY <1>2, <1>3

\* The key the code goes by is the one a string stands under.
LEMMA KeyIs ==
  ASSUME NEW at, Len(at) \in Nat \ {0}, NEW keys, "[]" \notin keys
  PROVE  UnderKey(at, keys) <=> KeyOf(at) \in keys
  BY DEF UnderKey, KeyOf, Last

LEMMA HeldRead ==
  ASSUME NEW W, NEW event, Readable(event, W)
  PROVE  /\ Held(event) \subseteq ExtractLocations(event.args)
         /\ ExtractLocations(event.args) \subseteq Raws(W)
         /\ \A v \in ExtractLocations(event.args) : v \in Held(event) \/ (~Bare(v) /\ ~v.rooted)
  <1>1. \A l \in event.args : /\ Len(l.at) \in Nat /\ l.value \in Raws(W)
                              /\ Len(l.at) - 1 <= MaxDepth <=> Len(l.at) <= Nesting
                              /\ UnderKey(l.at, LocationKeys) <=> KeyOf(l.at) \in LocationKeys
                              /\ UnderKey(l.at, TargetKeys) <=> KeyOf(l.at) \in TargetKeys
    <2>1. \A n \in Nat : n - 1 <= MaxDepth <=> n <= Nesting
      BY DEF MaxDepth, Nesting
    <2>2. "[]" \notin LocationKeys /\ "[]" \notin TargetKeys
      BY DEF LocationKeys, TargetKeys
    <2>3. \A l \in event.args : Len(l.at) \in Nat \ {0} /\ l.value \in Raws(W)
      BY DEF Readable
    <2> QED BY <2>1, <2>2, <2>3, KeyIs
  <1>2. LocationKeys \subseteq TargetKeys
    BY DEF TargetKeys
  <1>3. \A l \in event.args :
          Reached(l.at) <=> Len(l.at) <= Nesting /\ KeyOf(l.at) \in TargetKeys
    BY <1>1 DEF Reached
  <1>4. \A v : LooksLikeLocation(v) <=> v.rooted \/ v.home \/ ~Bare(v)
    BY Zenon DEF LooksLikeLocation, Bare
  <1>5. Held(event) \subseteq ExtractLocations(event.args)
    BY <1>1, <1>2, <1>3, <1>4 DEF Held, ExtractLocations, IsBlank
  <1>6. ExtractLocations(event.args) \subseteq Raws(W)
    BY <1>1 DEF ExtractLocations
  <1>7. ASSUME NEW v \in ExtractLocations(event.args), ~(~Bare(v) /\ ~v.rooted)
        PROVE  v \in Held(event)
    <2>1. PICK l \in event.args : /\ v = l.value /\ Reached(l.at) /\ ~IsBlank(l.value)
                                  /\ KeyOf(l.at) \in LocationKeys \/ LooksLikeLocation(l.value)
      BY DEF ExtractLocations
    <2>2. KeyOf(l.at) \in LocationKeys \/ v.rooted \/ v.home
      BY <1>4, <1>7, <2>1
    <2>3. Len(l.at) <= Nesting /\ KeyOf(l.at) \in TargetKeys /\ v # Relative(<<>>)
      BY <1>3, <2>1 DEF IsBlank
    <2> QED BY <1>1, <2>1, <2>2, <2>3 DEF Held
  <1> QED BY <1>5, <1>6, <1>7

\* A blank pattern adds nothing.
LEMMA BlankPattern ==
  ASSUME NEW W, NEW cwd \in Seq(W), NEW home \in Seq(W), NEW root \in Raws(W)
  PROVE  Matched(root, Relative(<<>>), cwd, home) = FromRoot(root, cwd, home)
  <1>1. PICK p : p = Relative(<<>>)
    OBVIOUS
  <1>2. p.segs = <<>> /\ p.rooted = FALSE /\ p.home = FALSE
    BY <1>1, RelativeIs
  <1>3. PICK from : from = FromRoot(root, cwd, home)
    OBVIOUS
  <1>4. root \in RawRecords(W)
    BY DEF Raws
  <1>5. from \in RawRecords(W)
    <2>1. CASE ~Bare(root) \/ root.rooted
      BY <1>3, <1>4, <2>1, FromRootIs
    <2>2. CASE Bare(root) /\ ~root.rooted
      <3>1. from = [root EXCEPT !.rooted = TRUE, !.home = FALSE,
                                !.segs = (IF root.home THEN home ELSE cwd) \o @]
        BY <1>3, <2>2, Zenon DEF FromRoot, Bare
      <3>2. (IF root.home THEN home ELSE cwd) \o root.segs \in Seq(W)
        <4>1. root.segs \in Seq(W)
          BY RawParts
        <4>2. home \o root.segs \in Seq(W) /\ cwd \o root.segs \in Seq(W)
          BY <4>1, ConcatProperties
        <4> QED BY <4>2
      <3> QED BY <1>4, <3>1, <3>2 DEF RawRecords
    <2> QED BY <2>1, <2>2
  <1>6. Matched(root, p, cwd, home) = [from EXCEPT !.segs = @ \o <<>>]
    BY <1>2, <1>3 DEF Matched
  <1>7. from.segs \o <<>> = from.segs
    <2>1. from.segs \in Seq(W)
      BY <1>5 DEF RawRecords
    <2> QED BY <2>1, ConcatEmptySeq
  <1>8. [from EXCEPT !.segs = @ \o <<>>] = from
    BY <1>5, <1>7 DEF RawRecords
  <1> QED BY <1>1, <1>3, <1>6, <1>8

LEMMA MatchedRooted ==
  ASSUME NEW W, NEW cwd, NEW home, NEW root \in Raws(W), NEW p \in Raws(W),
         Searchable(root, p)
  PROVE  Matched(root, p, cwd, home).rooted
  <1>1. Bare(root) /\ Bare(p)
    BY Zenon DEF Searchable, Bare
  <1>2. FromRoot(root, cwd, home).rooted /\ FromRoot(p, cwd, home).rooted
    BY <1>1, FromRootIs
  <1>3. PICK from : from = FromRoot(root, cwd, home)
    OBVIOUS
  <1>4. [from EXCEPT !.segs = @ \o p.segs].rooted
    <2>1. "rooted" \in DOMAIN from
      <3>1. DOMAIN root = {"scheme", "auth", "rooted", "home", "segs"}
        BY RawParts
      <3>2. DOMAIN from = DOMAIN root
        BY <1>1, <1>3, Zenon DEF FromRoot, Bare
      <3> QED BY <3>1, <3>2
    <2> QED BY <1>2, <1>3, <2>1
  <1> QED BY <1>2, <1>3, <1>4 DEF Matched

\* A string that is not under ~ leads where it does whatever ~ is.
LEMMA TildeIs ==
  ASSUME NEW W, Known(W), NEW event, Readable(event, W)
  PROVE  Tilde(event) \in Seq(W)
  <1>1. event.cwd \in Seq(W) /\ (event.home # NoHome => event.home \in Seq(W))
    BY Zenon DEF Readable
  <1>2. Append(event.cwd, "~") \in Seq(W)
    BY <1>1, KnownHas, AppendProperties
  <1> QED BY <1>1, <1>2, Zenon DEF Tilde

LEMMA SameFrom ==
  ASSUME NEW event, NEW u, u.home => event.home # NoHome
  PROVE  FromRoot(u, event.cwd, event.home) = FromRoot(u, event.cwd, Tilde(event))
  <1>1. CASE event.home = NoHome
    BY <1>1, Zenon DEF FromRoot
  <1>2. CASE event.home # NoHome
    BY <1>2, Zenon DEF Tilde
  <1> QED BY <1>1, <1>2

LEMMA SameMatched ==
  ASSUME NEW event, NEW root, NEW p,
         root.home => event.home # NoHome, p.home => event.home # NoHome
  PROVE  Matched(root, p, event.cwd, event.home) = Matched(root, p, event.cwd, Tilde(event))
  BY SameFrom, Zenon DEF Matched

\* What the call names, one by one.
LEMMA NamedIs ==
  ASSUME NEW event, NEW v
  PROVE  v \in Named(event) <=>
           \/ \E u \in Located(SearchRoots(event) \cup Held(event) \cup Words(event), event) :
                v = FromRoot(u, event.cwd, event.home)
           \/ \E root \in Located(SearchRoots(event), event), p \in Located(Patterns(event), event) :
                v = Matched(root, p, event.cwd, event.home)
  <1> DEFINE ones == {FromRoot(u, event.cwd, event.home) :
                        u \in Located(SearchRoots(event) \cup Held(event) \cup Words(event), event)}
             searches == {Matched(root, p, event.cwd, event.home) :
                            root \in Located(SearchRoots(event), event),
                            p \in Located(Patterns(event), event)}
  <1>1. Named(event) = ones \cup searches
    BY DEF Named
  <1>2. v \in ones <=>
          \E u \in Located(SearchRoots(event) \cup Held(event) \cup Words(event), event) :
            v = FromRoot(u, event.cwd, event.home)
    OBVIOUS
  <1>3. v \in searches <=>
          \E root \in Located(SearchRoots(event), event), p \in Located(Patterns(event), event) :
            v = Matched(root, p, event.cwd, event.home)
    OBVIOUS
  <1>4. v \in Named(event) <=> v \in ones \/ v \in searches
    <2> HIDE DEF ones, searches
    <2> QED BY <1>1
  <1> HIDE DEF ones, searches
  <1> QED BY <1>2, <1>3, <1>4

\* Whatever the call names, the hook looks at a place where it leads.
LEMMA NamedSeen ==
  ASSUME NEW W, Known(W), NEW event, Readable(event, W),
         NEW v \in Named(event)
  PROVE  \E l \in Places(event) : Leads(W, v, l)
  <1>1. PICK cwd \in Seq(W), home \in Seq(W) : cwd = event.cwd /\ home = Tilde(event)
    BY TildeIs DEF Readable
  <1>2. ASSUME NEW u \in SearchRoots(event) \cup ExtractLocations(event.args) \cup PathWords(event)
        PROVE  ResolvePath(u, cwd, home) \in Places(event) /\ Leads(W, FromRoot(u, cwd, home), ResolvePath(u, cwd, home))
    <2>1. u \in Raws(W)
      BY RootsType, HeldRead, WordsRead
    <2>2. ResolvePath(u, cwd, home) \in Places(event)
      BY <1>1, PlacesAre
    <2> QED BY <2>1, <2>2, ResolvedLeads
  <1>3. CASE \E root \in SearchRoots(event), p \in Patterns(event) : v = Matched(root, p, cwd, home)
    <2>1. PICK root \in SearchRoots(event), p \in Patterns(event) : v = Matched(root, p, cwd, home)
      BY <1>3
    <2>2. root \in Raws(W) /\ p \in Raws(W)
      BY RootsType
    <2>3. CASE p = Relative(<<>>)
      BY <1>2, <2>1, <2>2, <2>3, BlankPattern
    <2>4. CASE p # Relative(<<>>)
      <3>1. Searchable(root, p)
        BY Zenon DEF Readable
      <3>2. Leads(W, v, ResolvePath(Join(BaseOf(root, p), p), cwd, home))
        BY <2>1, <2>2, <3>1, SearchLeads
      <3>3. ResolvePath(Join(BaseOf(root, p), p), cwd, home) \in Places(event)
        BY <1>1, <2>4, SearchedPlace
      <3> QED BY <3>2, <3>3, Zenon
    <2> QED BY <2>3, <2>4
  <1>4. CASE \E u \in SearchRoots(event) \cup Held(event) \cup Words(event) : v = FromRoot(u, cwd, home)
    BY <1>2, <1>4, HeldRead, WordsRead
  <1>5. CASE \E u \in Located(SearchRoots(event) \cup Held(event) \cup Words(event), event) :
               v = FromRoot(u, event.cwd, event.home)
    <2>1. PICK u \in SearchRoots(event) \cup Held(event) \cup Words(event) :
            v = FromRoot(u, event.cwd, event.home) /\ (u.home => event.home # NoHome)
      BY <1>5 DEF Located
    <2>2. v = FromRoot(u, cwd, home)
      BY <1>1, <2>1, SameFrom, Zenon
    <2> QED BY <1>4, <2>2
  <1>6. CASE \E root \in Located(SearchRoots(event), event), p \in Located(Patterns(event), event) :
               v = Matched(root, p, event.cwd, event.home)
    <2>1. PICK root \in SearchRoots(event), p \in Patterns(event) :
            /\ v = Matched(root, p, event.cwd, event.home)
            /\ root.home => event.home # NoHome
            /\ p.home => event.home # NoHome
      BY <1>6 DEF Located
    <2>2. v = Matched(root, p, cwd, home)
      BY <1>1, <2>1, SameMatched, Zenon
    <2> QED BY <1>3, <2>2
  <1> QED BY <1>5, <1>6, NamedIs

\* Whatever place the hook looks at, the call names a string that leads there.
LEMMA SeenNamed ==
  ASSUME NEW W, Known(W), NEW event, Readable(event, W), WithPaths(event), event.home # NoHome,
         NEW l \in Places(event)
  PROVE  \E v \in Named(event) : Leads(W, v, l) /\ v.rooted
  <1>1. PICK cwd \in Seq(W), home \in Seq(W) :
          cwd = event.cwd /\ home = event.home /\ home = Tilde(event)
    BY DEF Readable, Tilde
  <1>a. \A values : Located(values, event) = values
    BY DEF Located
  <1>b. \A u \in SearchRoots(event) \cup Held(event) \cup Words(event) :
          FromRoot(u, cwd, home) \in Named(event)
    BY <1>a, <1>1, NamedIs
  <1>c. \A root \in SearchRoots(event), p \in Patterns(event) :
          Matched(root, p, cwd, home) \in Named(event)
    BY <1>a, <1>1, NamedIs
  <1>2. ASSUME NEW u \in Raws(W), ~Bare(u) => u.rooted
        PROVE  Leads(W, FromRoot(u, cwd, home), ResolvePath(u, cwd, home)) /\ FromRoot(u, cwd, home).rooted
    <2>1. Leads(W, FromRoot(u, cwd, home), ResolvePath(u, cwd, home))
      BY <1>2, ResolvedLeads
    <2>2. FromRoot(u, cwd, home).rooted
      BY <1>2, FromRootIs
    <2> QED BY <2>1, <2>2
  <1>3. \A x \in event.args \cup event.words : ~Bare(x.value) => x.value.rooted
    BY Zenon DEF WithPaths, Bare
  <1>4. PICK u : /\ l = ResolvePath(u, cwd, home)
                 /\ \/ u \in ExtractLocations(event.args) \/ u \in SearchRoots(event)
                    \/ u \in PathWords(event)
                    \/ \E root \in SearchRoots(event), p \in Patterns(event) \ {Relative(<<>>)} :
                         u = Join(BaseOf(root, p), p)
    BY <1>1, PlacesAre
  <1>5. CASE u \in ExtractLocations(event.args)
    <2>1. ~Bare(u) => u.rooted
      BY <1>3, <1>5 DEF ExtractLocations
    <2>2. u \in Raws(W) /\ u \in Held(event)
      BY <1>5, <2>1, HeldRead
    <2>3. FromRoot(u, cwd, home) \in Named(event)
      BY <1>b, <2>2
    <2> QED BY <1>2, <1>4, <2>1, <2>2, <2>3
  <1>6. CASE u \in SearchRoots(event)
    <2>1. u \in Raws(W)
      BY <1>6, RootsType
    <2>2. ~Bare(u) => u.rooted
      <3>1. u \in ValueAt(event, "path") \/ u = Relative(<<".">>)
        BY <1>6, Zenon DEF SearchRoots
      <3>2. CASE u \in ValueAt(event, "path")
        BY <1>3, <3>2 DEF ValueAt
      <3>3. CASE u = Relative(<<".">>)
        BY <3>3, Zenon DEF Relative, Raw, Bare
      <3> QED BY <3>1, <3>2, <3>3
    <2>3. FromRoot(u, cwd, home) \in Named(event)
      BY <1>b, <1>6
    <2> QED BY <1>2, <1>4, <2>1, <2>2, <2>3
  <1>7. CASE u \in PathWords(event)
    <2>1. u \in Raws(W) /\ u \in Words(event)
      BY <1>7, WordsRead
    <2>2. ~Bare(u) => u.rooted
      BY <1>3, <2>1 DEF Words
    <2>3. FromRoot(u, cwd, home) \in Named(event)
      BY <1>b, <2>1
    <2> QED BY <1>2, <1>4, <2>1, <2>2, <2>3
  <1>8. CASE \E root \in SearchRoots(event), p \in Patterns(event) \ {Relative(<<>>)} :
               u = Join(BaseOf(root, p), p)
    <2>1. PICK root \in SearchRoots(event), p \in Patterns(event) : u = Join(BaseOf(root, p), p)
      BY <1>8
    <2>2. root \in Raws(W) /\ p \in Raws(W)
      BY RootsType
    <2>3. Searchable(root, p)
      BY Zenon DEF Readable
    <2>4. Leads(W, Matched(root, p, cwd, home), l)
      BY <1>4, <2>1, <2>2, <2>3, SearchLeads
    <2>5. Matched(root, p, cwd, home) \in Named(event)
      BY <1>c, <2>1
    <2>6. Matched(root, p, cwd, home).rooted
      BY <2>2, <2>3, MatchedRooted
    <2> QED BY <2>4, <2>5, <2>6
  <1> QED BY <1>4, <1>5, <1>6, <1>7, <1>8

-----------------------------------------------------------------------------
(* What a policy that guards the workspace decides, and what it means.     *)

LEMMA GuardDenies ==
  ASSUME NEW config, GuardsWorkspace(config), WellFormed(config.policy),
         NEW facts, "outside" \in facts
  PROVE  Verdict(config, Evaluate(config.policy, facts)) = "deny"
  <1>1. PICK rules \in Seq(Rules) : rules = config.policy.rules
    BY DEF WellFormed
  <1>2. PICK n \in Nat : n = Len(rules) /\ DOMAIN rules = 1 .. n
    BY LenProperties
  <1>3. PICK i \in 1 .. n : /\ rules[i].when = "outside" /\ rules[i].effect = "deny"
                            /\ config.mode = "enforce" \/ rules[i].always
                            /\ \A j \in 1 .. i - 1 : rules[j].effect = "audit"
    BY <1>1, <1>2 DEF GuardsWorkspace
  <1> DEFINE decisive == {j \in DOMAIN rules : /\ Matches(rules[j], facts)
                                               /\ rules[j].effect # "audit"}
  <1>4. i \in decisive
    BY <1>2, <1>3 DEF Matches
  <1>5. decisive \in SUBSET Nat /\ \A j \in decisive : i <= j
    <2>1. \A j \in 1 .. n : j \in Nat /\ (~(i <= j) => j \in 1 .. i - 1)
      OBVIOUS
    <2> QED BY <1>2, <1>3, <2>1
  <1>6. Min(decisive) = i
    <2> HIDE DEF decisive
    <2> QED BY <1>4, <1>5, MinIs
  <1>7. Evaluate(config.policy, facts) = [effect |-> rules[i].effect, always |-> rules[i].always]
    <2>1. decisive # {} /\ config.policy.rules = rules
      BY <1>1, <1>4
    <2>2. Evaluate(config.policy, facts) =
            [effect |-> rules[Min(decisive)].effect, always |-> rules[Min(decisive)].always]
      BY <2>1, Zenon DEF Evaluate
    <2> QED BY <1>6, <2>2, Zenon
  <1> QED BY <1>3, <1>7 DEF Verdict, IsUnenforced

\* The runs that are read, of a hook that has started.
LEMMA RunIsRead ==
  ASSUME NEW W, ReadableRuns(W), HookInv, NEW h \in Hooks, run[h] # NoRun, Usable(h)
  PROVE  /\ Known(W)
         /\ Readable(run[h].event, W) /\ run[h].event.form = "pre"
         /\ run[h].config.workspace \in Seq(Raws(W)) /\ ScopeValid(run[h].config.workspace)
         /\ WellFormed(run[h].config.policy)
         /\ \E r \in Runs : run[h].event = r.event /\ run[h].config = r.config
  <1>1. PICK r \in Runs : run[h].event = r.event /\ run[h].config = r.config
    BY DEF HookInv, RunInv, RunOK
  <1>2. Known(W)
    BY Zenon DEF ReadableRuns, Known
  <1>3. /\ r.event.form # "other" /\ r.event.form # "garbage"
        /\ r.config.policy # NoPolicy /\ ScopeValid(r.config.workspace)
    BY <1>1 DEF Usable, NotOurs, CannotCheck
  <1>4. r.event.form = "pre" /\ WellFormed(r.config.policy)
    BY <1>3, HookAssumption
  <1>5. Readable(r.event, W) /\ r.config.workspace \in Seq(Raws(W))
    BY <1>4, Zenon DEF ReadableRuns
  <1> QED BY <1>1, <1>2, <1>3, <1>4, <1>5

-----------------------------------------------------------------------------
(* The theorems.                                                           *)

\* Variables keep to their values: only the last line of the log is unfinished,
\* a writer acts on a decision after it was written or reported, and a hook
\* answers last.
THEOREM HookTypeCorrect == HookSpec => []HookType
  <1>1. HookInv => HookType
    <2> SUFFICES ASSUME HookInv
                 PROVE  HookType
      OBVIOUS
    <2>1. AuditType
      <3>1. \A p \in Writers :
              /\ proc[p].pc \in {"down", "ready", "write", "act"}
              /\ proc[p].broken \in BOOLEAN
              /\ proc[p].hand \in 0 .. Len(decisions)
              /\ proc[p].pc = "act" => proc[p].hand \in written \cup reported
        BY DEF HookInv, AuditInv, WriterType
      <3>2. written \cup reported \cup carried \subseteq 1 .. Len(decisions)
        BY DEF HookInv, AuditInv, WriterType, CarriedInv
      <3> QED BY <3>1, <3>2 DEF HookInv, AuditInv, LogType, WriterType, AuditType
    <2>2. \A h \in Hooks :
            /\ run[h].answer \in {"none", "deny", "pass"}
            /\ run[h].id \in 0 .. Len(decisions)
            /\ proc[h].pc = "ready" => run[h].id = 0 /\ run[h].answer = "none"
            /\ proc[h].pc \in {"write", "act"} =>
                 run[h].id = proc[h].hand /\ run[h].answer = "none"
      BY DEF HookInv, RunInv, RunOK, RecordOK, NoRun
    <2> QED BY <2>1, <2>2 DEF HookType
  <1> QED BY <1>1, HookInvariant, PTL

\* "It never fails open": whatever goes wrong on the way, a hook lets a call
\* through only under a policy, a mode and a workspace that it could use.
THEOREM HookNeverFailsOpen == HookSpec => []NeverFailsOpen
  <1>1. HookInv => NeverFailsOpen
    <2> SUFFICES ASSUME HookInv, NEW h \in Hooks, run[h].answer = "pass",
                        run[h].event.form # "other",
                        ~(run[h].config.skipMCP /\ run[h].event.mcp)
                 PROVE  /\ run[h].event.form = "pre" /\ run[h].config.policy # NoPolicy
                        /\ run[h].config.mode \in {"enforce", "monitor"}
                        /\ \A i \in DOMAIN run[h].config.workspace :
                             \/ run[h].config.workspace[i].rooted
                             \/ run[h].config.workspace[i].auth # ""
      BY DEF NeverFailsOpen
    <2>1. run[h] # NoRun
      BY DEF NoRun
    <2>2. /\ \E r \in Runs : run[h].event = r.event /\ run[h].config = r.config
          /\ LetThrough(h)
      BY <2>1 DEF HookInv, RunInv, RunOK
    <2>3. Usable(h)
      BY <2>2 DEF LetThrough, NotOurs
    <2>4. run[h].event.form \in {"garbage", "other", "pre"}
      BY <2>2, HookAssumption
    <2>5. /\ run[h].event.form # "garbage" /\ run[h].config.policy # NoPolicy
          /\ run[h].config.mode \in {"enforce", "monitor"}
          /\ ScopeValid(run[h].config.workspace)
      BY <2>3 DEF Usable, CannotCheck
    <2>6. \A i \in DOMAIN run[h].config.workspace :
            \/ run[h].config.workspace[i].rooted
            \/ run[h].config.workspace[i].auth # ""
      BY <2>5 DEF ScopeValid, ParseResource
    <2> QED BY <2>4, <2>5, <2>6
  <1> QED BY <1>1, HookInvariant, PTL

\* No call that names a place outside the workspace is let through under a
\* policy that guards it, whatever its strings are made of.
THEOREM NoCallEscapes ==
  ASSUME NEW W, ReadableRuns(W)
  PROVE  HookSpec => []NothingEscapes
  <1>1. HookInv => NothingEscapes
    <2> SUFFICES ASSUME HookInv, NEW h \in Hooks, run[h].answer = "pass",
                        run[h].event.form = "pre",
                        ~(run[h].config.skipMCP /\ run[h].event.mcp),
                        GuardsWorkspace(run[h].config),
                        NEW v \in Named(run[h].event), Outside(v, run[h].config)
                 PROVE  FALSE
      BY DEF NothingEscapes, PassesGuard
    <2> DEFINE event  == run[h].event
               config == run[h].config
    <2>1. run[h] # NoRun
      BY DEF NoRun
    <2>2. LetThrough(h) /\ ~NotOurs(event, config)
      BY <2>1 DEF HookInv, RunInv, RunOK, NotOurs
    <2>3. Usable(h) /\ Verdict(config, DecisionOf(h)) = "pass"
      BY <2>2 DEF LetThrough
    <2>4. /\ Known(W) /\ Readable(event, W)
          /\ config.workspace \in Seq(Raws(W)) /\ ScopeValid(config.workspace)
          /\ WellFormed(config.policy)
      BY <2>1, <2>3, RunIsRead
    <2>5. PICK l \in Places(event) : Leads(W, v, l)
      BY <2>4, NamedSeen
    <2>6. l \in OutOfScope(event, config.workspace)
      BY <2>4, <2>5, ScopeSays
    <2>7. "outside" \in Facts(event, config)
      BY <2>6 DEF Facts
    <2>8. Verdict(config, Evaluate(config.policy, Facts(event, config))) = "deny"
      BY <2>4, <2>7, GuardDenies
    <2> QED BY <2>3, <2>8 DEF DecisionOf
  <1> QED BY <1>1, HookInvariant, PTL

\* No call is refused for where it leads that leads nowhere outside.
THEOREM OnlyOutsideRefused ==
  ASSUME NEW W, ReadableRuns(W), \A r \in Runs : r.event.form = "pre" => WithPaths(r.event)
  PROVE  HookSpec => []NothingInsideRefused
  <1>1. HookInv => NothingInsideRefused
    <2> SUFFICES ASSUME HookInv, NEW h \in Hooks, proc[h].pc = "act",
                        run[h].event.home # NoHome,
                        decisions[proc[h].hand].effect = "deny",
                        Evaluate(run[h].config.policy, {}).effect # "deny"
                 PROVE  \E v \in Named(run[h].event) : Outside(v, run[h].config)
      BY DEF NothingInsideRefused
    <2> DEFINE event  == run[h].event
               config == run[h].config
    <2>1. /\ run[h] # NoRun /\ Usable(h) /\ run[h].id = proc[h].hand /\ run[h].id # 0
      BY StartedRun DEF NoRun, Fields
    <2>2. /\ Known(W) /\ Readable(event, W) /\ event.form = "pre"
          /\ config.workspace \in Seq(Raws(W)) /\ ScopeValid(config.workspace)
          /\ \E r \in Runs : event = r.event /\ config = r.config
      BY <2>1, RunIsRead
    <2>3. Evaluate(config.policy, Facts(event, config)).effect = "deny"
      BY <2>1 DEF HookInv, RunInv, RecordOK, DecisionOf
    <2>4. PICK l : l \in OutOfScope(event, config.workspace)
      BY <2>3 DEF Facts
    <2>5. l \in Places(event)
      BY <2>4 DEF OutOfScope
    <2>6. PICK v \in Named(event) : Leads(W, v, l) /\ v.rooted
      BY <2>2, <2>5, SeenNamed
    <2>7. Outside(v, config)
      BY <2>2, <2>4, <2>5, <2>6, ScopeSays
    <2> QED BY <2>6, <2>7
  <1> QED BY <1>1, HookInvariant, PTL

\* What is read back of a hook's decision agrees with what the harness was told.
THEOREM RecordsSayAnswers == HookSpec => []RecordSaysAnswer
  <1>1. HookInv => RecordSaysAnswer
    <2> SUFFICES ASSUME HookInv, NEW h \in Hooks, run[h].id # 0, run[h].answer # "none"
                 PROVE  EntryOf(run[h].id).enforced <=> run[h].answer = "deny"
      BY DEF RecordSaysAnswer
    <2> DEFINE d  == DecisionOf(h)
               id == run[h].id
    <2>1. /\ decisions[id].effect = d.effect
          /\ decisions[id].unenforced <=> IsUnenforced(run[h].config, d)
          /\ run[h].answer = Verdict(run[h].config, d)
      BY DEF HookInv, RunInv, RecordOK
    <2> HIDE DEF d
    <2>2. /\ RecordOf(id).effect = decisions[id].effect
          /\ RecordOf(id).enforced = IF decisions[id].effect # "deny" THEN "absent"
                                     ELSE IF decisions[id].unenforced THEN "false" ELSE "true"
      BY DEF RecordOf, Attributes, Old
    <2>3. EntryOf(id).enforced <=>
            RecordOf(id).enforced = "true"
              \/ (RecordOf(id).effect = "deny" /\ RecordOf(id).enforced = "absent")
      BY DEF EntryOf
    <2>4. EntryOf(id).enforced <=>
            decisions[id].effect = "deny" /\ ~decisions[id].unenforced
      BY <2>2, <2>3
    <2> QED BY <2>1, <2>4 DEF Verdict
  <1> QED BY <1>1, HookInvariant, PTL

\* No decision is carried out and lost in silence.
THEOREM NothingLostInSilence == HookSpec => []NoSilentLoss
  <1>1. HookInv => NoSilentLoss
    BY NoSilentLossHolds DEF HookInv
  <1> QED BY <1>1, HookInvariant, PTL

\* Every record that was written well and is not read back has a write that was
\* cut off to account for it, and one for each.
THEOREM TearsHideOne == HookSpec => []TearHidesOne
  <1>1. HookInv => TearHidesOne
    BY TearHidesOneHolds DEF HookInv
  <1> QED BY <1>1, HookInvariant, PTL

\* The report's two counts are of the calls that were refused and of those that
\* monitor mode let through.
THEOREM ReportAlwaysTrue == HookSpec => []ReportIsTrue
  <1> QED BY ReportIsTrueHolds, PTL

\* What is on a finished line stays where it is, whoever starts, fails or dies.
THEOREM LogAppendOnly == HookSpec => AppendOnly
  <1>1. HookInv /\ [HookNext]_hookVars
          => [\A i \in DOMAIN log : log[i].ended => i \in DOMAIN log' /\ log'[i] = log[i]]_log
    BY AuditNextKeeps DEF HookInv, Kept
  <1> QED BY <1>1, HookInvariant, PTL DEF HookSpec, AppendOnly
=============================================================================
