------------------------------ MODULE AuditLog ------------------------------
(***************************************************************************)
(* One audit log and the processes that append to it: sessions of the      *)
(* proxy, each with one audit.Writer for its life, and hooks, each with a  *)
(* Writer for the single decision it makes.  All of them open the file     *)
(* with O_APPEND.  A record is one line, written in one call; a kill or a   *)
(* failing disk may leave any prefix of it, and whoever appends next       *)
(* continues that line.  Read and the report see the file as it is.        *)
(***************************************************************************)
EXTENDS Naturals, FiniteSets, SequencesExt

CONSTANTS
  Sessions,      \* proxy processes
  Hooks,         \* hook processes
  MaxDecisions,  \* decisions made
  MaxStarts      \* processes started

ASSUME AuditAssumption ==
  /\ Sessions \cap Hooks = {}
  /\ MaxDecisions \in Nat /\ MaxStarts \in Nat

Writers == Sessions \cup Hooks

VARIABLES
  log,        \* the lines: [parts, ended], a part [id, whole]
  proc,       \* per writer: where it is, its encoder, what it has in hand
  decisions,  \* the DecisionEvents, in the order they were made
  starts,     \* processes started
  \* History.
  written,    \* decisions whose Encode returned no error
  reported,   \* decisions lost by a writer that has called onError
  carried,    \* decisions that have been carried out
  tears       \* writes that left part of a line

auditVars == <<log, proc, decisions, starts, written, reported, carried, tears>>

Down == [pc |-> "down", broken |-> FALSE, hand |-> 0]

\* What was there already: nothing, or a record of a release that had no
\* monitor mode, on a line of its own or cut off by a kill.
Old == 0
AuditInit ==
  /\ log \in {<<>>} \cup
       {<<[parts |-> <<[id |-> Old, whole |-> w]>>, ended |-> w]>> : w \in BOOLEAN}
  /\ proc = [p \in Writers |-> Down]
  /\ decisions = <<>> /\ starts = 0
  /\ written = {} /\ reported = {} /\ carried = {}
  /\ tears = IF log # <<>> /\ ~Last(log).ended THEN 1 ELSE 0

-----------------------------------------------------------------------------
(* A record and what is read back from it.                                 *)

\* Variant: a violation that monitor mode let through is not marked.
MarkRefusedOnly(ev) ==
  [effect |-> ev.effect, long |-> ev.long,
   enforced |-> IF ev.effect = "deny" /\ ~ev.unenforced THEN "true" ELSE "absent"]

\* Every deny says whether it was carried out.
Attributes(ev) ==
  [effect |-> ev.effect, long |-> ev.long,
   enforced |-> IF ev.effect # "deny" THEN "absent"
                ELSE IF ev.unenforced THEN "false" ELSE "true"]

RecordOf(id) ==
  IF id = Old THEN [effect |-> "deny", long |-> FALSE, enforced |-> "absent"]
  ELSE Attributes(decisions[id])

\* A deny that does not say was enforced.
EntryOf(id) ==
  LET rec == RecordOf(id) IN
  [id |-> id, effect |-> rec.effect,
   enforced |-> rec.enforced = "true"
                  \/ (rec.effect = "deny" /\ rec.enforced = "absent")]

Breach(entry) == entry.effect = "deny"

\* A line parses when it is one whole record and nothing else, with or without
\* the newline.
Parses(line) == Len(line.parts) = 1 /\ line.parts[1].whole

\* A record longer than the scanner's buffer ends the reading with an error.
TooLong(line) ==
  \E i \in DOMAIN line.parts : line.parts[i].whole /\ RecordOf(line.parts[i].id).long

ReadFails == \E i \in DOMAIN log : TooLong(log[i])

\* The lines the scanner returns.
Scanned == {i \in DOMAIN log : \A j \in 1 .. i : ~TooLong(log[j])}

\* Variant: reading stops at the first line that does not parse.
ReadToTear ==
  [i \in {i \in Scanned : \A j \in 1 .. i : Parses(log[j])} |-> EntryOf(log[i].parts[1].id)]

\* audit.Read, as the entry of each line that has one: lines that do not parse
\* are reported and skipped.
Read == [i \in {i \in Scanned : Parses(log[i])} |-> EntryOf(log[i].parts[1].id)]

Skipped == {i \in Scanned : ~Parses(log[i])}

\* cmdReport's two counts of breaches.
Blocked == Cardinality({i \in DOMAIN Read : Breach(Read[i]) /\ Read[i].enforced})
Allowed == Cardinality({i \in DOMAIN Read : Breach(Read[i]) /\ ~Read[i].enforced})

-----------------------------------------------------------------------------
(* Writing.                                                                *)

\* O_APPEND: after whatever is there, be it an unfinished line.
AppendTo(lines, part, ended) ==
  IF lines # <<>> /\ ~Last(lines).ended
    THEN Append(Front(lines),
                [parts |-> Append(Last(lines).parts, part), ended |-> ended])
    ELSE Append(lines, [parts |-> <<part>>, ended |-> ended])

\* What a write that does not complete may leave: nothing, some of the record,
\* or all of it but the newline.
Torn(lines, id) ==
  {lines} \cup {AppendTo(lines, [id |-> id, whole |-> w], FALSE) : w \in BOOLEAN}

Interrupted(id) ==
  \E left \in Torn(log, id) :
    /\ log' = left
    /\ tears' = IF left = log THEN tears ELSE tears + 1

\* Variant: the file is opened with O_TRUNC.
StartTruncating(p) ==
  /\ proc[p].pc = "down" /\ starts < MaxStarts
  /\ starts' = starts + 1
  /\ proc' = [proc EXCEPT ![p] = [Down EXCEPT !.pc = "ready"]]
  /\ log' = <<>>
  /\ UNCHANGED <<decisions, written, reported, carried, tears>>

\* audit.New on a file opened for appending.
Start(p) ==
  /\ proc[p].pc = "down" /\ starts < MaxStarts
  /\ starts' = starts + 1
  /\ proc' = [proc EXCEPT ![p] = [Down EXCEPT !.pc = "ready"]]
  /\ UNCHANGED <<log, decisions, written, reported, carried, tears>>

\* The observer is called with a decision.
Decide(p, effect, unenforced, long) ==
  /\ proc[p].pc = "ready" /\ Len(decisions) < MaxDecisions
  /\ decisions' = Append(decisions,
       [effect |-> effect, unenforced |-> unenforced, long |-> long])
  /\ proc' = [proc EXCEPT ![p].pc = "write", ![p].hand = Len(decisions')]
  /\ UNCHANGED <<log, starts, written, reported, carried, tears>>

\* Variant: the newline is left to the next record.
EncodeWithoutNewline(p) ==
  /\ proc[p].pc = "write" /\ ~proc[p].broken
  /\ log' = AppendTo(log, [id |-> proc[p].hand, whole |-> TRUE], FALSE)
  /\ written' = written \cup {proc[p].hand}
  /\ proc' = [proc EXCEPT ![p].pc = "act"]
  /\ UNCHANGED <<decisions, starts, reported, carried, tears>>

EncodeWrites(p) ==
  /\ proc[p].pc = "write" /\ ~proc[p].broken
  /\ log' = AppendTo(log, [id |-> proc[p].hand, whole |-> TRUE], TRUE)
  /\ written' = written \cup {proc[p].hand}
  /\ proc' = [proc EXCEPT ![p].pc = "act"]
  /\ UNCHANGED <<decisions, starts, reported, carried, tears>>

\* Variant: the broken encoder's error is dropped.
EncodeFailsSilently(p) ==
  /\ proc[p].pc = "write"
  /\ IF proc[p].broken THEN UNCHANGED <<log, tears>> ELSE Interrupted(proc[p].hand)
  /\ proc' = [proc EXCEPT ![p].pc = "act", ![p].broken = TRUE]
  /\ reported' = IF proc[p].broken THEN reported ELSE reported \cup {proc[p].hand}
  /\ UNCHANGED <<decisions, starts, written, carried>>

\* The first failed write breaks the encoder, which then refuses every record
\* without writing.  onError is called for the first one alone.
EncodeFails(p) ==
  /\ proc[p].pc = "write"
  /\ IF proc[p].broken THEN UNCHANGED <<log, tears>> ELSE Interrupted(proc[p].hand)
  /\ proc' = [proc EXCEPT ![p].pc = "act", ![p].broken = TRUE]
  /\ reported' = reported \cup {proc[p].hand}
  /\ UNCHANGED <<decisions, starts, written, carried>>

\* The call is forwarded or refused; a hook has answered and exits.
Act(p) ==
  /\ proc[p].pc = "act"
  /\ carried' = carried \cup {proc[p].hand}
  /\ proc' = [proc EXCEPT ![p] =
       IF p \in Hooks THEN Down ELSE [@ EXCEPT !.pc = "ready", !.hand = 0]]
  /\ UNCHANGED <<log, decisions, starts, written, reported, tears>>

\* The process is killed, or a session ends.
Crash(p) ==
  /\ proc[p].pc # "down"
  /\ IF proc[p].pc = "write" /\ ~proc[p].broken
       THEN Interrupted(proc[p].hand) ELSE UNCHANGED <<log, tears>>
  /\ proc' = [proc EXCEPT ![p] = Down]
  /\ UNCHANGED <<decisions, starts, written, reported, carried>>

SessionDecides(p) ==
  \/ \E long \in BOOLEAN : Decide(p, "allow", FALSE, long)
  \/ \E unenforced \in BOOLEAN : Decide(p, "deny", unenforced, FALSE)

WriterStep(p) ==
  Start(p) \/ EncodeWrites(p) \/ EncodeFails(p) \/ Act(p) \/ Crash(p)

AuditNext ==
  \E p \in Writers : SessionDecides(p) \/ WriterStep(p)
AuditSpec == AuditInit /\ [][AuditNext]_auditVars

-----------------------------------------------------------------------------
\* Variables keep to their values; only the last line is unfinished, and a
\* writer acts on a decision after it was written or reported.
AuditType ==
  /\ \A i \in DOMAIN log :
       /\ log[i].parts # <<>>
       /\ i < Len(log) => log[i].ended
       /\ \A k \in DOMAIN log[i].parts : log[i].parts[k].id \in 0 .. Len(decisions)
  /\ \A p \in Writers :
       /\ proc[p].pc \in {"down", "ready", "write", "act"}
       /\ proc[p].broken \in BOOLEAN
       /\ proc[p].hand \in 0 .. Len(decisions)
       /\ proc[p].pc = "act" => proc[p].hand \in written \cup reported
  /\ Len(decisions) <= MaxDecisions /\ starts \in 0 .. MaxStarts
  /\ written \cup reported \cup carried \subseteq 1 .. Len(decisions)

\* "A process that dies mid-session still leaves the evidence of everything it
\* decided up to that point": a decision that has been carried out is read
\* back, or its writer has called onError, or the reader is told of a line it
\* is in or of an error.  No decision is carried out and lost in silence.
NoSilentLoss ==
  \A id \in carried :
    \/ \E i \in DOMAIN Read : Read[i].id = id
    \/ id \in reported
    \/ \E i \in Skipped : \E k \in DOMAIN log[i].parts :
         log[i].parts[k].id = id
    \/ ReadFails

\* A write that was cut off hides at most one record that was written well: the
\* one that continues its line.
TearHidesOne ==
  ~ReadFails => Cardinality({id \in written : \A i \in DOMAIN Read : Read[i].id # id}) <= tears

\* "An audit log that a restart erases is not an audit log": what is on a
\* finished line stays where it is, through kills, failures and restarts.
AppendOnly ==
  [][\A i \in DOMAIN log : log[i].ended => i \in DOMAIN log' /\ log'[i] = log[i]]_log

\* The report counts as blocked the calls that were refused and as allowed the
\* violations that monitor mode let through, of those that can be read; a deny
\* of a release without monitor mode was a refusal.
ReportIsTrue ==
  LET ids(P(_)) == {i \in DOMAIN Read : P(Read[i].id)}
  IN  /\ Blocked = Cardinality(ids(LAMBDA id :
           id = Old \/ (decisions[id].effect = "deny" /\ ~decisions[id].unenforced)))
      /\ Allowed = Cardinality(ids(LAMBDA id :
           id # Old /\ decisions[id].effect = "deny" /\ decisions[id].unenforced))
=============================================================================
