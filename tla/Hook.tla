-------------------------------- MODULE Hook --------------------------------
(***************************************************************************)
(* `chokepoint hook`: one process per tool call of the harness.  It reads  *)
(* an event, loads the policy, decides, records the decision in the audit  *)
(* log it shares with other hooks and sessions, and answers.  The harness  *)
(* lets a call through unless the answer is a deny.                        *)
(*                                                                         *)
(* An event is [form, mcp, tool, args, words, cwd, home]: form "garbage"   *)
(* for what does not decode, "other" for another kind of event, "pre" for  *)
(* PreToolUse; words are those of a shell command, [form, value]; cwd and  *)
(* home the segments of the working folder, and of the home folder in the  *)
(* environment the hook is started with, or NoHome.  A configuration is    *)
(* [skipMCP, records, policy, mode, workspace]: policy NoPolicy when the   *)
(* file does not load, mode the --mode option or the policy's own,         *)
(* workspace the declared entries.                                         *)
(***************************************************************************)
EXTENDS AuditLog, TargetPaths, Policy

CONSTANTS
  Runs,      \* what a hook is given: [event, config]
  NoPolicy,  \* a policy file that does not load
  NoHome     \* the home folder where os.UserHomeDir fails

ASSUME HookAssumption ==
  \A r \in Runs :
    /\ r.event.form \in {"garbage", "other", "pre"}
    /\ r.config.policy # NoPolicy => WellFormed(r.config.policy)

\* Per hook: its answer and the decision it recorded; once started, the event
\* and the configuration too.
VARIABLE run

hookVars == <<auditVars, run>>

NoRun == [answer |-> "none", id |-> 0]

HookInit == AuditInit /\ run = [h \in Hooks |-> NoRun]

-----------------------------------------------------------------------------
(* hookTargets.                                                            *)

\* What a "~" stands for: the home folder; where os.UserHomeDir fails it stays as
\* it is, and the path is joined to the working folder like any relative one.
Tilde(event) == IF event.home = NoHome THEN Append(event.cwd, "~") ELSE event.home

\* Variant: a relative path is taken as it stands.
ResolveRootedOnly(value, cwd, tilde) ==
  IF value.scheme # "" THEN value
  ELSE IF value.home THEN Rooted(CleanPath(TRUE, tilde \o value.segs))
  ELSE value

\* A URI is left alone; a path is joined to what ~ stands for or to the working
\* folder.
ResolvePath(value, cwd, tilde) ==
  IF value.scheme # "" THEN value
  ELSE IF value.home THEN Rooted(CleanPath(TRUE, tilde \o value.segs))
  ELSE Rooted(CleanPath(TRUE, IF value.rooted THEN value.segs ELSE cwd \o value.segs))

\* Options without a value and device files are skipped; a word that is
\* neither dotted nor has a separator names no file.
ShellPaths(words) ==
  {w.value : w \in {x \in words : x.form \notin {"option", "device", "plain"}}}

ValueAt(event, key) == {l.value : l \in {x \in event.args : x.at = <<key>>}}

\* Glob and Grep search the folder they are given, or the working folder.
SearchRoots(event) ==
  LET given == ValueAt(event, "path") \ {Relative(<<>>)}
  IN  IF event.tool \notin {"Glob", "Grep"} THEN {}
      ELSE IF given = {} THEN {Relative(<<".">>)} ELSE given

Patterns(event) == IF event.tool = "Glob" THEN ValueAt(event, "pattern") ELSE {}

\* filepath.Join, which cleans before a "~" is expanded.
Join(base, pattern) ==
  LET joined == [base EXCEPT !.segs = @ \o pattern.segs]
      clean  == ParseResource(joined).segs
  IN  IF base.home /\ clean # <<>> /\ Head(clean) = "~" THEN InHome(Tail(clean))
      ELSE Raw("", "", base.rooted, clean)

\* A pattern continues the folder unless it begins at the root or at home.
BaseOf(root, pattern) ==
  IF pattern.rooted \/ pattern.home THEN [pattern EXCEPT !.segs = <<>>] ELSE root

SearchPlaces(event) ==
  SearchRoots(event) \cup
  {Join(BaseOf(root, p), p) :
     root \in SearchRoots(event), p \in Patterns(event) \ {Relative(<<>>)}}

\* The places a call names.  URLs of a shell command are places as they are.
Places(event) ==
  {ResolvePath(v, event.cwd, Tilde(event)) :
     v \in ExtractLocations(event.args)
            \cup SearchPlaces(event)
            \cup (IF event.tool = "Bash" THEN ShellPaths(event.words) ELSE {})}

OutOfScope(event, workspace) ==
  LET scope == ScopeOf(workspace) IN
  IF ~Declared(scope) THEN {}
  ELSE {l \in Places(event) :
          LET r == ParseResource(l) IN ~IsEmpty(r) /\ ~InScope(scope, r)}

-----------------------------------------------------------------------------
(* runHook.                                                                *)

Answer(h, answer) == run' = [run EXCEPT ![h].answer = answer]
Exits(h) == proc' = [proc EXCEPT ![h] = Down]
Unrecorded == UNCHANGED <<log, decisions, starts, written, reported, carried, tears>>

HookStarts(h) ==
  /\ Start(h)
  /\ \E r \in Runs :
       run' = [run EXCEPT ![h] =
                [event |-> r.event, config |-> r.config, answer |-> "none", id |-> 0]]

NotOurs(event, config) ==
  event.form = "other" \/ (event.form = "pre" /\ config.skipMCP /\ event.mcp)

\* Not an event the hook can refuse, or one that the proxy checks: exit 0.
PassesBy(h) ==
  /\ proc[h].pc = "ready" /\ NotOurs(run[h].event, run[h].config)
  /\ Answer(h, "pass") /\ Exits(h) /\ Unrecorded

\* Variant: a workspace that does not parse is taken for none.
CannotCheckPolicy(event, config) ==
  \/ event.form = "garbage" \/ config.policy = NoPolicy
  \/ config.mode \notin {"enforce", "monitor"}

\* What ends in a deny before any rule is asked.
CannotCheck(event, config) ==
  \/ event.form = "garbage"
  \/ config.policy = NoPolicy
  \/ config.mode \notin {"enforce", "monitor"}
  \/ ~ScopeValid(config.workspace)

FailsClosed(h) ==
  /\ proc[h].pc = "ready" /\ ~NotOurs(run[h].event, run[h].config)
  /\ CannotCheck(run[h].event, run[h].config)
  /\ Answer(h, "deny") /\ Exits(h) /\ Unrecorded

\* recover: a panic on the way to the decision is a deny.
Panics(h) ==
  /\ proc[h].pc = "ready"
  /\ Answer(h, "deny") /\ Exits(h) /\ Unrecorded

Facts(event, config) ==
  IF OutOfScope(event, config.workspace) # {} THEN {"outside"} ELSE {}

DecisionOf(h) ==
  Evaluate(run[h].config.policy, Facts(run[h].event, run[h].config))

\* Variant: monitor mode lets every deny through.
UnenforcedInMonitor(config, decision) ==
  decision.effect = "deny" /\ config.mode = "monitor"

IsUnenforced(config, decision) ==
  decision.effect = "deny" /\ config.mode = "monitor" /\ ~decision.always

Verdict(config, decision) ==
  IF decision.effect = "deny" /\ ~IsUnenforced(config, decision) THEN "deny" ELSE "pass"

CanCheck(h) ==
  /\ proc[h].pc = "ready" /\ ~NotOurs(run[h].event, run[h].config)
  /\ ~CannotCheck(run[h].event, run[h].config)

\* Variant: the answer goes out before the record.
HookDecidesFirst(h) ==
  /\ CanCheck(h) /\ run[h].config.records
  /\ Decide(h, DecisionOf(h).effect, IsUnenforced(run[h].config, DecisionOf(h)), FALSE)
  /\ run' = [run EXCEPT ![h].id = Len(decisions'),
                       ![h].answer = Verdict(run[h].config, DecisionOf(h))]

\* Variant: the record is made of the decision alone, without the mode.
HookDecidesModeless(h) ==
  /\ CanCheck(h) /\ run[h].config.records
  /\ Decide(h, DecisionOf(h).effect, FALSE, FALSE)
  /\ run' = [run EXCEPT ![h].id = Len(decisions')]

\* recordHookDecision, with a log to record in.
HookDecides(h) ==
  /\ CanCheck(h) /\ run[h].config.records
  /\ Decide(h, DecisionOf(h).effect, IsUnenforced(run[h].config, DecisionOf(h)), FALSE)
  /\ run' = [run EXCEPT ![h].id = Len(decisions')]

HookDecidesUnrecorded(h) ==
  /\ CanCheck(h) /\ ~run[h].config.records
  /\ Answer(h, Verdict(run[h].config, DecisionOf(h))) /\ Exits(h) /\ Unrecorded

\* Recorded or not, the decision stands.
HookAnswers(h) ==
  /\ Act(h) /\ Answer(h, Verdict(run[h].config, DecisionOf(h)))

HookWrites(h) == (EncodeWrites(h) \/ EncodeFails(h) \/ Crash(h)) /\ UNCHANGED run

HookStep(h) ==
  \/ HookStarts(h) \/ PassesBy(h) \/ FailsClosed(h) \/ Panics(h)
  \/ HookDecides(h) \/ HookDecidesUnrecorded(h) \/ HookWrites(h) \/ HookAnswers(h)

SessionStep(p) == (SessionDecides(p) \/ WriterStep(p)) /\ UNCHANGED run

HookNext ==
  (\E h \in Hooks : HookStep(h)) \/ (\E p \in Sessions : SessionStep(p))
HookSpec == HookInit /\ [][HookNext]_hookVars

-----------------------------------------------------------------------------
(* The reference: where a call's strings lead, said without the code's     *)
(* resolution and cleaning.                                                *)

\* A string as a path from the root, with nothing resolved yet.
FromRoot(value, cwd, home) ==
  IF value.scheme # "" \/ value.rooted THEN value
  ELSE [value EXCEPT !.rooted = TRUE, !.home = FALSE,
                     !.segs = (IF value.home THEN home ELSE cwd) \o @]

\* A string stands under its own key, or that of the list it is an item of, in no
\* more than Nesting objects and lists.
Nesting == 5
UnderKey(at, keys) ==
  \E i \in 1 .. Len(at) :
    at[i] \in keys /\ (i = Len(at) \/ (i + 1 = Len(at) /\ at[i + 1] = "[]"))

\* What the call names: every string under a key that names a place, every
\* rooted one under a key that carries targets, the words of a command, and
\* what a search walks.
Held(event) ==
  {l.value : l \in {x \in event.args :
     /\ Len(x.at) <= Nesting /\ x.value # Relative(<<>>)
     /\ \/ UnderKey(x.at, LocationKeys)
        \/ UnderKey(x.at, TargetKeys) /\ (x.value.rooted \/ x.value.home)}}
Words(event) ==
  {w.value : w \in {x \in event.words :
     event.tool = "Bash" /\ x.form \in {"bare", "assigned", "at"}}}
Matched(root, pattern, cwd, home) ==
  IF pattern.rooted \/ pattern.home THEN FromRoot(pattern, cwd, home)
  ELSE [FromRoot(root, cwd, home) EXCEPT !.segs = @ \o pattern.segs]

\* Those of some strings that lead somewhere: with no home folder ~ is nowhere.
Located(values, event) == {v \in values : v.home => event.home # NoHome}

Named(event) ==
  {FromRoot(v, event.cwd, event.home) :
     v \in Located(SearchRoots(event) \cup Held(event) \cup Words(event), event)}
  \cup
  {Matched(root, p, event.cwd, event.home) :
     root \in Located(SearchRoots(event), event), p \in Located(Patterns(event), event)}

\* The events that this is said of, over the words W: their strings name places,
\* and a search is for a path in a folder, from which, when it is given as ~,
\* nothing goes back (the code cleans "~/.." before it looks for the "~").
NoUps(value) == \A i \in DOMAIN value.segs : value.segs[i] # ".."
Searchable(root, pattern) ==
  /\ root.scheme = "" /\ pattern.scheme = ""
  /\ pattern.home => NoUps(pattern)
  /\ root.home => NoUps(root) /\ (pattern.rooted \/ NoUps(pattern))
Readable(event, W) ==
  /\ event.cwd \in Seq(W) /\ (event.home # NoHome => event.home \in Seq(W))
  /\ \A l \in event.args : Len(l.at) \in Nat \ {0} /\ l.value \in Raws(W)
  /\ \A w \in event.words :
       /\ w.form \in {"option", "device", "plain", "bare", "assigned", "at"}
       /\ w.value \in Raws(W)
  /\ \A root \in SearchRoots(event), p \in Patterns(event) : Searchable(root, p)
ReadableRuns(W) ==
  /\ {"", ".", "..", "~", "file"} \subseteq W
  /\ \A r \in Runs :
       /\ r.event.form = "pre" => Readable(r.event, W)
       /\ r.config.workspace \in Seq(Raws(W))

\* URIs with a path (a host alone is not in an entry for the host's root).
WithPaths(event) ==
  /\ \A l \in event.args : l.value.scheme # "" => l.value.rooted
  /\ \A w \in event.words : w.value.scheme # "" => w.value.rooted

Outside(value, config) ==
  config.workspace # <<>>
    /\ \A i \in DOMAIN config.workspace : ~LiesIn(config.workspace[i], value)

\* The policy's first rule that is not an audit refuses what is outside its
\* workspace, and is enforced in this mode.
GuardsWorkspace(config) ==
  /\ config.policy # NoPolicy
  /\ LET rules == config.policy.rules IN
     \E i \in DOMAIN rules :
       /\ rules[i].when = "outside" /\ rules[i].effect = "deny"
       /\ config.mode = "enforce" \/ rules[i].always
       /\ \A j \in 1 .. i - 1 : rules[j].effect = "audit"

\* Variables keep to their values; a hook answers last, once its decision has
\* been recorded or could not be.
HookType ==
  /\ AuditType
  /\ \A h \in Hooks :
       /\ run[h].answer \in {"none", "deny", "pass"}
       /\ run[h].id \in 0 .. Len(decisions)
       /\ proc[h].pc = "ready" => run[h].id = 0 /\ run[h].answer = "none"
       /\ proc[h].pc \in {"write", "act"} =>
            run[h].id = proc[h].hand /\ run[h].answer = "none"

\* "It never fails open": a call the hook lets through was an event it could
\* read, under a policy, a mode and a workspace that it could use, whatever
\* else went wrong, the audit log included.
NeverFailsOpen ==
  \A h \in Hooks :
    run[h].answer = "pass" /\ run[h].event.form # "other"
        /\ ~(run[h].config.skipMCP /\ run[h].event.mcp)
      => /\ run[h].event.form = "pre" /\ run[h].config.policy # NoPolicy
         /\ run[h].config.mode \in {"enforce", "monitor"}
         /\ \A i \in DOMAIN run[h].config.workspace :
              run[h].config.workspace[i].rooted \/ run[h].config.workspace[i].auth # ""

\* The hook guards a workspace, checks the call and lets it through.
PassesGuard(h) ==
  /\ run[h].answer = "pass" /\ run[h].event.form = "pre"
  /\ ~(run[h].config.skipMCP /\ run[h].event.mcp)
  /\ GuardsWorkspace(run[h].config)

\* Under a policy that refuses what is outside the workspace, a call that the
\* hook checks and lets through names, under the keys and in the words the
\* hook reads, no place outside: none by "..", by a name that begins like the
\* workspace's, by a relative path, in a list, in a command, or by ~ as long as
\* the hook can tell what ~ is; where it cannot, it says nothing of what is there.
NothingEscapes ==
  \A h \in Hooks :
    PassesGuard(h) => \A v \in Named(run[h].event) : ~Outside(v, run[h].config)

\* "Every error here, including a panic, becomes an explicit deny": that of
\* os.UserHomeDir too, so that a call of a path under ~ does not pass the guard
\* of a workspace when nothing is known of where ~ is.
UnknownHomeDenied ==
  \A h \in Hooks :
    PassesGuard(h) /\ run[h].config.workspace # <<>> /\ run[h].event.home = NoHome
      => \A v \in SearchRoots(run[h].event) \cup Held(run[h].event) \cup Words(run[h].event) :
           ~v.home

\* Nothing is refused for where it leads that leads nowhere outside: a policy
\* that only refuses what is outside lets the rest pass, where the home folder
\* is known.
NothingInsideRefused ==
  \A h \in Hooks :
    proc[h].pc = "act" /\ run[h].event.home # NoHome
        /\ decisions[proc[h].hand].effect = "deny"
        /\ Evaluate(run[h].config.policy, {}).effect # "deny"
      => \E v \in Named(run[h].event) : Outside(v, run[h].config)

\* What is read back of a decision that was recorded agrees with what the
\* harness was answered: enforced exactly when the call was refused.
RecordSaysAnswer ==
  \A h \in Hooks :
    run[h].id # 0 /\ run[h].answer # "none"
      => (EntryOf(run[h].id).enforced <=> run[h].answer = "deny")
=============================================================================
