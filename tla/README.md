# chokepoint: specifications, model checks and proofs

chokepoint sits between an agent (an MCP client) and one tool server. It starts the
server as a child process, relays JSON-RPC lines both ways over pipes, and at each
`tools/call` or `resources/read` asks a detector how the session has behaved, asks an
inventory whether the tool's definition has drifted, evaluates a policy over those facts
and either forwards the call or refuses it. It records each decision in an audit log and
as telemetry. A second way in, the *hook*, decides one call per process and keeps no
session.

The modules here are translated from the Go source; the comments name the functions they
stand for, and `PROJECT.json` maps each definition to its lines.

## 1. The system

| Component | Code | State | Operations | Hard behaviour |
|---|---|---|---|---|
| Session proxy | `internal/proxy/proxy.go` | `pending` ids under a mutex, the `answered` channel of capacity one, the session context, the drain timer, the `errs` channel | `Run`, `pump`, `handle`, `track`, `settle`, `awaitReplies`, `stop` | five goroutines; two independent id spaces; the order of tracking, writing, settling, signalling and closing; bounded waits |
| Codec, messages | `internal/jsonrpc` | a reader's buffer, a writer's lock | `ReadRaw`, `WriteRaw`, `Parse`, `IDKey`, `Ambiguity` | oversize and unparseable lines; blocking and broken pipes |
| Process | `cmd/chokepoint/main.go` | signal context, child process, exit status | `run` | signals, SIGPIPE, a server that will not exit |
| Gateway | `internal/gateway/gateway.go` | `pending`, `listings`, counters, each behind a lock | `Intercept`, `inspectRequest`, `inspectCall`, `refuseUnreadable`, `trackListing`, `inspectToolListing`, `trackPending`, `completeResponse` | one decision takes and releases four locks while the other pump runs |
| Session report | `internal/gateway/report.go` | none | `Report` | none of its own |
| Inventory | `internal/inventory` | first definition per tool, changed and removed tools | `Observe`, `Changed`, `Removed`; schema capture and validation | what a server may do over many listings |
| Policy | `internal/policy/policy.go` | none after compilation | `Compile`, `Evaluate`, `ExtractTargets`, `ExtractLocations` | order of rules, rules that fail, `always_enforce` in monitor mode |
| Detector | `internal/detect/detector.go`, `ring.go`, `budget.go`, `ubfs.go` | circular buffer of calls, configuration, start time | `Observe`, `Vector`, `Assess`, `Len`, `CountsInWindow`, `DistinctTargets`, `ResourceSummary`, `ScopeReport` | growth and wrapping, two kinds of eviction, clock read outside the lock |
| Working set | `internal/detect/scope.go`, `resource.go` | declared entries | `NewScope`, `Contains`, `Escaped`, `ParseResource` | containment of a normalised path or URI |
| Audit log | `internal/audit` | file, sticky write error | `New`, `ToolCallDecided`, `Read`, the counts of `report` | torn lines, restarts, many writers of one file, partial failure |
| Telemetry | `internal/telemetry` | open spans by id | `ToolCallDecided`, `ToolCallCompleted`, `sweepAbandonedSpans`, `Shutdown` | reused ids, completion against sweep and shutdown |
| Configuration commands | `cmd/chokepoint/commands.go`, `starter.go` | the agent's configuration file | `init`, `wrap`, `unwrap`, `report` | crash in the middle of a rewrite, two commands on one file, undoing exactly what was done |
| Hook | `cmd/chokepoint/hook.go` | none; its own settings file | `runHook`, `cmdHookInstall`, `cmdHookUninstall` | every failure must deny |

How they interact. `main.run` starts the server and calls `Session.Run`. Run starts the two
pumps; each reads a line, parses it and calls `Gateway.Intercept` in its own goroutine, so
the gateway, the inventory and the detector are entered by both pumps at once. The
gateway calls the observers (audit, telemetry) synchronously. `settle` in the server pump
wakes `awaitReplies` in the client pump through `answered`. The server's exit, a signal
or the drain timer end the session through the context. No state survives the process
except the audit log and the configuration files.

What makes each correct: the proxy loses, duplicates and strands no request and always
ends; the gateway decides on facts that are true of the call it forwards and says the same
in every record; the inventory cannot be talked out of a drift; the detector keeps the
calls it says it keeps; the log can be read after any crash, and what it lacks is known;
every span ends once and says what happened; a rewrite of a configuration leaves the old
file or the new one and the user's own entries as they were; the hook never lets through
what it could not check.

## 2. Modules

```
Relay            what a session promises of each request
  ^ implements
ProxySession     Session.Run, the pumps, timers and pipes
  ^ EXTENDS
Process          main.run around one session

Inventory, Policy   the registry; the evaluation of rules
  ^ EXTENDS
Gateway          both pumps' handlers over registry, policy and pending calls

History          what a detector session keeps
  ^ implements
Detector         detect.Session under both pumps   EXTENDS  Ring (detect.ring)

ConfigStore      what a rewrite of a configuration file promises
  ^ implements
ConfigFile       init, wrap, unwrap, hook install and uninstall over editJSONFile
                                                   EXTENDS  ConfigEdits (the edits)

WorkingSet       ParseResource, NewScope, Contains
  ^ EXTENDS
TargetPaths      ExtractTargets, ExtractLocations
  ^ EXTENDS
Hook             runHook                           EXTENDS  AuditLog, Policy too
AuditLog         audit.Writer in many processes, Read, the report's counts

Telemetry        spans under both pumps, the sweeper and Shutdown
```

`MCProxySession`, `MCProcess`, `MCGateway`, `MCConfigFile`, `MCHook` and `MCTelemetry` are
instances for TLC; `Detector` is checked directly. `ProxySessionProofs`, `ProcessProofs`,
`GatewayProofs`, `DetectorProofs`, `ConfigFileProofs`, `HookProofs` and `TelemetryProofs` hold the
theorems about the modules they are named for (`GatewayProofs` also those about `Inventory`,
`DetectorProofs` about `Ring`, `HookProofs` about `AuditLog`), and `MinMax` lemmas on least and greatest
numbers, on induction up to a number and on folds, which the others cite. A definition introduced
by a comment "Variant: ..." is not part of any specification: it is the definition that follows it
with a plausible mistake in it, kept to show that the properties notice.

**ProxySession.** `cpc` and `spc` are the two pumps' places in `pump` and `handle`: `handle`
(a line has been read), `forward` and `reply` (a write is next), then for the client pump
`await` and `awaitSelect` (the two halves of `awaitReplies`) and `close`. A step is what
happens between two points where another goroutine can be seen: `settle` is two steps,
`SSettle` (delete under the lock) and `SSignal` (the non-blocking send after it);
`awaitReplies` is `CAwait` (count under the lock) and `CAwaitWoken` or `CAwaitGivesUp`
(the select). `run`, `Stop` and `DrainFires` are Run after its first receive, the watcher,
and the timer. Pipes are FIFO with capacity `Cap`; a full one blocks and one without a
reader fails. A read that has data returns it even after its source was closed; a read
of `os.Stdin` that is already blocked need not notice (`CClosed` has no fairness). The
interceptor is a choice over its verdicts; `Forward` and `Replace` are one, since both track
and then write.

**Process.** Adds `main`: Run returns, the server's stdin is closed, `cmd.Wait` waits for the
child, the status is chosen. `Signal` cancels main's context, which the session's derives
from and on which `exec.CommandContext` kills the child; the drain timer cancels only the
session's. `DieOfSigpipe` is the Go runtime on a broken standard output.

**Inventory, Policy.** A definition is its fingerprint; a listing maps each tool to one or to
`Absent`. A rule is the one fact its CEL expression tests, its effect and `always_enforce`;
an expression that fails at run time does not match.

**Gateway.** A step is one hold of one lock in `inspectCall`: `ObserveCall`, `Assess`,
`EvaluateCall` (`Inventory.Changed`, then the rules), `ReportDecision` (the event, which
asks the inventory again), then `Deny` or `Allow`, then the proxy's write. `ObservePrompt` is
`prompts/get`, which is counted and forwarded without a decision. The server pump
runs `InspectListing`, `CompleteResponse`, `ForwardDown`.

**Ring, Detector, History.** `Ring` is `ring.go` as operators on a record: `push` is `Push`, built
of `Grow`, `Add` and `Overwrite`, and `parts` is `Front` and `Back`, whose concatenation
`Retained` is what every report walks. `Detector` adds the clock, the lock and the two
pumps: `Stamp` reads the clock *before* the lock is taken, so calls can be stored out of
time order. `ResourceSummary` and `ScopeReport` number the calls of the two runs of the buffer
across its wrap (`Walk`); a target is a resource, in the declared working set, outside it, or
not a place at all, under a root of its own. `History` is a plain sequence: the longest run of the newest calls that fits
`MaxCalls` and starts inside the window of the last.

**ConfigEdits, ConfigFile, ConfigStore.** `ConfigEdits` is what the commands make of a document:
`WrapServer` and `UnwrapServer` on a command line as a sequence of words, `ParseArgs` (the
proxy's own reading of that line, flag by flag, to see what it would launch), and the edits
of the list of hooks. `ConfigFile` runs commands in several processes: each step is one
system call or one group of them that nobody else can see between: the read, the
truncation and the writing of the backup, the temporary file, the rename. `Stop` is an error
return or a kill, and may leave half a backup. The two differ only in whether the deferred
`os.Remove` runs; a temporary file that stays behind has a name of its own, nothing reads
it, and it is not part of the state. `UserWrites` is the user's editor. `ConfigStore` has no backups, temporary files
or crashes: an edit is opened on a whole version and commits a whole edit of it, or is
abandoned. It knows nothing of the documents: its parameters are the versions a file may
start with, those a user may write, and what may be made of one (`First`, `UserDocs`,
`Edits`), which `ConfigFile` instantiates. `typed` and `raced` remember what the user wrote
last and whether a command had the file in hand then; `shared` holds the processes that
had a file in hand together with another.

**AuditLog.** The log is a sequence of lines, a line a sequence of parts, a part a record or
the beginning of one. `AppendTo` is `O_APPEND`: it continues an unfinished line.
`EncodeWrites` and `EncodeFails` are `json.Encoder`, whose first error is sticky; a failing or
killed write leaves any of what `Torn` lists. `Read` gives the numbers of the lines that were
read their entries; `EntryOf`, `Blocked` and `Allowed` are functions of the log too. The file may begin with a record of an older release, or with half of one.

**WorkingSet, TargetPaths, Hook.** A string is `[scheme, auth, rooted, home, segs]`: the
segments between its separators, `""`, `"."` and `".."` among them, with nothing cleaned.
`CleanPath` is `path.Clean`, a fold over the segments. Arguments are the set of their
strings with the keys that lead to each. `Hook` gives a process one event and one
configuration; `HookDecides` is the evaluation and the record, `HookAnswers` the exit. An
event comes with what `os.UserHomeDir` says in its process (`home`), which may be that it
does not know: then `resolvePath` leaves the `~` as it is and joins the string to the working
folder (`Tilde`, `ResolvePath`).
The reference for `NothingEscapes` and `NothingInsideRefused` is `LiesIn`, which says where a
path leads without cleaning anything: a segment counts if no `..` after it takes it back.
What a call names is `Named`, in the call's own strings: under a key of either table (`UnderKey`)
no deeper than the five levels of nesting the code walks, the one number the reference
takes from the code; in the words of a command; and as the folder of a search. A string
under a `~` that nobody can tell names no place (`Located`). `Readable` says what the strings may be.

**Telemetry.** `ToolCallDecided`, `ToolCallCompleted`, `ExpireSpans` and `CloseAllSpans` are what
the code does under the lock; `EndCompleted` and `EndTaken` are the `End` outside it. `hand`
and `taken` are the spans a goroutine has removed from the map and not ended. Of the gateway
it has `pendingCall` and the order of decision, tracking and forward, because whether a
completion arrives at all depends on them. `completeResponse` looks at a message's id and at
nothing else, so the server also sends messages that answer no request of the agent's under an
id the agent uses (`ServerSends`): a request of its own, or a second answer. `heard` is what the
message said that completed a call, `collided` the calls completed by a message that was
not their answer.

## 3. What the runs show

| Run | Properties | What it shows |
|---|---|---|
| `session_relay` | `TypeOK`, `NoLostWakeup`, `ImplementsRelay` | Two requests, a notification and an unparseable line under every verdict on client messages, a server call whose id is also a request's: each request is refused or relayed, never both; answered at most once; the server's input ends only after what was forwarded is settled or the proxy is excused; and a clean, unexcused end leaves no settled answer undelivered. |
| `session_options` | `DrainBeforeClose` | The other options: unparseable lines forwarded, oversize lines, an interceptor that refuses, drops or fails on server messages. |
| `process_ends` | `SuccessLosesNoReply`, `SignalEndsProcess`, `ServerExitEndsProcess`, `ClientCloseEndsRun`, `ClientCloseEndsProcess` | The process ends on a signal and on the server's exit. After the client's close `Session.Run` returns even if the server neither answers nor exits when its stdin ends, which only the drain timer sees to; and the process ends too with a server that does exit then. An exit status of success hides no lost reply, if the client pump came to the end of its input (one that fails after `Run` has stopped waiting for it is not heard of) and the wait did not expire. |
| `gateway_decisions` | `TypeOK`, `RugPullStopped`, `BurstBounded`, `LedgerAgrees`, `UnreadNeverPasses`, `CompletedOnce`, `ChangedIsDrift` | Two calls, two listings, a prompt and an unreadable message racing through both pumps, under three policies in both modes. |
| `detector_history` | `TypeOK`, `EvictedSlotsCleared`, `CountsAreHonest`, `ReportsNameTheCall`, `ImplementsHistory` | Five observations by two pumps, in and out of time order, with and without a session window. The history kept is the one promised, the counts are exact or say that they are a floor, and a report names the call that first left the working set, wherever the buffer has wrapped. |
| `config_commands` | `TypeOK`, `UsersServersKept`, `UsersHooksKept`, `PreviousKept`, `CheckedOnce`, `ImplementsConfigStore` | Up to three commands in two processes, each killed or failing anywhere, and one edit by the user: a file only ever changes to a whole edit of a whole version; wraps and unwraps in any order launch what the user's file launched; the backup is the version that was replaced; and however installs with differing options and uninstalls follow or overlap, chokepoint's own hooks do not pile up. |
| `hook_decisions` | `HookType`, `NeverFailsOpen`, `NothingEscapes`, `NothingInsideRefused`, `RecordSaysAnswer`, `NoSilentLoss`, `TearHidesOne`, `ReportIsTrue`, `AppendOnly` | A hook and a proxy session writing one log: about sixty events, with the home folder known and unknown, under nine configurations, kills, failing writes and records too long to read. The hook fails closed and is right about the workspace; the log says what was answered, or a reader or the operator is told what it lacks. |
| `telemetry_spans` | `EndsOnce`, `SaysWhatHappened`, `SweptAreExported`, `EverySpanEnds` | Three calls, two of them one after the other under one id, a message of the server's own under that id, time-outs, shutdown and a shutdown that gives up: a span ends once and says how its call was answered, unless such a message came first; and every span that is open while the sweeper runs ends. |
| `process_stubborn_server`, `gateway_collision`, `config_unchecked`, `telemetry_breach` | one each | The findings of section 6: TLC finds each violated. |

### Bounds, and why they are enough

- *Two requests* are the least with which one can be settled while another is being tracked or
  written. *One server call* reuses the id of a request. `Cap = 1` makes every pipe
  block as soon as it can; a larger one only adds slack. In `process_ends` one request is
  enough: its liveness properties are about the pumps' ends, which one message in each
  place exercises, and its safety property is proved for any number (`SuccessIsHonest`).
- *Two listings and two definitions* let a definition change between them; longer histories of
  listings are the subject of the theorem `DriftCorrect`. *Two calls* with `Limit = 1` reach
  the burst. One tool is enough because nothing relates one tool to another; the theorem
  covers any set.
- `MaxCalls = 3`, `RingMinCap = 2` and five observations: the buffer is allocated at two, grows to
  three (clipped by the bound rather than doubled), overwrites at the bound, and expires
  across its end. `MaxTime = 2` with windows of zero and one lets a call expire while an
  older stamp is still to be stored. The three targets are a file of the working set, one outside
it and a query, which names no place. The theorems on the ring hold for every value.
- The gateway's run gives the two calls no distinguishing constant, so it permutes them, and
  the two definitions, which are only compared (`GatewaySymmetry`); it has no liveness property. Policy 1 has `audit` as its default.
- *Two processes and three commands* let one command overlap another and a third follow one that
  was killed in the middle of its backup. The command lines have a `--` of the user's own, a
  server wrapped by hand with other options and a value, one wrapped by hand without a
  separator, and a remote one; the hook lists have the user's groups before, between and
  after chokepoint's. One edit by the user is enough to overlap any command.
- *Two starts and two decisions* on one log, which may begin with half a line: a torn line is
  continued by another process, whose own write may be torn again. One hook and one session,
  in either order, give the two kinds of writer.
- The workspace of `hook_decisions` is one segment, beside it a name that begins like it, the
  working folder below it and a home outside, or unknown; the strings go up past each. Every
  event is tried under the plain configuration, one of each kind under the others.
- *Three calls, two ids*: one span may be in the sweeper's hands while one is being completed and one
  is decided. An id is reused only after its answer, as the protocol asks. `MaxOwn` is one
  message of the server's own under the id that two calls share (`Colliding`), which may
  complete either of them, before or after its answer, or none. `telemetry_breach` has none: its
  finding needs no collision. What may be decided of a call depends on the call (`Verdicts`): of the
  two that share an id one may be unreadable and one refused, in either order; only the
  calls of `telemetry_breach` are breaches.
- `MaxTime` and `MaxObserved` bound the clock and the length of a session. The latter counts
  the calls that have been stamped and not stored.

Each message is sent once and is its own id: the agent does not reuse ids within a session and
the server answers each request at most once, but for the messages under an id of the agent's
that `Gateway` and `Telemetry` allow it. Deadlock is checked in the proxy and process
runs; the others turn it off, for there the peers may simply fall silent and processes
need not be started again.

### Fairness

`ProcFairSpec` asks for weak fairness of each goroutine (the Go scheduler runs what can
run), of the timers (they fire), of the kernel (it kills a process that was sent SIGKILL,
and SIGPIPE ends this one), and of each peer *as a reader*: it takes what is in its pipe.
Nothing obliges the server to answer or exit, the client to send or close, or a read blocked
on `os.Stdin` to be interrupted. `PoliteServer`, that the server exits
when its stdin ends, is the hypothesis of `ClientCloseEndsProcess` alone; without it the property
fails (`process_stubborn_server`), and what is left is `ClientCloseEndsRun`. Time is not counted:
a timer that is armed may fire at any moment, so a wait may expire early. That adds
behaviours and hides none, and it is why the safety properties excuse a wait that expired
(`gaveUp`).

`Telemetry!Spec` asks that the client pump finishes what it has decided, that the server pump
and the sweeper run, and that time passes: goroutines that nothing blocks, and a ticker. It
does not ask the agent to call, the server to answer, or the process to stop.

A peer that never reads is outside these properties and does hold the process. A client
pump blocked on the server's stdin cannot see the client close; a server pump blocked on
the client's stdin is not released by a signal, for nothing closes `os.Stdout`.

## 4. What is proved

The assumptions are those of the modules, and TLC evaluates each: disjoint kinds of messages,
finitely many calls and prompts, a positive pipe capacity and `MaxCalls`, windows that are
naturals, policies of the shape `Compile` accepts, `Absent` not a definition, and the like.
Sets of messages, tools, targets, documents, processes and events may have any size.
In particular no theorem uses a bound on the length of a behaviour other than the counters
that cap the model.

| Theorem | Statement |
|---|---|
| `ProxySessionProofs!TypeCorrect` | `Spec => []TypeOK` |
| `ProxySessionProofs!DrainCorrect` | `Spec => []DrainBeforeClose` |
| `ProxySessionProofs!WakeupCorrect` | `Spec => []NoLostWakeup` |
| `ProxySessionProofs!SessionImplementsRelay` | `Transparent => (Spec => ImplementsRelay)` (`ProxySession` implements `Relay`) |
| `ProcessProofs!SuccessIsHonest` | `Transparent => (ProcSpec => []SuccessLosesNoReply)` |
| `GatewayProofs!DriftCorrect` | `InventorySpec => []ChangedIsDrift` |
| `GatewayProofs!GatewayTypeCorrect` | `Spec => []TypeOK` |
| `GatewayProofs!RugPullIsStopped` | `Spec => []RugPullStopped` |
| `GatewayProofs!GatewayDriftCorrect` | `Spec => []ChangedIsDrift` |
| `GatewayProofs!BurstIsBounded` | `Spec => []BurstBounded` |
| `GatewayProofs!LedgerAlwaysAgrees` | `Spec => []LedgerAgrees` |
| `GatewayProofs!UnreadNeverForwarded` | `Spec => []UnreadNeverPasses` |
| `GatewayProofs!CompletedExactlyOnce` | `Spec => []CompletedOnce` |
| `DetectorProofs!DetectorTypeCorrect` | `Spec => []TypeOK` |
| `DetectorProofs!SlotsCleared` | `Spec => []EvictedSlotsCleared` |
| `DetectorProofs!HistoryCorrect` | `Spec => ImplementsHistory` (`Detector` implements `History`) |
| `DetectorProofs!ReportsAreTrue` | `Spec => []ReportsNameTheCall` |
| `DetectorProofs!CountsAlwaysHonest` | `Spec => []CountsAreHonest` |
| `ConfigFileProofs!BackupIsPrevious` | `Spec => []PreviousKept` |
| `ConfigFileProofs!ConfigImplementsStore` | `Spec => ImplementsConfigStore` (`ConfigFile` implements `ConfigStore`) |
| `ConfigFileProofs!ConfigTypes` | `Documents(D) => (Spec => []TypeOK)` |
| `ConfigFileProofs!ServersSurvive` | `UsualServers(W) => (Spec => []UsersServersKept)` |
| `ConfigFileProofs!HooksSurvive` | `UsualHooks(G) => (Spec => []UsersHooksKept)` |
| `ConfigFileProofs!HooksDoNotPileUp` | `UsualHooks(G) => (Spec => []CheckedOnce)` |
| `HookProofs!HookTypeCorrect` | `HookSpec => []HookType` |
| `HookProofs!HookNeverFailsOpen` | `HookSpec => []NeverFailsOpen` |
| `HookProofs!NoCallEscapes` | `ReadableRuns(W)`: `HookSpec => []NothingEscapes` |
| `HookProofs!OnlyOutsideRefused` | `ReadableRuns(W)` and `WithPaths`: `HookSpec => []NothingInsideRefused` |
| `HookProofs!RecordsSayAnswers` | `HookSpec => []RecordSaysAnswer` |
| `HookProofs!NothingLostInSilence` | `HookSpec => []NoSilentLoss` |
| `HookProofs!TearsHideOne` | `HookSpec => []TearHidesOne` |
| `HookProofs!ReportAlwaysTrue` | `HookSpec => []ReportIsTrue` |
| `HookProofs!LogAppendOnly` | `HookSpec => AppendOnly` |
| `TelemetryProofs!SpansEndOnce` | `Spec => []EndsOnce` |
| `TelemetryProofs!SpansSayWhatHappened` | `Spec => []SaysWhatHappened` |
| `TelemetryProofs!SweptSpansExported` | `Spec => []SweptAreExported` |

`Transparent` says that the interceptor forwards every message of the server's, or fails.
`Gateway.Intercept` is such an interceptor: its server branch inspects and completes, and always
forwards. An interceptor that drops or refuses an answer (the `Interceptor` interface allows
it, and `session_options` has it) keeps that answer from the client by design, and a refusal
written back *to the server* comes from neither; of these only `DrainCorrect` and
`WakeupCorrect` speak, which need no hypothesis.

`Documents`, `UsualServers` and `UsualHooks` say what documents there are. `Documents(D)`: the sets `D`
hold what the user may write and are closed under the edits, and nothing in them is "empty" or
"torn". `UsualHooks(G)`: a settings file is missing or a list of groups. `UsualServers(W)`: a line is
a sequence of words of `W`, which may be any set with those `wrap` writes; and if it is a proxy
wrapped by hand with a separator, then the proxy runs what follows the first one and that is not
a proxy again (`Usual`, which TLC checks of the run's lines). The last condition is needed: of
`chokepoint --policy -- ... -- srv` `unwrap` takes the value of `--policy` for the separator, and
of a proxy behind a proxy it takes off both, one at a time.

`ReadableRuns(W)` and `WithPaths` say what the strings of a call are; `W` is any set of words, and
TLC checks both of every event of the run. `ReadableRuns(W)`: each string is split as the
parser splits it (`Raws`), and a search is for a path in a folder, from which nothing goes
back when it is given as `~`. The last is needed: `filepath.Join` cleans the pattern before
`resolvePath` expands the `~`, so `~/../x` is sought under the working folder. `WithPaths`, for
`OnlyOutsideRefused` only: a URI has a path; `https://x` is refused under the entry `https://x/`,
whose place is the same, because their keys differ in the separator.

Each rests on an inductive invariant, which TLC has also been asked about on the run's
instance. Why the stated property is not inductive by itself, and what is added:

- *Drain.* The property speaks of the moment of the close only. `DrainInv` adds what leads to it:
  a request written upstream is pending or taken; one about to be written is already
  (`handle` tracks before it writes); a pump past the wait has everything taken or is
  excused. Were the write to precede the tracking, the first part would break. It is
  `settle`'s check that the message is a response that lets a server's own request under
  the same id pass without disturbing it.
- *Wake-up.* `NoLostWakeup` is inductive by itself: the pump goes to sleep over a non-empty set
  only, and the step that empties the set has the signal still to send.
- *Relay.* `PlacesInv` says where things are. `UpInv`: a message of the client's is unsent, in the
  pipe, in the client pump's hands or decided, and in one of these only. `DownInv`: a forwarded
  request, or the answer to it, is in the server's input, with the server, in its output or
  unsettled in the server pump, once. `AnswerInv`: a refused request was answered and never
  forwarded; a settled one whose answer is not delivered is in the server pump's hands, or
  that pump has failed. `EndInv`: `Run` returns after the server pump has ended, and returns nil
  only if it did not fail. With `DrainInv` each step of the proxy is a step of `Relay` on the one
  request it concerns, or a stutter.
- *Exit status.* A step of the process is one of the session's or of main's alone (`ProcStep`). Main
  may close the server's input first, so the half of `DrainInv` that is about the close
  (`ClosedInv`) is lost and the half about the wait (`AwaitInv`) is kept; `MainInv` adds that
  a success is that of a session that has returned without an error, which returns once.
- *Drift.* `DriftInv` adds the baseline: the definition compared with is the first listing's where
  that has one, and a tool first seen later is already flagged. The gateway's theorem uses
  the same two lemmas, one for the initial state and one for `Observe`.
- *Gateway.* `GatewayInv` is `PlaceInv` (where each message is: with the agent, in one of the
  client pump's steps, forwarded, answered, in the server pump, delivered) and one part per
  property. `ShownInv`: what the agent has been shown that differs from the first listing is
  flagged, because `inspectToolListing` observes before the listing is forwarded;
  `RugPullInv` carries that across the steps of a decision: a suspect call that is past
  `EvaluateCall` was refused. `CountInv`: the detector's
  count is that of the calls past `ObserveCall`, the prompts and the failed completions;
  so a call that finds the count within `Limit` is at most the `Limit`-th to be let through
  (`BurstInv`), whatever the server pump adds before or after. `LedgerInv` says which counter each step has
  brought up to date. `UnreadInv` and `CompleteInv` follow a message from its decision to the
  pending table and to its one completion.
- *Ring.* `RingOK` bounds the fields, says that live slots hold calls and that the others are zero.
  Slots are computed modulo the size; `SlotInjective` and `SlotOnto` show that indexes below
  the size are the slots, one to one, which growth, overwriting and dropping all rest on. One
  lemma per operation says what becomes of the calls by age (`GrowOK`, `AddOK`,
  `OverwriteOK`, `PushOK`, `DropOK`), and `RetainedIsAt` turns ages into the sequence the two
  parts spell.
- *History.* `ObserveKeeps` adds the number of calls `push` overwrites to the number
  `evictLocked` expires and shows that it is the least number of the oldest that must go.
  That the newest call is never expired by itself (its time is not before its own window) is
  what makes that number smaller than the length. `DetectorInv` carries the ring, the window
  and the type of the calls in hand.
- *Reports and counts.* `SuffixInv`: the retained calls are the newest of the session, and all of it as
  long as `evicted` is false. `WalkFindsFirst` is about any sequence: numbered across the wrap,
  the least number among the calls to some targets is the first of them, and no two have
  one number. `CountTells` says what one walk finds; that this stays true while later calls are
  stored is `CountInv`. Order enters at one point: behind the first call before the cutoff all are.
- *Configuration.* A process that has read a version and not renamed holds an edit of it, and one
  whose file nobody else has had in hand finds the file as it read it and, once past the backup,
  the backup equal to that. The refinement maps `Rename` to `Commit`, `ReadAndEdit` to `Begin` or a
  stutter, `Stop` to `Abandon`, and everything about backups and temporary files
  to a stutter.
- *Servers and hooks.* `KeepInv(f, R)` carries a relation between a document and what the user typed
  over every version a file goes through, from `OutInv` and from the fact that the edits keep it
  (`KeepStep`). For the servers it is "each line is one of the four that wraps and unwraps make of
  the typed one" (`Kin`, `KinClosed`), which rests on what `parseArgs` reads in a wrapped line
  (`ParseOurs`) and where `unwrap` finds the separator (`WrappedLine`); for the hooks "the same groups
  under the same numbers" (`AppendOwn`, `WithoutKeeps`). Both are inductions on the number of words
  or groups already read: `FoldExists` gives the stages of a fold, `UpTo` goes through them. That
  hooks do not pile up is such a relation too: "as the user wrote it, or with one group of
  chokepoint's at most". It is kept because `install` takes off every group there is before it adds
  one (`InstallLeavesOne`), and because one that changes nothing leaves what it found.
- *Audit log.* `AuditInv`: `WrittenInv`, a record that was written ends a finished line, which
  nothing can continue; `CarriedInv`, a decision carried out was written or reported;
  `TearsInv`, there are no more lines with several parts or without an end than writes that
  were cut off. A written record that is not read back ends one of those, and no two end the
  same.
  `LogAppendOnly` needs none of it but the type of the log. `ReportAlwaysTrue` is of another kind: it
  holds of every log, and says that the marking of a decision and the reading of a record
  are inverse to each other.
- *Hook.* `RunInv` follows one hook: which checks its event has passed at each place, and that
  its record, once written, was made of the decision its answer is made of; a call let through
  is one the hook is not asked about (`LetThrough`) or one whose decision says so.
- *Containment.* `NothingEscapes` follows from `RunInv` once three things are known of any string.
  First, `CleanPath` of a rooted path is the reference's `Place` of it (`CleanedIsPlace`). The stages
  of the fold (`CleanRuns`) are followed with `Standing`: the names that stand after `n` segments are
  those whose later `".."` have not yet outnumbered the names since, in order; an empty
  segment or `"."` leaves them (`StandNoise`), a name adds itself (`StandName`), a `".."` takes the
  last (`StandUp`). Second, cleaning in parts is cleaning at once (`CleanedLater`, `CleanedAfter`),
  which is why a path joined to its folder and cleaned twice, or a pattern joined before its
  folder is resolved, still leads where the string does (`ResolvedLeads`, `SearchLeads`). Third, a
  prefix of two keys is a prefix of two places under one scheme and host (`PrefixKey`, `HoldsIs`).
  Then what a call names and the places the hook looks at lead to one another (`NamedSeen`,
  `SeenNamed`), and the guarding rule decides (`GuardDenies`). A string that is not under `~` leads
  to one place whatever `~` is (`SameFrom`, `NamedIs`), which is why a hook that has no home
  folder is still right about all the others.
- *Telemetry.* `OwnerInv`: a span not ended is in the map, in the sweeper's hands or in the server
  pump's, and in one of them only. `LatestInv`: no other span is under the id of a call that
  waits, and its own is there until it is too old or the session stops; this is what makes
  the status of a completion the right call's. `PendingInv` says where the call under an
  id may be in the gateway's table, and that what completes it is its answer or has made it
  `collided`. `InTimeInv` and `SweeperInv` say what each
  goroutine still has to do before the provider may go down.

Only model-checked, because it is out of the prover's reach: every liveness property and what
uses fairness: the four of `process_ends` and `EverySpanEnds`. Every safety property
of a passing run is proved.

## 5. Abstractions and what is not modelled

- Bytes, framing, parsing, the ambiguity scan and all wording. A message is its identity and
  the class the code puts it into.
- The detector's features and score, floating-point functions of the retained calls;
  `Escaped`, which only describes what was observed.
- CEL: a rule tests one fact. Compilation is only the shape it accepts. A gateway without a
  policy is not modelled; the refusal's payload is not either.
- `CountsAreHonest` is stated for pumps that take the lock in the order of their clock
  readings. Out of that order `CountsInWindow` may stop early at a stale call and count
  less than the window holds without saying so; a goroutine would have to be held for longer
  than the rate window between `time.Now` and the lock.
- Start-up (flags other than those of a wrapped command line, files, the starter policy), the
  text of reports and generated examples: sequential code with no state over time.
- Configuration files: an edit the user makes while a command has the file in hand is lost
  (`raced`). `init` killed between creating the policy and writing it leaves an empty policy,
  which then does not load and is not overwritten. A matcher group that holds a chokepoint
  hook beside one of the user's is dropped whole. Two overlapping commands may mix their
  backups. Servers whose names differ only in unsafe characters share one audit log. A
  configuration wrapped after the hook was installed has its calls checked and recorded
  twice until the hook is installed again.
- The hook: where the home folder is unknown nothing is claimed of a path under `~`, neither
  that it is refused (it is not: section 6) nor that it is let through;
  `NothingInsideRefused` is about hooks that know it. Windows paths, `~user`, and events
  without a working folder; a hook that is itself killed (`NeverFailsOpen` is about the
  answers it gives); panics later than the decision. An event whose arguments name a place
  under a key that is in neither table (`source`, say) is outside `Named`: such a string is
  never extracted, although the comment of `ExtractLocations` says "whatever key carries
  it". A Glob pattern that climbs out of a `~` folder is cleaned by `filepath.Join` before
  `~` is expanded; `Join` models it, no event of the run has it. `recordHookDecision` always
  says that a scope was declared.
- The audit log: attributes other than the effect and whether it was enforced; a disk that
  loses what it acknowledged. A record longer than the scanner's 16 MB makes `Read`, and
  with it the whole report, fail; the properties count that as being told.
- Telemetry: counters and gauges, the exporter and the metrics server. A request that cannot
  be read and that monitor mode lets through has a span but no `pendingCall`, so an answered
  one ends "upstream never answered" or is replaced, which `EverySpanEnds` leaves out. A
  message that takes a pending call's id off the table (finding 2) ends that call's span
  with its own status, Ok for a request of the server's; `SaysWhatHappened` says so of those
  calls, and that the spans of all others say how the call was answered. A span opened after
  `closeAllSpans`, by a client pump that outlives `Run`, never ends.

## 6. Findings

1. `process_stubborn_server`: the drain bound ends `Session.Run` but not the process. The
   timer cancels the context that Run derived (and `Run` does return: `ClientCloseEndsRun`),
   not the one `exec.CommandContext` watches, and `main.run` then waits in `cmd.Wait` for a
   server that ignores its closed stdin.
2. `gateway_collision`: `completeResponse` does not ask whether a message is a response, as
   the proxy does, so a request of the server's own under a pending id completes the call.
3. `config_unchecked`: `hook install` leaves all MCP calls to the proxy as soon as one server is
   wrapped, but `wrap` leaves remote servers alone: their calls are then checked by neither.
4. `telemetry_breach`: `ToolCallCompleted` sets the status of every answered call's span to Ok,
   which in the OpenTelemetry SDK replaces the error that marked a breach let through.

Four more disagreements are stated in the modules and were seen to be violated there, but
are not among the runs: `Hook!UnknownHomeDenied` (where `os.UserHomeDir` fails, with no
`HOME` in the environment the harness gives the hook, `resolvePath` joins a path under `~`
to the working folder; it then counts as inside a workspace that holds that folder and
passes its guard, though every error of the hook's is documented as a deny, hook.go:83-85);
`ProxySession!CleanShutdownIsNil` (a server that exits while the client pump is about to
write to it makes `Run` return the write error, though either side closing its stream is
documented as a clean end); `Gateway!EvidenceMatchesDecision` (a decision asks the inventory
twice, and a listing in between makes the event of an allowed call say that its tool had
changed); `Detector!ScoredAsReported` (`Assess` takes the lock for the vector and again for
the length, so an error observed in between pairs the score of one history with the size of
another).

## 7. Plan

Done, in this order: `ProxySession` and `Relay`; `Process`; `Inventory`, `Policy` and
`Gateway`; `Ring`, `Detector` and `History`; the proofs of section 4; `ConfigFile` and
`ConfigStore`; `AuditLog`, `WorkingSet`, `TargetPaths` and `Hook`; `Telemetry`; the proofs about
`Gateway`, `ConfigFile`, `AuditLog`, `Hook` and `Telemetry`; the refinement of `Relay` and what it
says of the exit status; what the edits of `ConfigEdits` keep, by induction on the length of a
line or a list; and where a path leads, by induction on its segments.
