------------------------------- MODULE MCHook -------------------------------
(***************************************************************************)
(* A hook, with a session beside it on the same audit log.  The workspace  *)
(* is /w, the working folder of the events /w/s, the home folder /u.       *)
(***************************************************************************)
EXTENDS Hook

CONSTANTS s, h, Broken

Home == <<"u">>
Here == <<"w", "s">>
W    == Rooted(<<"w">>)

-----------------------------------------------------------------------------
(* Events.                                                                 *)

Event(form, mcp, tool, args, words, cwd) ==
  [form |-> form, mcp |-> mcp, tool |-> tool, args |-> args, words |-> words,
   cwd |-> cwd, home |-> Home]
Call(at, value) ==
  Event("pre", FALSE, "Read", {[at |-> at, value |-> value]}, {}, Here)
Command(form, value) ==
  Event("pre", FALSE, "Bash", {}, {[form |-> form, value |-> value]}, Here)
Search(tool, path, pattern) ==
  Event("pre", FALSE, tool,
        {[at |-> <<"path">>, value |-> path], [at |-> <<"pattern">>, value |-> pattern]},
        {}, Here)
None == Relative(<<>>)

\* Inside and outside, by every way a string may lead there; "w2" begins like
\* the workspace's name.
Strings ==
  {Rooted(<<"w", "a">>), Rooted(<<"w2", "a">>), Rooted(<<"w", "..", "e">>),
   Rooted(<<"w", "", "a", ".", "..", "">>), Rooted(<<"..", "w", "a">>),
   Relative(<<"a">>), Relative(<<"..", "a">>), Relative(<<"..", "..", "w2">>),
   InHome(<<"a">>), InHome(<<"..", "w", "a">>),
   Uri("file", "", <<"w", "a">>), Uri("file", "", <<"w", "..", "e">>),
   Uri("https", "x", <<"a">>), None}

Nested == <<"edits", "[]", "path">>
Deep   == <<"a", "a", "a", "a", "path">>
Deeper == <<"a">> \o Deep

\* Under ~, beside a place outside, and through ~, with no home folder.
Homeless ==
  {[e EXCEPT !.home = NoHome] : e \in
     {Call(<<"path">>, InHome(<<"a">>)), Call(<<"path">>, Rooted(<<"e">>)),
      Call(<<"path">>, InHome(<<"..", "..", "..", "e">>)),
      Event("pre", FALSE, "Read",
            {[at |-> <<"path">>, value |-> v] : v \in {InHome(<<>>), Rooted(<<"e">>)}}, {}, Here),
      Command("bare", InHome(<<>>)), Search("Glob", InHome(<<>>), Relative(<<"*">>)),
      Search("Glob", None, InHome(<<"*">>))}}

Inside == Rooted(<<"w", "a">>)
Away   == Rooted(<<"e">>)

AllEvents ==
  {Event("garbage", FALSE, "Read", {}, {}, Here), Event("other", FALSE, "Read", {}, {}, Here)}
  \cup {[Call(<<"path">>, Away) EXCEPT !.mcp = TRUE]}
  \cup {Call(<<"path">>, v) : v \in Strings}
  \cup {Call(at, v) : at \in {<<"paths", "[]">>, <<"table">>, Nested, Deep, Deeper},
                      v \in {Inside, Away, Relative(<<"..", "..", "e">>)}}
  \cup {Command(form, v) : form \in {"bare", "assigned", "at"},
                           v \in {Relative(<<"..", "..", "e">>), Relative(<<"..", "a">>), InHome(<<>>)}}
  \cup {Command("device", Rooted(<<"dev", "null">>)), Command("option", None),
        Command("plain", Relative(<<"ls">>)), Command("bare", Uri("https", "x", <<"a">>))}
  \cup {Search("Glob", path, pattern) :
          path \in {None, Relative(<<"..">>), InHome(<<>>)},
          pattern \in {Relative(<<"*">>), Rooted(<<"e", "*">>)}}
  \cup {Search("Glob", None, Relative(<<"..", "..", "*">>))}
  \cup Homeless
  \cup {Search("Grep", path, Rooted(<<"e">>)) : path \in {None, Relative(<<"..", "..">>)}}

-----------------------------------------------------------------------------
(* Configurations.                                                         *)

Rule(when, effect, always) == [when |-> when, effect |-> effect, always |-> always]
Guard(default, always) ==
  [rules |-> <<Rule("any", "audit", FALSE), Rule("outside", "deny", always)>>,
   default |-> default]

Config(policy, mode, workspace) ==
  [skipMCP |-> FALSE, records |-> TRUE, policy |-> policy, mode |-> mode,
   workspace |-> workspace]

Enforced == Config(Guard("allow", FALSE), "enforce", <<W>>)

Configs ==
  {Config(Guard("allow", TRUE), "monitor", <<Uri("https", "x", <<>>), W>>),
   Config(Guard("deny", FALSE), "monitor", <<W>>),
   Config(Guard("allow", FALSE), "enfroce", <<W>>),
   Config(Guard("allow", FALSE), "enforce", <<>>),
   Config(Guard("allow", FALSE), "enforce", <<W, Relative(<<"w">>)>>),
   Config(Broken, "enforce", <<W>>),
   [Enforced EXCEPT !.skipMCP = TRUE],
   [Enforced EXCEPT !.records = FALSE]}

\* Every event under the plain configuration, one of each kind under the others.
MCRuns ==
  [event : AllEvents, config : {Enforced}]
  \cup [event : {e \in AllEvents : e.form # "pre" \/ e.mcp}
                 \cup {Call(<<"path">>, Inside), Call(<<"path">>, Rooted(<<"w", "..", "e">>))},
         config : Configs]

ASSUME MCRunsAreReadable == ReadableRuns(STRING) /\ \A r \in Runs : WithPaths(r.event)
=============================================================================
