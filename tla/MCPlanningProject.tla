----------------------------- MODULE MCPlanningProject ----------------------------
(***************************************************************************)
(* Small .planning/ directories and the commands two agents run on them.   *)
(***************************************************************************)
EXTENDS PlanningProject

Dir(num, slug, plans, sums) ==
  [num |-> num, slug |-> slug, plans |-> plans, sums |-> sums, notes |-> Nothing]
After(num, pad) ==
  IF num.int \in {1, Backlog} THEN {}
  ELSE IF num.dec > 0 THEN {Spelling(Num(num.int, 0), FALSE)}
  ELSE {Spelling(Num(num.int - 1, 0), pad)}
Heading(num, pad, shipped, box, row) ==
  [num |-> num, pad |-> pad, shipped |-> shipped, box |-> box, row |-> row,
   told |-> <<0, 0>>, waves |-> FALSE, deps |-> After(num, pad)]

StateAt(num, total, phases) ==
  [phase |-> num, plan |-> 1, total |-> total, status |-> "Executing",
   done |-> num.int - 1, phases |-> phases, pct |-> 0, entries |-> {}, lists |-> TRUE,
   fm |-> [phases |-> phases, completed |-> 0, percent |-> 0, status |-> "executing"]]

(* Three phases in order, the first executed. *)
Plain ==
  [disk |-> {Dir(Num(1, 0), "setup", {"a"}, {"a"}), Dir(Num(2, 0), "core", {"b"}, {}),
             Dir(Num(3, 0), "ui", {"c"}, {"c"})},
   archive |-> {},
   roadmap |-> <<Heading(Num(1, 0), FALSE, FALSE, "done", "Complete"),
                 Heading(Num(2, 0), FALSE, FALSE, "open", "Planned"),
                 Heading(Num(3, 0), FALSE, FALSE, "open", "Planned")>>,
   state |-> [StateAt(Num(2, 0), 1, 3) EXCEPT !.entries = {Entry("decision", 1)}]]

(* A shipped phase, an inserted one and a parked idea. *)
Grown ==
  [disk |-> {Dir(Num(2, 0), "core", {"b"}, {"b"}), Dir(Num(2, 1), "fix", {}, {}),
             Dir(Num(Backlog, 1), "idea", {}, {})},
   archive |-> {Dir(Num(1, 0), "setup", {"a"}, {"a"})},
   roadmap |-> <<Heading(Num(1, 0), FALSE, TRUE, "done", "Complete"),
                 Heading(Num(2, 0), FALSE, FALSE, "open", Nothing),
                 Heading(Num(2, 1), TRUE, FALSE, "open", Nothing),
                 Heading(Num(Backlog, 1), FALSE, FALSE, Nothing, Nothing)>>,
   state |-> [StateAt(Num(2, 0), 1, 2) EXCEPT !.entries = {Entry("decision", 1)}, !.done = Absent]]

(* Nothing yet: the first phase added depends on a phase 0. *)
Fresh ==
  [disk |-> {}, archive |-> {}, roadmap |-> <<>>,
   state |-> [StateAt(Num(1, 0), Absent, 0) EXCEPT !.phase = Absent, !.plan = NotStarted]]

Command(name, num, pad, n) == [name |-> name, num |-> num, pad |-> pad, n |-> n]
On(name, i, n) == Command(name, Num(i, 0), FALSE, n)

\* What two agents call on each of them, in any order.
PlainCommands ==
  <<On("add", 0, 1), On("insert", 2, 1), On("remove", 1, 0), On("remove", 2, 0),
    On("complete", 3, 1), On("progress", 2, 0), On("requirements", 3, 0),
    On("decide", 3, 0), On("prune", 0, 1), On("planned", 2, 2), On("execute", 2, 0),
    On("manage", 0, 0)>>

GrownCommands ==
  <<On("add", 0, 2), On("insert", 7, 1), Command("remove", Num(2, 1), TRUE, 0),
    On("remove", 2, 1), On("complete", 2, 0), On("begin", 2, 1), On("advance", 0, 0),
    On("update", 0, 0), On("sync", 0, 0), On("milestone", 0, 1), On("clear", 0, 0),
    On("manage", 0, 0)>>

\* Two plans in the second phase, and entries about it.
Wide == [Plain EXCEPT !.disk = {IF d.num.int = 2 THEN [d EXCEPT !.plans = {"b", "e"}] ELSE d :
                                  d \in @}]
EntryCommands ==
  <<On("block", 2, 0), On("resolve", 2, 0), On("measure", 2, 0), On("session", 0, 0),
    On("annotate", 2, 0), On("decide", 3, 0), On("prune", 0, 1)>>

CONSTANTS p1, p2, p3, main, next

(* Profiles: two that are valid, one with a model nobody lists. *)
Models(m) == [k \in Kinds |-> m]
Profiles(name) ==
  [current |-> name,
   presets |-> [fast |-> Models("small"), deep |-> Models("large"), gone |-> Models("old")]]
Agents(model) == [agent |-> Models(model) @@ [mine |-> "own"], allowed |-> FALSE]
Unset   == <<>>
Chosen  == [oc |-> Profiles("fast"), opencode |-> Agents("small")]
Foreign == [opencode |-> [agent |-> [mine |-> "own"], allowed |-> FALSE]]

Project(phase, place, profiles, calls) ==
  [phases |-> phase, space |-> place, profiles |-> profiles, library |-> <<>>,
   calls |-> [p \in Procs |-> IF p = p1 THEN calls[1] ELSE IF p = p2 THEN calls[2]
                              ELSE calls[3]]]
Session(phase, place, calls) == Project(phase, place, Unset, calls)

Pairs(phase, place, commands) ==
  {Session(phase, place, <<commands[i], commands[j], Nothing>>) :
     <<i, j>> \in {x \in (DOMAIN commands) \X (DOMAIN commands) : x[1] <= x[2]}}

(* A flat project, with a config.json from long ago. *)
WorkOf(of) == [f \in ToSet(WorkFiles) |-> [text |-> "work", of |-> of, file |-> f]]
With(config, files_) == ("config.json" :> config) @@ files_
Bare ==
  [tree |-> Root :> <<>>, pointer |-> [k \in {"shared", "tty"} |-> Nothing], work |-> {}]
Flat ==
  [Bare EXCEPT
    !.tree = Root :> With([profile |-> "default", depth |-> "default", multiRepo |-> "default",
                           phase |-> "default"], WorkOf(Nothing)),
    !.work = {WorkOf(Nothing)[f] : f \in ToSet(WorkFiles)}]

(* A project with one workstream, which has settings of its own. *)
Split ==
  [tree |-> Root :> <<>> @@ Workstreams :> <<>>
            @@ Workstream(main) :> With([profile |-> "default", nyquist |-> "default"],
                                        WorkOf(main)),
   pointer |-> [k \in {"shared", "tty"} |-> IF k = "shared" THEN main ELSE Nothing],
   work |-> {WorkOf(main)[f] : f \in ToSet(WorkFiles)}]

Call_(name, key, stream, into, setting) ==
  [name |-> name, key |-> key, stream |-> stream, into |-> into, setting |-> setting]
Create(stream, into) == Call_("create", "shared", stream, into, Nothing)
Finish(stream) == Call_("finish", "shared", stream, Nothing, Nothing)
Set_(setting)  == Call_("set", "shared", Nothing, Nothing, setting)
Plainly(name, key) == Call_(name, key, Nothing, Nothing, Nothing)

FlatCommands ==
  <<Create(next, main), Create(main, main), Finish(main), Set_("strategy"),
    Plainly("profile", "shared"), Plainly("load", "tty"), Plainly("health", "shared"),
    Plainly("new", "shared"), Set_("commit")>>
SplitCommands ==
  <<Create(next, Nothing), Finish(main), Call_("switch", "tty", main, Nothing, Nothing),
    Set_("strategy"), Plainly("load", "shared"), Plainly("health", "shared"),
    Plainly("ensure", "tty")>>

Oc(name, profile, models) == [name |-> name, profile |-> profile, models |-> models]
ProfileCalls ==
  <<Oc("inline", "new", Models("large")), Oc("pick", "deep", Nothing),
    Oc("rewrite", Nothing, Nothing), Oc("allow", Nothing, Nothing), Oc("pick", "gone", Nothing),
    Oc("pick", Nothing, Nothing), Oc("inline", "fast", [planning |-> "large"])>>
ProfilePairs(profiles, n) ==
  {Project(Fresh, Bare, profiles, <<ProfileCalls[i], ProfileCalls[j], Nothing>>) :
     <<i, j>> \in {x \in (1 .. n) \X (1 .. n) : x[1] <= x[2]}}

(* One learning is old; both projects have learnt the same. *)
Learnt(project, lesson) == [project |-> project, lesson |-> lesson]
Library ==
  <<"old", 1>> :> [text |-> Learnt("one", "lesson"), aged |-> TRUE]
Copy(project, lessons) == [name |-> "copy", project |-> project, lessons |-> lessons]
Plain_(name) == [name |-> name]
LearningCalls ==
  <<Copy("one", <<"lesson", "other">>), Copy("two", <<"lesson">>), Plain_("purge"),
    Plain_("forget")>>
KnowledgeSessions ==
  {[Session(Fresh, Bare, <<LearningCalls[i], LearningCalls[j], LearningCalls[k]>>)
      EXCEPT !.library = Library] :
     <<i, j, k>> \in {<<1, 1, 3>>, <<1, 2, 2>>, <<1, 3, 4>>, <<2, 4, 2>>, <<3, 3, 4>>}}

\* Two wait while a third is killed inside the lock.
Triples ==
  {Session(Plain, Bare, <<On("decide", 1, 0), On("decide", 2, 0), On("decide", 3, 0)>>),
   Session(Plain, Bare, <<On("progress", 2, 0), On("annotate", 2, 0), On("add", 0, 1)>>)}

\* The first phase after a shipped one is planned, not executed.
Resumed ==
  Session([Grown EXCEPT !.disk = {[d EXCEPT !.sums = {}] : d \in @}], Bare,
          <<On("manage", 0, 0), On("progress", 2, 0), Nothing>>)

PhaseSessions ==
  Pairs(Plain, Bare, PlainCommands) \cup Pairs(Grown, Bare, GrownCommands)
    \cup Pairs(Wide, Bare, EntryCommands) \cup Triples \cup {Resumed}
    \cup Pairs(Fresh, Bare, <<On("add", 0, 1), On("manage", 0, 0), On("begin", 1, 0)>>)

SpaceSessions ==
  Pairs(Fresh, Flat, FlatCommands) \cup Pairs(Fresh, Split, SplitCommands)
    \cup KnowledgeSessions \cup ProfilePairs(Chosen, 5) \cup ProfilePairs(Unset, 7)
    \cup ProfilePairs(Foreign, 7)

\* Left out: the two pairs with the most states, which most properties except,
\* of two completions that overlap, of one workstream and of one phase.
Twice ==
  {Session(Fresh, Split, <<Finish(main), Finish(main), Nothing>>),
   Session(Plain, Bare, <<On("complete", 3, 1), On("complete", 3, 1), Nothing>>)}

AllSessions == (PhaseSessions \cup SpaceSessions) \ Twice
================================================================================
