----------------------------- MODULE PlanningSpace -----------------------------
(***************************************************************************)
(* The layout of .planning/ and its settings: workstreams, the pointers to *)
(* the active one, and config.json (lib: workstream.cjs, config.cjs,       *)
(* core.cjs, verify.cjs, and the routing of gsd-tools.cjs).                *)
(*                                                                         *)
(* Flat, a project has its work (ROADMAP.md, STATE.md, REQUIREMENTS.md and *)
(* phases/) in .planning/; with workstreams, each has its own below        *)
(* .planning/workstreams/<name>/, and a finished one is archived below     *)
(* .planning/milestones/.  tree says which directories there are and what  *)
(* is in them.  A content is a function: of a work file it has the field   *)
(* "text", of a config.json the keys set there; one that does not parse is *)
(* Torn.  Only the settings that some code treats in its own way are told  *)
(* apart.  A read whose answer a command acts on is a step, and so is a    *)
(* write.  Mutants stand above what they mutate.                           *)
(***************************************************************************)
EXTENDS PlanningProcess, SequencesExt

CONSTANT Repos      \* the git repositories below the project, or Nothing

VARIABLES
    tree,           \* the files of each directory
    pointer,        \* the active workstream of each session key
    told,           \* history: the settings config-set has written
    work            \* history: the work there was at the start

space == <<tree, pointer>>

Place(kind, stream, n) == [kind |-> kind, stream |-> stream, n |-> n]
Root           == Place("planning", Nothing, 0)
Workstreams    == Place("workstreams", Nothing, 0)
Workstream(s)  == Place("workstream", s, 0)
ArchiveOf(s, n) == Place("milestones", s, n)

PlanningDir(scope) == IF scope = "planning" THEN Root ELSE Workstream(scope)
Here(p) == PlanningDir(run[p].scope)

Torn    == [text |-> "torn"]
NewWork == [text |-> "new"]
WorkFiles == <<"ROADMAP.md", "STATE.md", "REQUIREMENTS.md", "phases">>

Exists(d)  == d \in DOMAIN tree
Has(d, f)  == Exists(d) /\ f \in DOMAIN tree[d]
Parses(d)  == Has(d, "config.json") /\ tree[d]["config.json"] # Torn
Config(d)  == tree[d]["config.json"]
Drop(f, S) == [x \in DOMAIN f \ S |-> f[x]]

\* mkdir -p, and a write, which fails without the directory
WithDirs(dirs) ==
  [d \in DOMAIN tree \cup dirs |-> IF Exists(d) THEN tree[d] ELSE <<>>]
WithFile(d, f, content) ==
  IF Exists(d) THEN [tree EXCEPT ![d] = Put(@, f, content)] ELSE tree
MadeDirs(d) == IF d.kind = "workstream" THEN {Workstreams, d} ELSE {d}

SpaceInit(w) ==
  /\ tree = w.tree /\ pointer = w.pointer
  /\ told = {} /\ work = w.work

Idle == UNCHANGED <<space, told, work, locks, history>>
OnlyTree == UNCHANGED <<pointer, told, work, locks, history>>

Skip(p) == run' = [run EXCEPT ![p].at = @ + 2]

-----------------------------------------------------------------------------
(***************************************************************************)
(* The active workstream: of the session if the terminal has one, else the *)
(* shared one.  A pointer to a workstream that is gone is removed.         *)
(***************************************************************************)
Key(p) == Cmd(p).key
Pointed(p) == pointer[Key(p)]

Route(p) ==
  /\ At(p, "route")
  /\ IF Pointed(p) # Nothing /\ ~Exists(Workstream(Pointed(p)))
       THEN Go(p)
       ELSE run' = [run EXCEPT ![p].at = @ + 2,
                               ![p].scope = IF Pointed(p) = Nothing THEN "planning"
                                                                    ELSE Pointed(p)]
  /\ Idle

Heal(p) ==
  /\ At(p, "heal")
  /\ pointer' = [pointer EXCEPT ![Key(p)] = Nothing]
  /\ Go(p)
  /\ UNCHANGED <<tree, told, work, locks, history>>

(* workstream set, create and a failed complete; the last only points back.*)
Point(p) ==
  /\ At(p, "point")
  /\ pointer' = IF Is(p, {"finish"}) /\ run[p].was = Nothing THEN pointer
                ELSE [pointer EXCEPT ![Key(p)] = Cmd(p).stream]
  /\ Stop(p)
  /\ UNCHANGED <<tree, told, work, locks, history>>

Unpoint(p) ==
  /\ At(p, "unpoint")
  /\ IF Pointed(p) = Cmd(p).stream
       THEN pointer' = [pointer EXCEPT ![Key(p)] = Nothing] /\ GoWith(p, "was", Pointed(p))
       ELSE UNCHANGED pointer /\ Go(p)
  /\ UNCHANGED <<tree, told, work, locks, history>>

-----------------------------------------------------------------------------
(***************************************************************************)
(* workstream create, which moves the flat project into a workstream of    *)
(* its own first, and workstream complete.                                 *)
(***************************************************************************)
Mine(p) == Workstream(Cmd(p).stream)

\* Where a call moves files from and to.
Source(p) == IF Is(p, {"create"}) THEN Root ELSE Mine(p)
Target(p) == IF Is(p, {"create"}) THEN Workstream(Cmd(p).into)
             ELSE ArchiveOf(Cmd(p).stream, run[p].num)

LookForStream(p) ==
  /\ At(p, "look for stream")
  /\ IF Is(p, {"create"}) THEN IF Has(Mine(p), "STATE.md") \/ ~Exists(Root) THEN Stop(p)
                                                                          ELSE Go(p)
                          ELSE IF Exists(Mine(p)) THEN Go(p) ELSE Stop(p)
  /\ Idle

LookForMode(p) ==
  /\ At(p, "look for mode")
  /\ IF Exists(Workstreams) \/ Cmd(p).into = Nothing THEN GoTo(p, "make stream") ELSE Go(p)
  /\ Idle

LookForWork(p) ==
  /\ At(p, "look for work")
  /\ IF \E f \in {"ROADMAP.md", "STATE.md", "phases"} : Has(Root, f)
       THEN Go(p) /\ UNCHANGED tree
       ELSE GoTo(p, "make stream") /\ tree' = WithDirs({Workstreams})
  /\ OnlyTree

LookForTarget(p) ==
  /\ At(p, "look for target")
  /\ IF Exists(Workstreams) THEN Stop(p) ELSE Go(p)
  /\ Idle

MakeTarget(p) ==
  /\ At(p, "make target")
  /\ tree' = WithDirs(MadeDirs(Target(p)))
  /\ GoWith(p, "todo", WorkFiles)
  /\ OnlyTree

\* The milestones directory has room for every archive.
PickArchive(p) ==
  /\ At(p, "pick archive")
  /\ GoWith(p, "num", CHOOSE n \in 0 .. Cardinality(DOMAIN tree) :
                        /\ ~Exists(ArchiveOf(Cmd(p).stream, n))
                        /\ \A m \in 0 .. n - 1 : Exists(ArchiveOf(Cmd(p).stream, m)))
  /\ Idle

MakeArchive(p) ==
  /\ At(p, "make archive")
  /\ tree' = WithDirs({Target(p)})
  /\ Go(p)
  /\ OnlyTree

(* Everything in the workstream goes, its lock file first.  In the archive *)
(* that is a file like any other.                                          *)
IsLock(d, f) == f = ".lock" /\ d.kind = "workstream"
LockFile(d)  == IF d.kind = "workstream" /\ lock[d.stream] # Nobody THEN <<".lock">> ELSE <<>>
ListEntries(p) ==
  /\ At(p, "list entries")
  /\ IF Exists(Source(p))
       THEN GoWith(p, "todo", LockFile(Source(p)) \o SetToSeq(DOMAIN tree[Source(p)]))
       ELSE GoTo(p, "discard")
  /\ Idle

Todo(p) == Head(run[p].todo)

Look(p) ==
  /\ At(p, "look")
  /\ IF run[p].todo = <<>> THEN GoTo(p, "make stream")
     ELSE IF Has(Source(p), Todo(p)) THEN Go(p)
     ELSE run' = [run EXCEPT ![p].todo = Tail(@)]
  /\ Idle

(* rename(2) of one file or directory: it fails if the source or the       *)
(* target's directory is gone, or if it would replace a directory.         *)
CanRename(from, to, f) ==
  /\ IF IsLock(from, f) THEN LockFile(from) # <<>> ELSE Has(from, f)
  /\ Exists(to) /\ (f = "phases" => ~Has(to, f))
Renamed(from, to, f) ==
  IF IsLock(from, f) THEN WithFile(to, f, [text |-> "lock"])
  ELSE IF IsLock(to, f) THEN [tree EXCEPT ![from] = Drop(@, {f})]
  ELSE [tree EXCEPT ![to] = Put(@, f, tree[from][f]), ![from] = Drop(@, {f})]

\* The process that created a lock file which is put back may have ended.
LockAfterRename(from, to, f) ==
  IF IsLock(from, f)
    THEN lock' = [lock EXCEPT ![from.stream] = Nobody] /\ old' = [old EXCEPT ![from.stream] = FALSE]
  ELSE IF IsLock(to, f)
    THEN lock' = [lock EXCEPT ![to.stream] = Stray] /\ old' = [old EXCEPT ![to.stream] = FALSE]
  ELSE UNCHANGED locks

Moved(p) ==
  /\ At(p, "move") /\ run[p].todo # <<>>
  /\ CanRename(Source(p), Target(p), Todo(p))
  /\ tree' = Renamed(Source(p), Target(p), Todo(p))
  /\ LockAfterRename(Source(p), Target(p), Todo(p))
  /\ run' = [run EXCEPT ![p].todo = Tail(@), ![p].moved = Append(@, Todo(p)),
                        ![p].at = IF Is(p, {"create"}) THEN @ - 1 ELSE @]
  /\ UNCHANGED <<pointer, told, work, history>>

MoveFails(p) ==
  /\ At(p, "move") /\ run[p].todo # <<>>
  /\ IF CanRename(Source(p), Target(p), Todo(p))
       THEN Fault ELSE UNCHANGED faults
  /\ GoTo(p, "undo")
  /\ UNCHANGED <<space, told, work, locks, killed, usurped, together, lost>>

AllMoved(p) ==
  /\ At(p, "move") /\ run[p].todo = <<>>
  /\ GoTo(p, "remove stream")
  /\ Idle

(* What was moved goes back, in the same order; a rename that fails is     *)
(* skipped.  Then the target goes with everything in it.                   *)
UndoLast(p) ==
  /\ At(p, "undo") /\ run[p].moved # <<>>
  /\ LET f == Last(run[p].moved)
     IN  tree' = IF CanRename(Target(p), Source(p), f) THEN Renamed(Target(p), Source(p), f)
                 ELSE tree
  /\ Go(p)
  /\ OnlyTree
Undo(p) ==
  /\ At(p, "undo") /\ run[p].moved # <<>>
  /\ LET f == Head(run[p].moved) IN
       IF CanRename(Target(p), Source(p), f)
         THEN \/ /\ tree' = Renamed(Target(p), Source(p), f)
                 /\ LockAfterRename(Target(p), Source(p), f)
                 /\ UNCHANGED <<faults, lost>>
              \/ /\ Fault
                 /\ lost' = lost \cup {tree[Target(p)][f]}
                 /\ UNCHANGED <<tree, locks>>
         ELSE UNCHANGED <<tree, locks, faults, lost>>
  /\ run' = [run EXCEPT ![p].moved = Tail(@)]
  /\ UNCHANGED <<pointer, told, work, killed, usurped, together>>

AllUndone(p) ==
  /\ At(p, "undo") /\ run[p].moved = <<>>
  /\ Go(p)
  /\ Idle

Discard(p) ==
  /\ At(p, "discard")
  /\ tree' = Drop(tree, {Target(p)})
  /\ LET gone == {l \in Streams : Target(p) = Workstream(l)}
     IN  /\ lock' = [l \in Locks |-> IF l \in gone THEN Nobody ELSE lock[l]]
         /\ old' = [l \in Locks |-> old[l] /\ l \notin gone]
  /\ Go(p)
  /\ UNCHANGED <<pointer, told, work, history>>

(* rmdir of what is empty. *)
RemoveStream(p) ==
  /\ At(p, "remove stream")
  /\ tree' = IF Exists(Mine(p)) /\ DOMAIN tree[Mine(p)] = {} /\ LockFile(Mine(p)) = <<>>
               THEN Drop(tree, {Mine(p)}) ELSE tree
  /\ Go(p)
  /\ OnlyTree

DropWorkstreams(p) ==
  /\ At(p, "drop workstreams")
  /\ tree' = IF \E d \in DOMAIN tree : d.kind = "workstream" THEN tree
             ELSE Drop(tree, {Workstreams})
  /\ Stop(p)
  /\ OnlyTree

MakeStream(p) ==
  /\ At(p, "make stream")
  /\ tree' = LET made == WithDirs({Workstreams, Mine(p)})
             IN  IF Has(Mine(p), "phases") THEN made
                 ELSE [made EXCEPT ![Mine(p)] = Put(@, "phases", NewWork)]
  /\ Go(p)
  /\ OnlyTree

LookForState(p) ==
  /\ At(p, "look for state")
  /\ IF Has(Mine(p), "STATE.md") THEN Skip(p) ELSE Go(p)
  /\ Idle

WriteNewState(p) ==
  /\ At(p, "write new state")
  /\ tree' = WithFile(Mine(p), "STATE.md", NewWork)
  /\ IF Exists(Mine(p)) THEN Go(p) ELSE Stop(p)
  /\ OnlyTree

-----------------------------------------------------------------------------
(***************************************************************************)
(* config.json.                                                            *)
(***************************************************************************)
\* The keys below that VALID_CONFIG_KEYS does not have: no call sets them.
InternalKeys == {"depth", "multiRepo", "repos"}

\* buildNewProjectConfig
NewProjectConfig ==
  [profile |-> "default", commit_docs |-> "default", strategy |-> "default",
   nyquist |-> "default", phase |-> "default"]

\* What health --repair writes: the strategy is not below "git" here.
RepairedConfig ==
  [profile |-> "default", commit_docs |-> "default", branching_strategy |-> "default",
   nyquist |-> "default"]

MakeScope(p) ==
  /\ At(p, "make scope")
  /\ tree' = WithDirs(MadeDirs(Here(p)))
  /\ Go(p)
  /\ OnlyTree

(* config-new-project ends if there is a config.json; to make sure of one  *)
(* is done then.                                                           *)
LookForConfigNever(p) == At(p, "look for config") /\ Go(p) /\ Idle
LookForConfig(p) ==
  /\ At(p, "look for config")
  /\ IF ~Has(Here(p), "config.json") THEN Go(p)
     ELSE IF Is(p, {"new"}) THEN Stop(p) ELSE Skip(p)
  /\ Idle

(* A temporary file is renamed: a reader sees the old or the new config.   *)
AtomicWrite(p, content) == tree' = WithFile(Here(p), "config.json", content)

WriteDefaults(p) ==
  /\ At(p, "write defaults")
  /\ AtomicWrite(p, NewProjectConfig)
  /\ IF Exists(Here(p)) THEN Go(p) ELSE Stop(p)
  /\ OnlyTree

(* error() ends the call in the lock if the file does not parse. *)
ReadConfig(p) ==
  /\ At(p, "read config")
  /\ IF Has(Here(p), "config.json") /\ ~Parses(Here(p))
       THEN Stop(p) /\ ExitHook(p)
       ELSE /\ GoWith(p, "copy", IF Parses(Here(p)) THEN Config(Here(p)) ELSE <<>>)
            /\ UNCHANGED <<locks, usurped>>
  /\ UNCHANGED <<space, told, work, killed, faults, together, lost>>

SetKey(p) == IF Is(p, {"profile"}) THEN "profile" ELSE Cmd(p).setting

WriteConfig(p) ==
  /\ At(p, "write config")
  /\ AtomicWrite(p, Put(run[p].copy, SetKey(p), p))
  /\ IF Exists(Here(p))
       THEN /\ told' = {t \in told : t.scope # run[p].scope \/ t.setting # SetKey(p)}
                         \cup {[scope |-> run[p].scope, setting |-> SetKey(p), by |-> p]}
            /\ Go(p) /\ UNCHANGED <<locks, usurped>>
       ELSE Stop(p) /\ ExitHook(p) /\ UNCHANGED told
  /\ UNCHANGED <<pointer, work, killed, faults, together, lost>>

(* The temporary file fails, and so does the write of the file itself,     *)
(* before it is emptied or after.                                          *)
EmptiesConfig(p) ==
  /\ tree' = WithFile(Here(p), "config.json", Torn)
  /\ lost' = lost \cup {[config |-> run[p].scope]}
ConfigFails(p) ==
  /\ At(p, "write defaults") \/ At(p, "write config")
  /\ Fault /\ Stop(p)
  /\ IF At(p, "write config") THEN ExitHook(p) ELSE UNCHANGED <<locks, usurped>>
  /\ EmptiesConfig(p) \/ UNCHANGED <<tree, lost>>
  /\ UNCHANGED <<pointer, told, work, killed, together>>

\* The rewrites of loadConfig: "depth" becomes "granularity", and the list
\* of repositories follows the ones that are there; multiRepo becomes one, and
\* turns planning.commit_docs off.
Granular(c) ==
  IF "depth" \in DOMAIN c /\ "granularity" \notin DOMAIN c
    THEN Drop(Put(c, "granularity", c["depth"]), {"depth"}) ELSE c
Synchronized(c) ==
  IF Repos = Nothing THEN c
  ELSE IF "repos" \in DOMAIN c THEN Put(c, "repos", Repos)
  ELSE IF "multiRepo" \in DOMAIN c
    THEN Drop(Put(Put(c, "repos", Repos), "commit", "off"), {"multiRepo"})
  ELSE c

Rewrites(c) ==
  LET first == Granular(c)
      both  == Synchronized(first)
  IN  (IF first = c THEN <<>> ELSE <<first>>) \o (IF both = first THEN <<>> ELSE <<both>>)

(* A file that is missing or does not parse gives the defaults. *)
LoadConfig(p) ==
  /\ At(p, "load config")
  /\ LET todo == IF Parses(Here(p)) THEN Rewrites(Config(Here(p))) ELSE <<>>
     IN  IF todo = <<>> THEN Stop(p)
         ELSE run' = [run EXCEPT ![p].at = @ + 1, ![p].todo = Tail(todo),
                                 ![p].copy = Head(todo)]
  /\ Idle

(* writeFileSync: the file is emptied, then filled. *)
TruncateConfig(p) ==
  /\ At(p, "truncate config")
  /\ tree' = WithFile(Here(p), "config.json", Torn)
  /\ Go(p)
  /\ OnlyTree

\* The next repair or rewrite, if there is one.
Rewritten(p) ==
  CASE Is(p, {"health"}) -> GoTo(p, "repair")
    [] Is(p, {"load"}) /\ run[p].todo = <<>> -> Stop(p)
    [] OTHER -> run' = [run EXCEPT ![p].at = StepNo(p, "truncate config"),
                                   ![p].copy = Todo(p), ![p].todo = <<>>]

FillConfig(p) ==
  /\ At(p, "fill config")
  /\ tree' = WithFile(Here(p), "config.json", run[p].copy)
  /\ Rewritten(p)
  /\ OnlyTree

(* loadConfig swallows a failing rewrite, health notes it and repairs on;  *)
(* the file is as it was, or empty.                                        *)
RewriteFails(p) ==
  /\ \/ At(p, "truncate config") /\ UNCHANGED lost
     \/ At(p, "fill config") /\ lost' = lost \cup {[config |-> run[p].scope]}
  /\ Fault /\ Rewritten(p)
  /\ UNCHANGED <<space, told, work, locks, killed, usurped, together>>

\* What loadConfig returns: git.branching_strategy and planning.commit_docs
\* come after the keys of the same meaning at the top level.
TopLevel == [strategy |-> "branching_strategy", commit |-> "commit_docs"]
Shadowed(config, setting) == setting \in DOMAIN TopLevel /\ TopLevel[setting] \in DOMAIN config
Loaded(config, setting) ==
  IF Shadowed(config, setting) THEN config[TopLevel[setting]]
  ELSE IF setting \in DOMAIN config THEN config[setting] ELSE "default"

-----------------------------------------------------------------------------
(***************************************************************************)
(* validate health --repair.                                               *)
(***************************************************************************)
\* What is to be done about a config.json.  Without a workflow section it is
\* left as it is.
Repairs(d) ==
  IF ~Parses(d) THEN <<"config">>
  ELSE IF "nyquist" \notin DOMAIN Config(d) /\ "phase" \in DOMAIN Config(d) THEN <<"nyquist">>
  ELSE IF "phase" \notin DOMAIN Config(d) /\ "nyquist" \in DOMAIN Config(d) THEN <<"phase">>
  ELSE <<>>

Inspect(p) ==
  /\ At(p, "inspect")
  /\ LET at == IF ~Exists(Here(p)) THEN Len(Steps(p)) + 1
              ELSE IF Has(Here(p), "STATE.md") THEN StepNo(p, "repair")
              ELSE run[p].at + 1
     IN  run' = [run EXCEPT ![p].at = at, ![p].todo = Repairs(Here(p))]
  /\ Idle

(* A key is added to what the file says by now, if it still lacks it. *)
Repair(p) ==
  /\ At(p, "repair")
  /\ IF run[p].todo = <<>> THEN Stop(p)
     ELSE IF Todo(p) = "config" \/ (Parses(Here(p)) /\ Todo(p) \notin DOMAIN Config(Here(p)))
       THEN run' = [run EXCEPT ![p].at = @ + 1, ![p].todo = Tail(@),
              ![p].copy = IF Todo(p) = "config" THEN RepairedConfig
                          ELSE Put(Config(Here(p)), Todo(p), "default")]
       ELSE run' = [run EXCEPT ![p].todo = Tail(@)]
  /\ Idle

BackUpState(p) ==
  /\ At(p, "back up state")
  /\ tree' = IF Has(Here(p), "STATE.md")
               THEN WithFile(Here(p), "STATE.md.bak", tree[Here(p)]["STATE.md"]) ELSE tree
  /\ Go(p)
  /\ OnlyTree

RegenerateState(p) ==
  /\ At(p, "regenerate state")
  /\ tree' = WithFile(Here(p), "STATE.md", NewWork)
  /\ Go(p)
  /\ OnlyTree

(* A new STATE.md may be there, begun; health --repair goes on, and        *)
(* unlocks first.                                                          *)
StateFails(p) ==
  /\ \/ At(p, "write new state") /\ Stop(p)
        /\ tree' \in {tree, WithFile(Mine(p), "STATE.md", NewWork)}
     \/ At(p, "back up state") /\ GoTo(p, "repair") /\ UNCHANGED tree
     \/ At(p, "regenerate state") /\ Go(p)
        /\ tree' \in {tree, WithFile(Here(p), "STATE.md", NewWork)}
  /\ Fault
  /\ UNCHANGED <<pointer, told, work, locks, killed, usurped, together, lost>>

-----------------------------------------------------------------------------
(* The lock file cannot be created in a directory that is gone. *)
InVain(p) == At(p, "lock planning") /\ run[p].tries < MaxTries /\ ~Exists(Here(p))
LockInVain(p) ==
  /\ InVain(p)
  /\ Stop(p)
  /\ Idle

SpaceStep(p) ==
  \/ Route(p) \/ Heal(p) \/ Point(p) \/ Unpoint(p)
  \/ LookForStream(p) \/ LookForMode(p) \/ LookForWork(p) \/ LookForTarget(p)
  \/ MakeTarget(p) \/ PickArchive(p) \/ MakeArchive(p) \/ ListEntries(p) \/ Look(p)
  \/ Moved(p) \/ MoveFails(p) \/ AllMoved(p) \/ Undo(p) \/ AllUndone(p) \/ Discard(p)
  \/ RemoveStream(p) \/ DropWorkstreams(p) \/ MakeStream(p) \/ LookForState(p)
  \/ WriteNewState(p)
  \/ MakeScope(p) \/ LookForConfig(p) \/ WriteDefaults(p) \/ ReadConfig(p)
  \/ WriteConfig(p) \/ ConfigFails(p) \/ LoadConfig(p) \/ TruncateConfig(p)
  \/ FillConfig(p) \/ RewriteFails(p)
  \/ Inspect(p) \/ Repair(p) \/ BackUpState(p) \/ RegenerateState(p) \/ StateFails(p)
  \/ LockInVain(p)

(* Safety: no work is lost: a file of the project or of a workstream is in *)
(* some directory, whatever call was killed, failed and rolled back, and   *)
(* between calls, if none was killed, what belongs together is in one,     *)
(* unless two calls that move or regenerate files overlapped.  Lost is     *)
(* only the file whose way back fails in a rollback too: it goes with the  *)
(* directory it is in.                                                     *)
Movers == {"create", "finish"}
WorkIsKept ==
  LET In(c, d) == \E f \in DOMAIN tree[d] : tree[d][f] = c
      kept == work \ lost
  IN  Apart(Movers, Movers \cup {"health"}) =>
        /\ \A c \in kept : \E d \in DOMAIN tree : In(c, d)
        /\ Quiet /\ killed = {} =>
             \A c, e \in kept : c.of = e.of => \E d \in DOMAIN tree : In(c, d) /\ In(e, d)

(* Safety: a setting config-set has written is what loadConfig returns,    *)
(* whatever commands run later, legacy keys, missing keys and repositories *)
(* included, unless a key at the top level goes before it, or a command    *)
(* that writes without the lock ran at the same time; or its workstream    *)
(* was completed, the lock usurped, or a command killed between emptying   *)
(* the file and filling it, or a write that failed after emptying it; or   *)
(* two calls overlapped of which one repaired what the other had emptied,  *)
(* or rolled back the workstream the other wrote into.                     *)
Unlocked == {"ensure", "new", "profile", "load", "health"}
Filling(p) == Is(p, {"load", "health"}) /\ run[p].at \in DOMAIN Steps(p)
                /\ Steps(p)[run[p].at] = "fill config"
Disturbed(scope) ==
  \/ scope \in usurped
  \/ [config |-> scope] \in lost
  \/ \E p \in Procs : Is(p, {"finish"}) /\ Cmd(p).stream = scope
  \/ \E p, q \in Procs :
       /\ {p, q} \in together
       /\ \/ Is(p, {"health"}) /\ Is(q, {"load", "health"})
          \/ Is(p, {"create"}) /\ Cmd(p).into = scope /\ Is(q, {"set", "profile"})
Raced(t) == \E p \in Procs : {p, t.by} \in together /\ Is(p, Unlocked)
Tells(config, t) ==
  /\ t.setting \in DOMAIN config
  /\ \/ Shadowed(config, t.setting)
     \/ t.setting = "commit" /\ config["commit"] = "off"
     \/ Loaded(config, t.setting) = t.by
SettingsAreKept ==
  \A t \in told :
    \/ Disturbed(t.scope) \/ Raced(t)
    \/ \E p \in Procs : Filling(p) /\ run[p].scope = t.scope
    \/ LET d == PlanningDir(t.scope) IN Parses(d) /\ Tells(Config(d), t)
================================================================================
