---------------------------- MODULE PlanningProcess ----------------------------
(***************************************************************************)
(* Processes on one project: agents in parallel worktrees call gsd-tools   *)
(* and gsd-oc-tools (.opencode/get-shit-done/bin) whenever they like, and  *)
(* each call is a process of its own that runs one command to its end.  A  *)
(* step is one call of the file system, and between two of them any other  *)
(* process may run, be killed or wait.                                     *)
(*                                                                         *)
(* Lock files keep some of the commands apart: the .lock of the directory  *)
(* they work on, .planning/ or a workstream's (withPlanningLock), and      *)
(* STATE.md.lock (acquireStateLock).  Each is created exclusively; one     *)
(* that is too old is taken for a dead process's and unlinked; who has     *)
(* waited too long unlinks it and goes on without one.  Time is abstract:  *)
(* a lock someone waits for may turn old, and a wait has MaxTries tries.   *)
(* Mutants stand above what they mutate.                                   *)
(***************************************************************************)
EXTENDS PlanningValues, Integers, Sequences, FiniteSets, TLC

CONSTANTS
    Procs,          \* the processes
    Streams,        \* the names of workstreams
    MaxTries,       \* tries before a wait for a lock ends
    MaxKills,       \* processes that are killed
    MaxFaults       \* renames, writes and creations that fail

VARIABLES
    lock,           \* the creator of each lock file, Stray or Nobody
    old,            \* the lock file is older than the limit
    run,            \* the call of each process
    killed,         \* the processes killed
    faults,         \* the renames, writes and creations that failed
    usurped,        \* history: locks someone entered or freed against a live owner
    together,       \* history: the calls on the same settings that ran at the same time
    lost            \* history: what a failing write or a failing way back has destroyed

locks == <<lock, old>>
history == <<killed, faults, usurped, together, lost>>

Locks  == {"planning", "state"} \cup Streams
Nobody == "nobody"
Stray  == "stray"       \* a lock file no call will unlink

ASSUME ProcessAssumption ==
  /\ Procs \cap {Nobody, Stray} = {}
  /\ Streams \cap {"planning", "state"} = {} /\ Nothing \notin Locks

(* The steps of each command, in the order of the code. *)
RoadmapCycle(inside) ==
  <<"lock planning", "read roadmap">> \o inside \o <<"write roadmap">>
StateCycleUnlocked == <<"read state", "write state">>
StateCycle == <<"lock state", "read state", "write state", "unlock state">>
LateLock   == <<"derive state", "lock state", "write state", "unlock state">>
Unlock     == <<"unlock planning">>
PruneCycle == <<"read cutoff">> \o StateCycle \o <<"read archive", "write archive">>

PhaseProgram ==
  [add          |-> RoadmapCycle(<<"make directory">>) \o Unlock,
   insert       |-> RoadmapCycle(<<"make directory">>) \o Unlock,
   remove       |-> <<"find phase", "delete directory", "list directories",
                      "rename directory">> \o RoadmapCycle(<<>>) \o Unlock \o StateCycle,
   complete     |-> <<"find phase">> \o RoadmapCycle(<<>>)
                      \o <<"read requirements", "write requirements">> \o Unlock
                      \o <<"find next">> \o StateCycle \o PruneCycle,
   progress     |-> <<"find phase">> \o RoadmapCycle(<<>>) \o Unlock,
   requirements |-> <<"read requirements", "write requirements">>,
   begin        |-> StateCycle,
   advance      |-> StateCycle,
   annotate     |-> <<"find phase">> \o RoadmapCycle(<<>>) \o Unlock,
   decide       |-> StateCycle,
   block        |-> StateCycle,
   resolve      |-> StateCycle,
   measure      |-> StateCycle,
   session      |-> StateCycle,
   update       |-> <<"scan">> \o StateCycle,
   prune        |-> PruneCycle,
   planned      |-> <<"read state">> \o LateLock,
   sync         |-> <<"read state">> \o LateLock,
   milestone    |-> <<"scan", "read state">> \o LateLock \o <<"archive directories">>,
   clear        |-> <<"clear directories">>,
   execute      |-> <<"write summary">>,
   manage       |-> <<"manage">>]

(* A call: the command, the step it is at (0: not called yet), its wait    *)
(* for a lock, and its local variables.                                    *)
ToCall(c) ==
  [cmd |-> c, at |-> 0, tries |-> 0, stale |-> FALSE, forced |-> FALSE,
   text |-> Nothing, dirs |-> {}, num |-> Nothing, body |-> Nothing, ticked |-> {},
   cutoff |-> 0, cut |-> {}, filed |-> {}, scope |-> "planning", copy |-> Nothing, todo |-> <<>>,
   moved |-> <<>>, was |-> Nothing, kept |-> Nothing]

(* The directory a call works on is found first, and made if need be.      *)
Routing    == <<"route", "heal">>
MakeConfig == <<"make scope", "look for config", "write defaults">>
SetConfig  == <<"make scope", "lock planning", "read config", "write config",
                "unlock planning">>
Rewrite    == <<"truncate config", "fill config">>

SpaceProgram ==
  [create  |-> <<"look for stream", "look for mode", "look for work", "look for target",
                 "make target", "look", "move", "undo", "discard", "drop workstreams",
                 "make stream", "look for state", "write new state", "point">>,
   finish  |-> <<"look for stream", "unpoint", "pick archive", "make archive",
                 "list entries", "move", "undo", "discard", "point",
                 "remove stream", "drop workstreams">>,
   switch  |-> <<"look for stream", "point">>,
   ensure  |-> Routing \o MakeConfig,
   new     |-> Routing \o <<"look for config", "make scope", "write defaults">>,
   profile |-> Routing \o MakeConfig \o SetConfig,
   set     |-> Routing \o SetConfig,
   load    |-> Routing \o <<"load config">> \o Rewrite,
   health  |-> Routing \o <<"inspect", "back up state", "lock state", "regenerate state",
                             "unlock state", "repair">> \o Rewrite]

(* The commands of gsd-oc-tools: set-profile with and without a definition, *)
(* update-opencode-json and allow-read-config.                              *)
SaveProfile == <<"back up oc", "empty oc", "fill oc">>
ApplyProfile ==
  <<"read profile", "read opencode", "empty opencode", "fill opencode", "restore">>

ProfileProgram ==
  [inline |-> <<"fetch catalog", "read profiles">> \o SaveProfile \o ApplyProfile,
   pick   |-> <<"look at profile", "read profiles", "fetch catalog">> \o SaveProfile
              \o ApplyProfile,
   rewrite |-> <<"look at opencode", "read profiles", "back up opencode">>
               \o ApplyProfile,
   allow  |-> <<"read permission", "back up opencode", "empty opencode", "fill opencode",
                "restore">>]

(* The learnings of all projects. *)
KnowledgeProgram ==
  [copy   |-> <<"scan library", "read learning", "create learning", "fill learning">>,
   purge  |-> <<"list old", "look at old", "unlink learning">>,
   forget |-> <<"find learning", "unlink learning">>]

PhaseCommands     == DOMAIN PhaseProgram
SpaceCommands     == DOMAIN SpaceProgram
ProfileCommands   == DOMAIN ProfileProgram
KnowledgeCommands == DOMAIN KnowledgeProgram
Commands == PhaseCommands \cup SpaceCommands \cup ProfileCommands \cup KnowledgeCommands

Program ==
  [c \in Commands |-> IF c \in PhaseCommands THEN PhaseProgram[c]
                      ELSE IF c \in SpaceCommands THEN SpaceProgram[c]
                      ELSE IF c \in ProfileCommands THEN ProfileProgram[c]
                      ELSE KnowledgeProgram[c]]

Started(p) == run[p].at > 0
Steps(p) == Program[run[p].cmd.name]
Running(p) == Started(p) /\ p \notin killed /\ run[p].at <= Len(Steps(p))
At(p, step) == Running(p) /\ Steps(p)[run[p].at] = step
Cmd(p) == run[p].cmd
Is(p, names) == Started(p) /\ Cmd(p).name \in names
Quiet == \A p \in Procs : ~Running(p)

Go(p) == run' = [run EXCEPT ![p].at = @ + 1]
GoWith(p, field, value) == run' = [run EXCEPT ![p].at = @ + 1, ![p][field] = value]

(* A branch or a loop: the call is at a step of that name next. *)
StepNo(p, step) == CHOOSE i \in DOMAIN Steps(p) : Steps(p)[i] = step
GoTo(p, step) == run' = [run EXCEPT ![p].at = StepNo(p, step)]

(* output() ends a call early; error() and an error that nobody catches do *)
(* too.                                                                    *)
Stop(p) == run' = [run EXCEPT ![p].at = Len(Steps(p)) + 1]

ProcessInit(calls) ==
  /\ run = [p \in Procs |-> ToCall(calls[p])]
  /\ lock = [l \in Locks |-> Nobody] /\ old = [l \in Locks |-> FALSE]
  /\ killed = {} /\ faults = 0 /\ usurped = {} /\ together = {} /\ lost = {}

Related(a, b) ==
  \E commands \in {SpaceCommands, ProfileCommands, KnowledgeCommands} :
    {a, b} \subseteq commands

Call(p) ==
  /\ ~Started(p) /\ Cmd(p) # Nothing
  /\ Go(p)
  /\ together' = together \cup
       {{p, q} : q \in {r \in Procs : Running(r) /\ Related(Cmd(p).name, Cmd(r).name)}}
  /\ UNCHANGED <<locks, killed, faults, usurped, lost>>

(* A rename, a write or a creation fails: the disk is full, access is      *)
(* denied, a file is in use.  MaxFaults times, and once more in a rollback,*)
(* which such a failure begins.                                            *)
FaultsAllowed ==
  IF \E p \in Procs : At(p, "undo") THEN MaxFaults + 1 ELSE MaxFaults
Fault == faults < FaultsAllowed /\ faults' = faults + 1

-----------------------------------------------------------------------------
(***************************************************************************)
(* The locks.                                                              *)
(***************************************************************************)
(* The planning lock is that of the directory the call works on. *)
AtLock(p, l) ==
  IF l = "state" THEN At(p, "lock state") ELSE l = run[p].scope /\ At(p, "lock planning")
AtUnlock(p, l) ==
  IF l = "state" THEN At(p, "unlock state") ELSE l = run[p].scope /\ At(p, "unlock planning")

Live(q) == q \in Procs /\ Running(q)

(* An exclusive create that succeeds. *)
CreateLockTruncating(p, l) ==
  /\ AtLock(p, l) /\ ~run[p].stale /\ run[p].tries < MaxTries
  /\ lock' = [lock EXCEPT ![l] = p] /\ old' = [old EXCEPT ![l] = FALSE]
  /\ run' = [run EXCEPT ![p].at = @ + 1, ![p].tries = 0]
  /\ UNCHANGED history
CreateLock(p, l) ==
  /\ AtLock(p, l) /\ ~run[p].stale /\ run[p].tries < MaxTries
  /\ lock[l] = Nobody
  /\ lock' = [lock EXCEPT ![l] = p] /\ old' = [old EXCEPT ![l] = FALSE]
  /\ run' = [run EXCEPT ![p].at = @ + 1, ![p].tries = 0]
  /\ UNCHANGED history

(* One that fails, but not because the file exists.  acquireStateLock goes *)
(* on without the lock; withPlanningLock ends the call, which may have     *)
(* created the file and failed to write into it.  (acquireStateLock goes   *)
(* on then too, and unlinks it later as one it has created.)               *)
CreateFails(p, l) ==
  /\ AtLock(p, l) /\ ~run[p].stale /\ run[p].tries < MaxTries
  /\ Fault
  /\ IF l = "state"
       THEN /\ run' = [run EXCEPT ![p].at = @ + 1, ![p].tries = 0]
            /\ usurped' = usurped \cup {l}
            /\ UNCHANGED locks
       ELSE /\ Stop(p)
            /\ \/ UNCHANGED locks
               \/ /\ lock[l] = Nobody
                  /\ lock' = [lock EXCEPT ![l] = Stray] /\ old' = [old EXCEPT ![l] = FALSE]
            /\ UNCHANGED usurped
  /\ UNCHANGED <<killed, together, lost>>

(* It exists: its age is read, and the process sleeps or will unlink it.   *)
FindLocked(p, l) ==
  /\ AtLock(p, l) /\ ~run[p].stale /\ run[p].tries < MaxTries
  /\ lock[l] # Nobody
  /\ run' = IF old[l] THEN [run EXCEPT ![p].stale = TRUE]
                      ELSE [run EXCEPT ![p].tries = @ + 1]
  /\ UNCHANGED <<locks, history>>

(* The unlink removes whatever lock file is there by now.  For the state   *)
(* lock it counts as a try, and after the last one the process goes on.    *)
UnlinkStale(p, l) ==
  /\ AtLock(p, l) /\ run[p].stale
  /\ lock' = [lock EXCEPT ![l] = Nobody] /\ old' = [old EXCEPT ![l] = FALSE]
  /\ LET tries == IF l = "state" THEN run[p].tries + 1 ELSE run[p].tries
         over  == l = "state" /\ tries = MaxTries
     IN  /\ run' = [run EXCEPT ![p].stale = FALSE,
                               ![p].tries = IF over THEN 0 ELSE tries,
                               ![p].at = IF over THEN @ + 1 ELSE @]
         /\ usurped' = IF over \/ Live(lock[l]) THEN usurped \cup {l} ELSE usurped
  /\ UNCHANGED <<killed, faults, together, lost>>

(* The wait is over: the lock file goes, and the call goes on without one. *)
GiveUpIfFree(p, l) ==
  /\ AtLock(p, l) /\ ~run[p].stale /\ run[p].tries >= MaxTries
  /\ lock[l] = Nobody
  /\ Go(p)
  /\ UNCHANGED <<locks, history>>
GiveUp(p, l) ==
  /\ AtLock(p, l) /\ ~run[p].stale /\ run[p].tries >= MaxTries
  /\ lock' = [lock EXCEPT ![l] = Nobody] /\ old' = [old EXCEPT ![l] = FALSE]
  /\ run' = [run EXCEPT ![p].at = @ + 1, ![p].tries = 0, ![p].forced = (l # "state")]
  /\ usurped' = usurped \cup {l}
  /\ UNCHANGED <<killed, faults, together, lost>>

(* The file is unlinked, whoever has created it; withPlanningLock leaves   *)
(* it alone after a wait that was over.                                    *)
Unlinked(p, l) ==
  IF l # "state" /\ run[p].forced
    THEN UNCHANGED <<locks, usurped>>
    ELSE /\ lock' = [lock EXCEPT ![l] = Nobody] /\ old' = [old EXCEPT ![l] = FALSE]
         /\ usurped' = IF lock[l] # p /\ Live(lock[l]) THEN usurped \cup {l} ELSE usurped

ReleaseLock(p, l) ==
  /\ AtUnlock(p, l)
  /\ Unlinked(p, l)
  /\ GoWith(p, "forced", FALSE)
  /\ UNCHANGED <<killed, faults, together, lost>>

(* A call that ends inside withPlanningLock unlinks the file: on an error  *)
(* in a finally block, in error() by the hook on exit.                     *)
ExitHookMissing(p) == UNCHANGED <<locks, usurped>>
ExitHook(p) == Unlinked(p, run[p].scope)

Age(l) ==
  /\ lock[l] # Nobody /\ ~old[l]
  /\ \E p \in Procs : AtLock(p, l)
  /\ old' = [old EXCEPT ![l] = TRUE]
  /\ UNCHANGED <<lock, run, history>>

(* kill -9, a crash, a power cut: nothing of the process runs any more.    *)
Kill(p) ==
  /\ Running(p) /\ Cardinality(killed) < MaxKills
  /\ killed' = killed \cup {p}
  /\ UNCHANGED <<locks, run, faults, usurped, together, lost>>

-----------------------------------------------------------------------------
LockStep(p) ==
  \E l \in {"state", run[p].scope} :
    \/ CreateLock(p, l) \/ CreateFails(p, l) \/ FindLocked(p, l) \/ UnlinkStale(p, l)
    \/ GiveUp(p, l) \/ ReleaseLock(p, l)

(* The call holds the lock, as far as its own code can tell. *)
Holding(p, l) ==
  LET Locking   == IF l = "state" THEN "lock state" ELSE "lock planning"
      Unlocking == IF l = "state" THEN "unlock state" ELSE "unlock planning"
  IN  /\ Running(p)
      /\ l \in {"state", run[p].scope}
      /\ \E i \in 1 .. run[p].at - 1 :
           /\ Steps(p)[i] = Locking
           /\ \A k \in i + 1 .. run[p].at - 1 : Steps(p)[k] # Unlocking

Apart(A, B) ==
  \A p, q \in Procs : p # q /\ {p, q} \in together => ~(Is(p, A) /\ Is(q, B))

(* Safety: a lock file is that of a call inside the lock, whatever way the *)
(* other calls ended, by an error and a failed write inside the lock too;  *)
(* only a killed process leaves one behind, or is Stray: one that could be *)
(* created and not be filled, or that the rollback of a workstream's       *)
(* completion has put back after its call unlinked nothing.                *)
LockFileHasOwner ==
  \A l \in Locks :
    lock[l] \in {Nobody, Stray} \cup killed \/ Holding(lock[l], l)
================================================================================
