------------------------------ MODULE PlanningTool -----------------------------
(***************************************************************************)
(* gsd-tools on the phases of a .planning/ directory (lib: phase.cjs,      *)
(* roadmap.cjs, state.cjs, milestone.cjs).  PlanningFiles says what a      *)
(* command makes of the files, PlanningProcess how the commands run; here  *)
(* are the steps in which they touch the phase directories, ROADMAP.md,    *)
(* STATE.md and REQUIREMENTS.md.  Mutants stand above what they mutate.    *)
(***************************************************************************)
EXTENDS PlanningManager, PlanningProcess

VARIABLES
    disk,           \* the directories of .planning/phases
    archive,        \* the phase directories moved to .planning/milestones
    roadmap,        \* the sections of ROADMAP.md
    state,          \* STATE.md
    required,       \* REQUIREMENTS.md: the phases whose requirement is ticked
    pruned,         \* STATE-ARCHIVE.md: the entries moved there
    recorded        \* history: the entries written, and not resolved

files == <<disk, archive, roadmap, state, required, pruned>>

\* What a failing rename or write leaves alone.
calm == <<killed, usurped, together, lost>>

PhaseInit(w) ==
  /\ disk = w.disk /\ archive = w.archive
  /\ roadmap = w.roadmap /\ state = w.state
  /\ required = {} /\ pruned = {} /\ recorded = state.entries

-----------------------------------------------------------------------------
(***************************************************************************)
(* Phase directories.                                                      *)
(***************************************************************************)
Summed(dirs) == \E d \in dirs : d.sums # {}

FindPhaseUnguarded(p) ==
  /\ At(p, "find phase")
  /\ LET found == IF Is(p, {"remove"}) THEN {d \in disk : TokenMatches(d, Cmd(p).num)}
                  ELSE FindPhase(disk, archive, Cmd(p).num)
     IN  GoWith(p, "dirs", found)
  /\ UNCHANGED <<files, recorded, locks, history>>

(* remove wants --force for executed plans, complete and update-plan-      *)
(* progress want the phase to exist, and the latter that it has plans.  Of *)
(* two directories with one number either may come first.                  *)
FindPhaseDir(p) ==
  /\ At(p, "find phase")
  /\ LET found == IF Is(p, {"remove"}) THEN {d \in disk : TokenMatches(d, Cmd(p).num)}
                  ELSE FindPhase(disk, archive, Cmd(p).num)
         wrong == \/ Is(p, {"remove"}) /\ Summed(found) /\ Cmd(p).n = 0
                  \/ Is(p, {"complete", "progress", "annotate"}) /\ found = {}
                  \/ Is(p, {"progress", "annotate"}) /\ \A d \in found : d.plans = {}
     IN  \E d \in IF found = {} THEN {{}} ELSE {{e} : e \in found} :
           IF wrong THEN Stop(p) ELSE GoWith(p, "dirs", d)
  /\ UNCHANGED <<files, recorded, locks, history>>

SameName(d, e) == d.num = e.num /\ d.slug = e.slug

DeleteDirectory(p) ==
  /\ At(p, "delete directory")
  /\ disk' = {d \in disk : \A e \in run[p].dirs : ~SameName(d, e)}
  /\ Go(p)
  /\ UNCHANGED <<archive, roadmap, state, required, pruned, recorded, locks, history>>

ListDirectories(p) ==
  /\ At(p, "list directories")
  /\ GoWith(p, "dirs", IF Cmd(p).num.dec > 0 THEN DecimalsBehind(disk, Cmd(p).num)
                                             ELSE IntegersBehind(disk, Cmd(p).num))
  /\ UNCHANGED <<files, recorded, locks, history>>

(* One rename: the last directory first; one that is gone, whose new name  *)
(* is taken, or whose rename fails, ends the renaming, and the error is    *)
(* swallowed.                                                              *)
RenameDirectory(p) ==
  /\ At(p, "rename directory")
  /\ LET todo == run[p].dirs
         num(d) == IF Cmd(p).num.dec > 0 THEN RenameDecimalPhases(d)
                                         ELSE RenameIntegerPhases(d)
     IN  IF todo = {} THEN Go(p) /\ UNCHANGED disk
         ELSE \E d \in {e \in todo : \A f \in todo : ~Precedes(e.num, f.num)} :
           LET here  == {e \in disk : SameName(d, e)}
               taken == {e \in disk : SameName([d EXCEPT !.num = num(d)], e)}
           IN  IF here = {} \/ taken # {}
                 THEN GoWith(p, "dirs", {}) /\ UNCHANGED disk
                 ELSE /\ disk' = (disk \ here) \cup {[e EXCEPT !.num = num(d)] : e \in here}
                      /\ run' = [run EXCEPT ![p].dirs = todo \ {d}]
  /\ UNCHANGED <<archive, roadmap, state, required, pruned, recorded, locks, history>>

RenameFails(p) ==
  /\ At(p, "rename directory") /\ run[p].dirs # {}
  /\ Fault
  /\ GoWith(p, "dirs", {})
  /\ UNCHANGED <<files, recorded, locks, calm>>

(* The number is taken and the directory made, unless it is there.  The    *)
(* slug comes from the description, which differs from call to call.       *)
NewNumber(p) ==
  LET base == Cmd(p).num.int
  IN  IF Is(p, {"add"}) THEN Num(NextInteger(disk, run[p].text), 0)
      ELSE Num(base, NextDecimal(disk, run[p].text, base))
NewDirectories(p) ==
  LET num == NewNumber(p)
      new == {NewDirectory(Num(num.int + i, num.dec), p) : i \in 0 .. Cmd(p).n - 1}
  IN  {d \in new : \A e \in disk : ~SameName(d, e)}

MakeDirectory(p) ==
  /\ At(p, "make directory")
  /\ disk' = disk \cup NewDirectories(p)
  /\ GoWith(p, "num", NewNumber(p))
  /\ UNCHANGED <<archive, roadmap, state, required, pruned, recorded, locks, history>>

(* Some may be there by then; the error ends the call. *)
MakeDirectoryFails(p) ==
  /\ At(p, "make directory")
  /\ Fault /\ Stop(p) /\ ExitHook(p)
  /\ \E made \in SUBSET NewDirectories(p) : disk' = disk \cup made
  /\ UNCHANGED <<archive, roadmap, state, required, pruned, recorded, killed, together, lost>>

(* phases clear --confirm keeps the parked ideas, which have a decimal. *)
ClearDirectories(p) ==
  /\ At(p, "clear directories")
  /\ disk' = {d \in disk : d.num.int = Backlog /\ d.num.dec > 0}
  /\ Go(p)
  /\ UNCHANGED <<archive, roadmap, state, required, pruned, recorded, locks, history>>

(* milestone complete --archive-phases moves the milestone's directories,  *)
(* as the ROADMAP.md it has read tells them; a rename that fails is the    *)
(* last, and swallowed.                                                    *)
ArchiveDirectories(p) ==
  /\ At(p, "archive directories")
  /\ LET mine == IF Cmd(p).n = 0 THEN {} ELSE {d \in disk : InMilestone(run[p].text, d)}
     IN  \E moved \in SUBSET mine :
           /\ disk' = disk \ moved /\ archive' = archive \cup moved
           /\ IF moved = mine THEN UNCHANGED faults ELSE Fault
  /\ Go(p)
  /\ UNCHANGED <<roadmap, state, required, pruned, recorded, locks, calm>>

(* An agent executes a plan and leaves its summary. *)
WriteSummary(p) ==
  /\ At(p, "write summary")
  /\ LET here == {d \in disk : d.num = Cmd(p).num /\ d.plans \ d.sums # {}}
     IN  IF here = {} THEN UNCHANGED disk
         ELSE \E d \in here, plan \in UNION {e.plans \ e.sums : e \in here} :
                /\ plan \in d.plans \ d.sums
                /\ disk' = (disk \ {d}) \cup {[d EXCEPT !.sums = @ \cup {plan}]}
  /\ Go(p)
  /\ UNCHANGED <<archive, roadmap, state, required, pruned, recorded, locks, history>>

(* An agent asks the manager what to do next and does it, until there is   *)
(* nothing: a phase is discussed (which makes its directory), planned, or  *)
(* executed.  Some phases may have been touched in the last five minutes.  *)
Manage(p) ==
  /\ At(p, "manage")
  /\ \/ /\ RecommendedActions(disk, roadmap, {}) = {}
        /\ Go(p) /\ UNCHANGED disk
     \/ /\ \E active \in SUBSET {d.num : d \in disk} :
             \E a \in RecommendedActions(disk, roadmap, active) :
               LET here == {d \in disk : d.num = a.phase}
                   work(d) == CASE a.action = "discuss" -> [d EXCEPT !.notes = "context"]
                                [] a.action = "plan"    -> [d EXCEPT !.plans = {p}]
                                [] a.action = "execute" -> [d EXCEPT !.sums = @ \cup d.plans]
               IN  disk' = IF here = {} THEN disk \cup {work(NewDirectory(a.phase, p))}
                           ELSE LET d == CHOOSE e \in here : TRUE
                                IN  (disk \ {d}) \cup {work(d)}
        /\ UNCHANGED run
  /\ UNCHANGED <<archive, roadmap, state, required, pruned, recorded, locks, history>>

-----------------------------------------------------------------------------
(***************************************************************************)
(* ROADMAP.md and REQUIREMENTS.md.                                         *)
(***************************************************************************)
(* insert calls error() inside the lock if the phase is not there. *)
ReadRoadmap(p) ==
  /\ At(p, "read roadmap")
  /\ IF Is(p, {"insert"}) /\ ~CanInsertAfter(roadmap, Cmd(p).num.int)
       THEN Stop(p) /\ ExitHook(p)
       ELSE GoWith(p, "text", roadmap) /\ UNCHANGED <<locks, usurped>>
  /\ UNCHANGED <<files, recorded, killed, faults, together, lost>>

(* The ROADMAP.md a command writes, from the one it has read. *)
NewRoadmap(p) ==
  LET c == Cmd(p)  text == run[p].text  num == run[p].num  IN
  CASE c.name = "add" ->
         text \o [i \in 1 .. c.n |-> AddedSection(num.int + i - 1)]
    [] c.name = "insert"   -> RoadmapAfterInsert(text, c, num)
    [] c.name = "remove"   -> RoadmapAfterRemoval(text, c)
    [] c.name = "complete" ->
         RoadmapAfterCompletion(text, c, CHOOSE d \in run[p].dirs : TRUE)
    [] c.name = "progress" ->
         RoadmapAfterProgress(text, c, CHOOSE d \in run[p].dirs : TRUE)
    [] c.name = "annotate" -> RoadmapAfterAnnotation(text, c, CHOOSE d \in run[p].dirs : TRUE)

WriteRoadmap(p) ==
  /\ At(p, "write roadmap")
  /\ roadmap' = NewRoadmap(p)
  /\ GoWith(p, "text", roadmap')
  /\ UNCHANGED <<disk, archive, state, required, pruned, recorded, locks, history>>

(* atomicWriteFileSync writes a temporary file and renames it; if one of   *)
(* the two fails it writes the file itself, and a failure of that leaves   *)
(* it as it was, or empty.                                                 *)
WriteRoadmapFails(p) ==
  /\ At(p, "write roadmap")
  /\ Fault /\ Stop(p) /\ ExitHook(p)
  /\ roadmap' \in {roadmap, <<>>}
  /\ UNCHANGED <<disk, archive, state, required, pruned, recorded, killed, together, lost>>

(* mark-complete takes no lock. *)
ReadRequirements(p) ==
  /\ At(p, "read requirements")
  /\ GoWith(p, "ticked", required)
  /\ UNCHANGED <<files, recorded, locks, history>>

(* phase complete finds the phase's requirements in its section. *)
WriteRequirements(p) ==
  /\ At(p, "write requirements")
  /\ LET known == \E s \in ToSet(Current(run[p].text)) : Spelled(s, Cmd(p))
     IN  required' = IF Is(p, {"complete"}) /\ ~known THEN required
                     ELSE run[p].ticked \cup {Cmd(p).num}
  /\ Go(p)
  /\ UNCHANGED <<disk, archive, roadmap, state, pruned, recorded, locks, history>>

WriteRequirementsFails(p) ==
  /\ At(p, "write requirements")
  /\ Fault /\ Stop(p)
  /\ IF Is(p, {"complete"}) THEN ExitHook(p) ELSE UNCHANGED <<locks, usurped>>
  /\ UNCHANGED <<files, recorded, killed, together, lost>>

-----------------------------------------------------------------------------
(***************************************************************************)
(* STATE.md and STATE-ARCHIVE.md.                                          *)
(***************************************************************************)
(* What a command counts on disk before it locks STATE.md. *)
Scan(p) ==
  /\ At(p, "scan")
  /\ run' = [run EXCEPT ![p].at = @ + 1, ![p].text = roadmap, ![p].dirs = disk]
  /\ UNCHANGED <<files, recorded, locks, history>>

FindNext(p) ==
  /\ At(p, "find next")
  /\ GoWith(p, "num", NextPhase(disk, roadmap, Cmd(p).num))
  /\ UNCHANGED <<files, recorded, locks, history>>

ReadState(p) ==
  /\ At(p, "read state")
  /\ GoWith(p, "body", state)
  /\ UNCHANGED <<files, recorded, locks, history>>

(* The cutoff comes from a read before the lock.  phase complete prunes    *)
(* only if it is configured.                                               *)
ReadCutoff(p) ==
  /\ At(p, "read cutoff")
  /\ IF Cmd(p).n # 0 /\ Cutoff(state, Cmd(p).n) > 0
       THEN run' = [run EXCEPT ![p].at = @ + 1, ![p].cutoff = Cutoff(state, Cmd(p).n)]
       ELSE Stop(p)
  /\ UNCHANGED <<files, recorded, locks, history>>

Pruning(p) == run[p].cutoff > 0

(* The entry a command is about: add-decision, add-blocker, resolve-blocker *)
(* and record-metric.                                                       *)
Subject(c) ==
  CASE c.name = "decide"                -> {Entry("decision", c.num.int)}
    [] c.name \in {"block", "resolve"} -> {Entry("blocker", c.num.int)}
    [] c.name = "measure"               -> {Entry("metric", c.num.int)}
    [] OTHER                            -> {}

(* The STATE.md a command makes of the one it has read. *)
NewState(p) ==
  LET c == Cmd(p)  body == run[p].body  IN
  IF Pruning(p) THEN [body EXCEPT !.entries = @ \ Pruned(body, run[p].cutoff)]
  ELSE CASE c.name = "complete" -> StateAfterCompletion(body, c.num, run[p].num)
         [] c.name = "remove"   -> StateAfterRemoval(body)
         [] c.name = "begin"    -> BegunPhase(body, c.num, c.n)
         [] c.name = "advance"  -> AdvancedPlan(body)
         [] c.name \in {"decide", "block", "measure"} -> Listed(body, Subject(c))
         [] c.name = "resolve"  -> [body EXCEPT !.entries = @ \ Subject(c)]
         [] c.name = "session"  -> body
         [] c.name = "update"   -> UpdatedProgress(body, run[p].dirs, run[p].text)
         [] c.name = "planned"  -> PlannedPhase(body, c.n)
         [] c.name = "sync"     -> StateSynced(body, disk)
         [] c.name = "milestone" -> Set(body, "status", "Shipped")

(* planned-phase, sync and milestone complete work on what they have read  *)
(* and lock only for the write.                                            *)
LateLocking == {"planned", "sync", "milestone"}

DeriveState(p) ==
  /\ At(p, "derive state")
  /\ GoWith(p, "body", Synced(NewState(p), disk, roadmap))
  /\ UNCHANGED <<files, recorded, locks, history>>

WriteState(p) ==
  /\ At(p, "write state")
  /\ state' = IF Is(p, LateLocking) THEN run[p].body
              ELSE Synced(NewState(p), disk, roadmap)
  /\ GoWith(p, "cut", IF Pruning(p) THEN Pruned(run[p].body, run[p].cutoff) ELSE {})
  /\ recorded' = IF Is(p, {"resolve"}) THEN recorded \ Subject(Cmd(p))
                 ELSE recorded \cup (IF run[p].body.lists THEN Subject(Cmd(p)) ELSE {})
  /\ UNCHANGED <<disk, archive, roadmap, required, pruned, locks, history>>

WriteStateFails(p) ==
  /\ At(p, "write state")
  /\ Fault /\ Stop(p) /\ Unlinked(p, "state")
  /\ \/ UNCHANGED <<state, lost>>
     \/ state' = Emptied(state) /\ lost' = lost \cup state.entries
  /\ UNCHANGED <<disk, archive, roadmap, required, pruned, recorded, killed, together>>

(* What was pruned is appended to STATE-ARCHIVE.md after the unlock. *)
ReadArchive(p) ==
  /\ At(p, "read archive")
  /\ IF run[p].cut = {} THEN Stop(p) ELSE GoWith(p, "filed", pruned)
  /\ UNCHANGED <<files, recorded, locks, history>>

WriteArchive(p) ==
  /\ At(p, "write archive")
  /\ pruned' = run[p].filed \cup run[p].cut
  /\ Go(p)
  /\ UNCHANGED <<disk, archive, roadmap, state, required, recorded, locks, history>>

(* STATE.md is cut already. *)
WriteArchiveFails(p) ==
  /\ At(p, "write archive")
  /\ Fault /\ Stop(p)
  /\ \/ UNCHANGED pruned /\ lost' = lost \cup run[p].cut
     \/ pruned' = {} /\ lost' = lost \cup run[p].cut \cup pruned
  /\ UNCHANGED <<disk, archive, roadmap, state, required, recorded, locks, killed, usurped,
                 together>>

-----------------------------------------------------------------------------
PhaseStep(p) ==
  \/ FindPhaseDir(p) \/ DeleteDirectory(p) \/ ListDirectories(p) \/ RenameDirectory(p)
  \/ RenameFails(p) \/ MakeDirectory(p) \/ MakeDirectoryFails(p) \/ ClearDirectories(p)
  \/ ArchiveDirectories(p) \/ WriteSummary(p) \/ Manage(p)
  \/ ReadRoadmap(p) \/ WriteRoadmap(p) \/ WriteRoadmapFails(p)
  \/ ReadRequirements(p) \/ WriteRequirements(p) \/ WriteRequirementsFails(p)
  \/ Scan(p) \/ FindNext(p) \/ ReadState(p) \/ ReadCutoff(p) \/ DeriveState(p)
  \/ WriteState(p) \/ WriteStateFails(p) \/ ReadArchive(p) \/ WriteArchive(p)
  \/ WriteArchiveFails(p)

(* Safety: no update is lost: what a command has read under a lock is what *)
(* the file still says when it writes, unless that lock was usurped.       *)
NoUpdateIsLost ==
  \A p \in Procs :
    /\ At(p, "write roadmap") /\ "planning" \notin usurped => run[p].text = roadmap
    /\ At(p, "write state") /\ ~Is(p, LateLocking) /\ "state" \notin usurped =>
         run[p].body = state

(* Safety: an entry that was recorded, and not resolved, is in STATE.md, in *)
(* STATE-ARCHIVE.md or in the hands of the one call that prunes, where a   *)
(* kill leaves it, unless the lock was usurped or a command wrote what it  *)
(* read unlocked; lost are only the entries of a file that a failing write *)
(* has emptied, and what was cut from STATE.md and could not be archived.  *)
Pruners == {p \in Procs : Is(p, {"prune", "complete"}) /\ Cmd(p).n # 0}
EntriesAreKept ==
  /\ "state" \notin usurped
  /\ \A p \in Procs : ~Is(p, LateLocking)
  /\ \A p, q \in Pruners : p = q
  => recorded \subseteq state.entries \cup pruned \cup lost
                        \cup UNION {run[p].cut : p \in {q \in Procs : Running(q)} \cup killed}

(* Safety: between calls the three files tell one story: validate          *)
(* consistency has nothing to warn of, no two directories have one number, *)
(* and the current phase exists, if phases were only added, inserted,      *)
(* worked on and completed, undisturbed, and no write has failed.          *)
Renumbering == {"remove", "milestone", "clear"}
QuietPlanningIsConsistent ==
  /\ Quiet /\ usurped = {} /\ killed = {} /\ faults = 0
  /\ \A p \in Procs : ~Is(p, Renumbering)
  => /\ ConsistencyWarnings(disk, roadmap) = {}
     /\ \A d, e \in disk : d.num = e.num => d = e
     /\ state.phase \in {Absent} \cup {d.num : d \in disk}
                          \cup {s.num : s \in ToSet(Current(roadmap))}

(* Safety: the manager runs out of actions only when every phase is done,  *)
(* or one waits for a number that no heading has, or was left half         *)
(* executed, or another that waits so; renumbering aside.  Until every     *)
(* phase is done, roadmap analyze has a current or an upcoming one.        *)
NothingToDoMeansDone ==
  /\ \A p \in Procs : ~Is(p, Renumbering)
  /\ RecommendedActions(disk, roadmap, {}) = {}
  => \/ AllComplete(disk, roadmap)
     \/ Current(roadmap) = <<>>
     \/ /\ CurrentPhase(disk, roadmap) > 0 \/ UpcomingPhase(disk, roadmap) > 0
        /\ \E s \in {t \in ToSet(Current(roadmap)) : ~Parked(t)} :
             \/ PhaseStatus(disk, roadmap, s) = "partial"
             \/ \E dep \in s.deps : \A t \in ToSet(roadmap) : Spelling(t.num, t.pad) # dep

(* Action property: an executed plan is only lost to a forced removal, to  *)
(* phases clear, or to a removal that looked before it was executed.       *)
SummariesOf(dirs) == UNION {{<<d.slug, s>> : s \in d.sums} : d \in dirs}
ExecutedPlansAreKept ==
  [][LET gone == SummariesOf(disk \cup archive) \ SummariesOf(disk' \cup archive')
     IN  gone # {} =>
           \E p \in Procs :
             \/ At(p, "clear directories")
             \/ At(p, "delete directory") /\ (Cmd(p).n # 0 \/ ~Summed(run[p].dirs))]_files
================================================================================
