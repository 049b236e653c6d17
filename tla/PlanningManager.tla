---------------------------- MODULE PlanningManager ----------------------------
(***************************************************************************)
(* What gsd-tools makes of the phases for the agents that ask it what to   *)
(* do: the status of each phase, the current and the next one (roadmap     *)
(* analyze), and the actions the manager recommends (init manager).        *)
(* Mutants stand above what they mutate.                                   *)
(***************************************************************************)
EXTENDS PlanningFiles

DiskStatus(d) ==
  IF Complete(d) THEN "complete"
  ELSE IF d.sums # {} THEN "partial"
  ELSE IF d.plans # {} THEN "planned"
  ELSE IF d.notes = "research" THEN "researched"
  ELSE IF d.notes = "context" THEN "discussed"
  ELSE "empty"

\* A ticked checkbox is trusted over the directory.
PhaseStatus(disk, roadmap, s) ==
  LET dirs == {d \in disk : InMilestone(roadmap, d) /\ TokenMatches(d, s.num)}
  IN  IF s.box = "done" THEN "complete"
      ELSE IF dirs = {} THEN "no_directory"
      ELSE DiskStatus(CHOOSE d \in dirs : TRUE)

Parked(s) == s.num.int = Backlog

\* roadmap analyze: the first phase being worked on, and the first after.
CurrentPhase(disk, roadmap) ==
  FirstIndex(Current(roadmap),
             LAMBDA s : PhaseStatus(disk, roadmap, s) \in {"planned", "partial"})
UpcomingPhase(disk, roadmap) ==
  FirstIndex(Current(roadmap),
             LAMBDA s : PhaseStatus(disk, roadmap, s) \in
                          {"empty", "no_directory", "discussed", "researched"})

\* Dependencies are compared as they are spelled; the ticked phases of
\* shipped milestones count as complete.
CompletedNumsOfMilestone(disk, roadmap) ==
  {Spelling(s.num, s.pad) :
     s \in {t \in ToSet(Current(roadmap)) : PhaseStatus(disk, roadmap, t) = "complete"}}
CompletedNums(disk, roadmap) ==
  {Spelling(s.num, s.pad) :
     s \in {t \in ToSet(roadmap) :
              \/ ~t.shipped /\ PhaseStatus(disk, roadmap, t) = "complete"
              \/ t.box = "done"}}

DepsSatisfied(disk, roadmap, s) == s.deps \subseteq CompletedNums(disk, roadmap)

\* The phases a phase depends on, directly or through other phases.
Needs(roadmap, spelling) ==
  LET told == ToSet(Current(roadmap))
      Deps(S) == UNION {s.deps : s \in {t \in told : Spelling(t.num, t.pad) \in S}}
      after[n \in 0 .. Cardinality(told)] ==
        IF n = 0 THEN Deps({spelling}) ELSE after[n - 1] \cup Deps(after[n - 1])
  IN  after[Cardinality(told)]

HasDepRelationship(roadmap, a, b) ==
  LET x == Spelling(a.num, a.pad)  y == Spelling(b.num, b.pad)
  IN  y \in Needs(roadmap, x) \/ x \in Needs(roadmap, y)

\* What may be done next for a phase, or Nothing.
ActionFor(disk, roadmap, s) ==
  LET status == PhaseStatus(disk, roadmap, s)
      free   == DepsSatisfied(disk, roadmap, s)
  IN  CASE Parked(s)                                         -> Nothing
        [] ~Parked(s) /\ status = "planned" /\ free          -> "execute"
        [] ~Parked(s) /\ status \in {"discussed", "researched"} -> "plan"
        [] ~Parked(s) /\ status \in {"empty", "no_directory"} /\ free -> "discuss"
        [] OTHER                                             -> Nothing

\* Executing beside a phase that is being executed, or planning beside one
\* that is being planned, is left to phases that do not depend on each other.
RecommendedActions(disk, roadmap, active) ==
  LET told == ToSet(Current(roadmap))
      Busy(s, act) ==
        LET status == PhaseStatus(disk, roadmap, s) IN
        CASE act = "execute" -> status = "partial" \/ (status = "planned" /\ s.num \in active)
          [] act = "plan"    -> status \in {"discussed", "researched"} /\ s.num \in active
          [] OTHER           -> FALSE
      Apart(s, act) == \A t \in told : Busy(t, act) => ~HasDepRelationship(roadmap, s, t)
  IN  {[phase |-> s.num, action |-> ActionFor(disk, roadmap, s)] :
         s \in {t \in told : /\ ActionFor(disk, roadmap, t) # Nothing
                             /\ Apart(t, ActionFor(disk, roadmap, t))}}

AllComplete(disk, roadmap) ==
  LET told == {s \in ToSet(Current(roadmap)) : ~Parked(s)}
  IN  told # {} /\ \A s \in told : PhaseStatus(disk, roadmap, s) = "complete"
================================================================================
