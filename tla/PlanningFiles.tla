----------------------------- MODULE PlanningFiles -----------------------------
(***************************************************************************)
(* The files of a .planning/ directory as gsd-tools reads and writes them: *)
(* the phase directories, ROADMAP.md and STATE.md, and what each command   *)
(* makes of them (.opencode/get-shit-done/bin/lib: core.cjs, phase.cjs,    *)
(* roadmap.cjs, state.cjs, milestone.cjs, verify.cjs).                     *)
(*                                                                         *)
(* A phase number is an integer and, for a phase inserted later, a decimal *)
(* (dec = 0: none).  Directories write it padded ("06.1-x"); in ROADMAP.md *)
(* and on the command line it may be padded or not, and most lookups in    *)
(* the text want the very spelling, so a heading records it.  Letters,     *)
(* deeper decimals and custom identifiers are left out, and so is the      *)
(* markup between sections.  Mutants stand above what they mutate.         *)
(*                                                                         *)
(*   directory  [num, slug, plans, sums, notes]: its PLAN and SUMMARY      *)
(*              files, and whether it has a CONTEXT or a RESEARCH file     *)
(*   section    [num, pad, shipped, box, row, told, waves, deps]: a        *)
(*              heading, whether it stands in a <details> block, its       *)
(*              checkbox, its row of the progress table, its **Plans:**    *)
(*              line, whether its plans are grouped by waves, and the      *)
(*              phases it depends on as they are spelled there             *)
(***************************************************************************)
EXTENDS PlanningValues, Integers, Sequences, FiniteSets, SequencesExt

Backlog == 999          \* the number of the parked ideas

Num(i, d) == [int |-> i, dec |-> d]

Percent(part, whole) ==
  IF whole = 0 THEN 0 ELSE (200 * part + whole) \div (2 * whole)

Plans(d) == Cardinality(d.plans)
Sums(d)  == Cardinality(d.sums)
Total(disk, Of(_)) == FoldSet(LAMBDA d, n : n + Of(d), 0, disk)
Greatest(S) == CHOOSE n \in S : \A m \in S : m <= n

(***************************************************************************)
(* Looking phases up.                                                      *)
(***************************************************************************)
Precedes(a, b) == a.int < b.int \/ (a.int = b.int /\ a.dec < b.dec)

\* The directory's token is compared in its normal, padded form.
TokenMatches(d, num) == d.num = num

\* ROADMAP.md outside <details>: what extractCurrentMilestone leaves.
Current(roadmap) == SelectSeq(roadmap, LAMBDA s : ~s.shipped)

\* Without a heading to go by, every directory counts.
InMilestone(roadmap, d) ==
  LET nums == {s.num : s \in ToSet(Current(roadmap))}
  IN  nums = {} \/ d.num \in nums

\* findPhaseInternal: the current directories first, then the archived ones.
FindPhase(disk, archive, num) ==
  LET here == {d \in disk : TokenMatches(d, num)}
  IN  IF here # {} THEN here ELSE {d \in archive : TokenMatches(d, num)}

Spelled(s, arg) == s.num = arg.num /\ s.pad = arg.pad

\* The pattern of the **Plans:** line puts nothing after the number.
SpelledLike(s, arg) ==
  /\ s.pad = arg.pad
  /\ s.num.int = arg.num.int
  /\ arg.num.dec \in {0, s.num.dec}

FirstIndex(roadmap, Test(_)) ==
  LET hits == {i \in DOMAIN roadmap : Test(roadmap[i])}
  IN  IF hits = {} THEN 0 ELSE CHOOSE i \in hits : \A j \in hits : i <= j

ChangeFirst(roadmap, Test(_), Change(_)) ==
  LET i == FirstIndex(roadmap, Test)
  IN  IF i = 0 THEN roadmap ELSE [roadmap EXCEPT ![i] = Change(@)]

(***************************************************************************)
(* phase add, add-batch and insert.                                        *)
(***************************************************************************)
Spelling(num, pad) == [num |-> num, pad |-> pad]

NewSection(num, pad, shipped, deps) ==
  [num |-> num, pad |-> pad, shipped |-> shipped, box |-> Nothing,
   row |-> Nothing, told |-> <<0, 0>>, waves |-> FALSE, deps |-> deps]

\* phase add lets a phase depend on the number before, whether it exists or not.
AddedSection(n) == NewSection(Num(n, 0), FALSE, FALSE, {Spelling(Num(n - 1, 0), FALSE)})

NewDirectory(num, slug) ==
  [num |-> num, slug |-> slug, plans |-> {}, sums |-> {}, notes |-> Nothing]

\* The number phase add takes: one more than every heading of the current
\* milestone and every directory without a decimal, the backlog aside.
NextIntegerOfAll(disk, roadmap) ==
  1 + Greatest({0} \cup {t.num.int : t \in ToSet(Current(roadmap)) \cup disk})
NextInteger(disk, roadmap) ==
  LET told   == {s.num.int : s \in ToSet(Current(roadmap))}
      orphan == {d.num.int : d \in {e \in disk : e.num.dec = 0}}
  IN  1 + Greatest({0} \cup {n \in told \cup orphan : n < Backlog})

\* The decimal phase insert takes after an integer phase: the headings are
\* searched for the padded spelling only.
NextDecimal(disk, roadmap, base) ==
  LET taken == {d.num.dec : d \in {e \in disk : e.num.int = base}}
                 \cup {s.num.dec : s \in {t \in ToSet(roadmap) :
                                           t.num.int = base /\ t.pad}}
  IN  1 + Greatest({0} \cup taken)

CanInsertAfter(roadmap, base) ==
  \E s \in ToSet(Current(roadmap)) : s.num = Num(base, 0)

\* The new section goes behind the first heading of that number, shipped or
\* not, and so into the <details> block of the section that follows it.
RoadmapAfterInsert(roadmap, arg, num) ==
  LET at == FirstIndex(roadmap, LAMBDA s : s.num = Num(arg.num.int, 0))
      shipped == at < Len(roadmap) /\ roadmap[at + 1].shipped
  IN  InsertAt(roadmap, at + 1,
               NewSection(num, TRUE, shipped, {Spelling(arg.num, arg.pad)}))

(***************************************************************************)
(* phase remove.                                                           *)
(***************************************************************************)
\* The directories behind a removed one, and the number each is to take.
DecimalsBehind(disk, num) == {d \in disk : d.num.int = num.int /\ d.num.dec > num.dec}
IntegersBehind(disk, num) == {d \in disk : d.num.int > num.int}

RenameDecimalPhases(d) == Num(d.num.int, d.num.dec - 1)
RenameIntegerPhases(d) == Num(d.num.int - 1, d.num.dec)

\* The section whose heading is spelled like the argument goes, with every
\* checkbox and row spelled so.  Then the numbers 99 down to the removed one
\* are each replaced by the number before, in one text: what became 6 at 7
\* becomes 5 at 6, so every later unpadded integer ends as the removed one.
RoadmapAfterRemoval(roadmap, arg) ==
  LET at   == FirstIndex(roadmap, LAMBDA s : Spelled(s, arg))
      cut  == IF at = 0 THEN roadmap ELSE RemoveAt(roadmap, at)
      bare == [i \in DOMAIN cut |->
                 IF Spelled(cut[i], arg)
                   THEN [cut[i] EXCEPT !.box = Nothing, !.row = Nothing]
                   ELSE cut[i]]
      later == arg.num.int + 1 .. 99
      Falls(s) == ~s.pad /\ s.num.dec = 0 /\ s.num.int \in later
      Fallen(r) == [r EXCEPT !.num.int = arg.num.int]
      deps(s) == {IF ~r.pad /\ r.num.int \in later THEN Fallen(r) ELSE r : r \in s.deps}
  IN  IF arg.num.dec > 0
        THEN bare
        ELSE [i \in DOMAIN bare |->
                [(IF Falls(bare[i]) THEN Fallen(bare[i]) ELSE bare[i])
                   EXCEPT !.deps = deps(bare[i])]]

(***************************************************************************)
(* phase complete and roadmap update-plan-progress.                        *)
(***************************************************************************)
Complete(d) == Plans(d) > 0 /\ Sums(d) >= Plans(d)

MarkBox(roadmap, arg) ==
  ChangeFirst(roadmap, LAMBDA s : Spelled(s, arg) /\ s.box = "open",
                       LAMBDA s : [s EXCEPT !.box = "done"])

MarkRow(roadmap, arg, status) ==
  ChangeFirst(roadmap, LAMBDA s : Spelled(s, arg) /\ s.row # Nothing,
                       LAMBDA s : [s EXCEPT !.row = status])

TellPlans(roadmap, arg, d) ==
  ChangeFirst(roadmap, LAMBDA s : SpelledLike(s, arg),
                       LAMBDA s : [s EXCEPT !.told = <<Sums(d), Plans(d)>>])

RoadmapAfterCompletion(roadmap, arg, d) ==
  TellPlans(MarkRow(MarkBox(roadmap, arg), arg, "Complete"), arg, d)

\* The writers of update-plan-progress stay behind the last </details>.
InCurrent(roadmap, Change(_)) ==
  SelectSeq(roadmap, LAMBDA s : s.shipped) \o Change(Current(roadmap))

ProgressStatus(d) ==
  IF Complete(d) THEN "Complete" ELSE IF d.sums # {} THEN "In Progress" ELSE "Planned"

RoadmapAfterProgress(roadmap, arg, d) ==
  LET rows == MarkRow(roadmap, arg, ProgressStatus(d))
      told == InCurrent(rows, LAMBDA r : TellPlans(r, arg, d))
  IN  IF Complete(d) THEN InCurrent(told, LAMBDA r : MarkBox(r, arg)) ELSE told

\* annotate-dependencies groups the plans of a phase by their waves, once: a
\* single plan has nothing to wait for.
RoadmapAfterAnnotation(roadmap, arg, d) ==
  ChangeFirst(roadmap, LAMBDA s : Spelled(s, arg),
                       LAMBDA s : [s EXCEPT !.waves = @ \/ Plans(d) > 1])

\* The phase after a completed one: a directory of the milestone that is no
\* parked idea, or else the first later heading.
NextPhase(disk, roadmap, num) ==
  LET dirs  == {d.num : d \in {e \in disk : /\ InMilestone(roadmap, e)
                                             /\ e.num.int # Backlog
                                             /\ Precedes(num, e.num)}}
      told  == Current(roadmap)
      later == FirstIndex(told, LAMBDA s : Precedes(num, s.num))
  IN  IF dirs # {} THEN CHOOSE n \in dirs : \A m \in dirs : ~Precedes(m, n)
      ELSE IF later > 0 THEN told[later].num
      ELSE Nothing

(***************************************************************************)
(* validate consistency: the warnings about ROADMAP.md and phases/.        *)
(***************************************************************************)
ConsistencyWarnings(disk, roadmap) ==
  LET told  == ToSet(Current(roadmap))
      ints  == {d.num.int : d \in {e \in disk : e.num.dec = 0}}
      \* A directory is looked up as it is written, or by its bare integer.
      Known(d) == \E s \in told : \/ s.num = d.num /\ (s.pad \/ d.num.int > 9)
                                  \/ s.num = Num(d.num.int, 0) /\ ~s.pad
  IN  {<<"no directory", s.num>> : s \in {t \in told : ~ \E d \in disk : d.num = t.num}}
        \cup {<<"not in the roadmap", d.num>> : d \in {e \in disk : ~Known(e)}}
        \cup {<<"gap", n>> : n \in {m \in ints : /\ \E k \in ints : k > m
                                                 /\ m + 1 \notin ints}}

(***************************************************************************)
(* STATE.md.  The body keeps the current phase and plan, the plans of the  *)
(* phase, the status, the phases completed and their total, the progress   *)
(* and the entries of its lists, each about a phase: decisions, blockers,  *)
(* the metrics of a plan and of a phase.  fm is the frontmatter that every *)
(* write derives anew.  A field the body lacks is never added, nor is an   *)
(* entry if it has no lists.                                               *)
(***************************************************************************)
Entry(kind, n) == [kind |-> kind, n |-> n]

Set(st, field, value) ==
  IF st[field] = Absent THEN st ELSE [st EXCEPT ![field] = value]

Listed(st, new) == IF st.lists THEN [st EXCEPT !.entries = @ \cup new] ELSE st

\* A write that failed has emptied the file.
Emptied(st) ==
  [f \in DOMAIN st |-> CASE f = "entries" -> {}
                         [] f = "lists"   -> FALSE
                         [] f = "fm"      -> [status |-> "unknown"]
                         [] OTHER         -> Absent]

NotStarted == 0         \* "Not started", which no command can count on from

NormalizedStatus(status) ==
  CASE status \in {"Executing", "Ready to execute"} -> "executing"
    [] status = "Ready to plan"                     -> "planning"
    [] status = "Phase complete"                    -> "verifying"
    [] status \in {"Milestone complete", "Shipped"} -> "completed"
    [] OTHER                                        -> "unknown"

\* syncStateFrontmatter: counts come from the directories of the milestone;
\* a status the body does not tell stays as it was.
Synced(st, disk, roadmap) ==
  LET mine   == {d \in disk : InMilestone(roadmap, d)}
      plans  == Total(mine, Plans)
      sums   == Total(mine, Sums)
      status == NormalizedStatus(st.status)
      told   == Cardinality({s.num : s \in ToSet(Current(roadmap))})
      all    == IF told > Cardinality(mine) THEN told ELSE Cardinality(mine)
      pct    == Percent(sums, plans)
  IN  [st EXCEPT !.fm =
         [phases    |-> all,
          completed |-> Cardinality({d \in mine : Complete(d)}),
          percent   |-> IF plans = 0 THEN st.pct ELSE IF pct > 100 THEN 100 ELSE pct,
          status    |-> IF status = "unknown" THEN st.fm.status ELSE status]]

\* begin-phase
BegunPhase(st, num, count) ==
  LET begun == Set(Set(Set(st, "status", "Executing"), "phase", num), "plan", 1)
  IN  IF count = 0 THEN begun ELSE Set(begun, "total", count)

\* planned-phase
PlannedPhase(st, count) == Set(Set(st, "status", "Ready to execute"), "total", count)

\* advance-plan
AdvancedPlan(st) ==
  IF st.plan \in {Absent, NotStarted} \/ st.total = Absent THEN st
  ELSE IF st.plan >= st.total THEN Set(st, "status", "Phase complete")
  ELSE Set(Set(st, "plan", st.plan + 1), "status", "Ready to execute")

\* update-progress counts the directories of the milestone.
UpdatedProgress(st, disk, roadmap) ==
  LET mine == {d \in disk : InMilestone(roadmap, d)}
      pct  == Percent(Total(mine, Sums), Total(mine, Plans))
  IN  Set(st, "pct", IF pct > 100 THEN 100 ELSE pct)

\* state sync counts every directory, and takes the plans of the last phase
\* that is not complete, or of the first one when all are.
StateSynced(st, disk) ==
  LET planned == {d \in disk : d.plans # {}}
      open    == {d \in planned : Sums(d) < Plans(d)}
      tracked == IF open # {}
                   THEN {d \in open : \A e \in open : ~Precedes(d.num, e.num)}
                   ELSE {d \in planned : \A e \in planned : ~Precedes(e.num, d.num)}
      pct     == Percent(Total(disk, Sums), Total(disk, Plans))
      counted == IF tracked = {} THEN st
                 ELSE Set(st, "total", Plans(CHOOSE d \in tracked : TRUE))
  IN  Set(counted, "pct", IF pct > 100 THEN 100 ELSE pct)

\* What phase complete makes of STATE.md, next being the phase after it.
StateAfterCompletion(st, num, next) ==
  LET listed == Listed(st, {Entry("phase", num.int)})
      moved == Set(Set(Set(listed, "phase", IF next = Nothing THEN num ELSE next),
                       "status", IF next = Nothing THEN "Milestone complete"
                                                   ELSE "Ready to plan"),
                   "plan", NotStarted)
      done  == st.done + 1
  IN  IF st.done = Absent THEN moved
      ELSE IF st.phases \in {Absent, 0} THEN Set(moved, "done", done)
      ELSE Set(Set(moved, "done", done), "pct", Percent(done, st.phases))

StateAfterRemoval(st) ==
  IF st.phases = Absent THEN st ELSE Set(st, "phases", st.phases - 1)

\* state prune --keep-recent: the decisions and the rows of phases up to the
\* cutoff go.  A plan's metrics begin with a word, and a blocker has to be
\* marked as resolved, which no command does.
Cutoff(st, keep) == (IF st.phase = Absent THEN 0 ELSE st.phase.int) - keep

Pruned(st, cutoff) ==
  {e \in st.entries : e.kind \in {"decision", "phase"} /\ e.n <= cutoff}
================================================================================
