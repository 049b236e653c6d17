------------------------------- MODULE LineDiff -----------------------------
(***************************************************************************)
(* The line diff of repository/git.ts: the edit script of two texts        *)
(* (createDiffOperations), the hunks generateUnifiedDiff,                  *)
(* generateAddedDiff and generateDeletedDiff cut it into, and the readers  *)
(* of the diff: filterDiffToFiles, which keeps the files under review,     *)
(* parseDetailedDiff (review/evidence-validator.ts), which looks for the   *)
(* lines a finding may point at, and the two parseDiffRanges               *)
(* (intelligence/context/candidates.ts, review/heuristics.ts), which look  *)
(* for the symbols and the lines that changed.                             *)
(*                                                                         *)
(* A text is a sequence of lines and whether the last one is terminated;   *)
(* lines are uninterpreted, so none of them looks like a header of the     *)
(* diff, and the "No newline" markers are left out.                        *)
(***************************************************************************)
EXTENDS Integers, SequencesExt

CONSTANTS
    LcsLimit,   \* the largest product of lengths the LCS table is built for
    Around      \* lines of context before and after a change

ASSUME LineDiffAssumption == LcsLimit \in Nat /\ Around \in Nat

Text(lines, terminated) == [lines |-> lines, terminated |-> terminated]
EmptyText == Text(<<>>, FALSE)

Operation(kind, line, o, n) == [kind |-> kind, line |-> line, old |-> o, new |-> n]
OpKinds == {"context", "remove", "add"}

(* lcs[i][j]: the length of a longest common subsequence of the lines of   *)
(* `old` from i on and of those of `new` from j on.                        *)
LcsTable(old, new) ==
    LET lcs[i \in 1..(Len(old) + 1), j \in 1..(Len(new) + 1)] ==
            IF i > Len(old) \/ j > Len(new) THEN 0
            ELSE IF old[i] = new[j] THEN lcs[i + 1, j + 1] + 1
            ELSE Max({lcs[i + 1, j], lcs[i, j + 1]})
    IN lcs

(* The walk along the table, which removes before it adds.                 *)
LcsScript(old, new) ==
    LET lcs == LcsTable(old, new)
        Removes(i, j) == /\ i <= Len(old)
                         /\ j > Len(new) \/ lcs[i + 1, j] >= lcs[i, j + 1]
        walk[i \in 1..(Len(old) + 1), j \in 1..(Len(new) + 1)] ==
            IF i > Len(old) /\ j > Len(new) THEN <<>>
            ELSE IF i <= Len(old) /\ j <= Len(new) /\ old[i] = new[j]
                 THEN <<Operation("context", old[i], i, j)>> \o walk[i + 1, j + 1]
            ELSE IF Removes(i, j)
                 THEN <<Operation("remove", old[i], i, j)>> \o walk[i + 1, j]
            ELSE <<Operation("add", new[j], i, j)>> \o walk[i, j + 1]
    IN walk[1, 1]

(* The fallback for long texts: what lies between the common prefix and    *)
(* the common suffix is replaced as a whole.                               *)
PrefixSuffixScript(old, new) ==
    LET shorter == Min({Len(old), Len(new)})
        prefix == Max({k \in 0..shorter : \A x \in 1..k : old[x] = new[x]})
        suffix == Max({k \in 0..(shorter - prefix) :
                         \A x \in 0..(k - 1) : old[Len(old) - x] = new[Len(new) - x]})
        oldEnd == Len(old) - suffix
        newEnd == Len(new) - suffix
    IN [k \in 1..prefix |-> Operation("context", old[k], k, k)]
       \o [k \in 1..(oldEnd - prefix) |->
             Operation("remove", old[prefix + k], prefix + k, prefix + 1)]
       \o [k \in 1..(newEnd - prefix) |->
             Operation("add", new[prefix + k], oldEnd + 1, prefix + k)]
       \o [k \in 1..suffix |->
             Operation("context", old[oldEnd + k], oldEnd + k, newEnd + k)]

DiffOperations(old, new) ==
    IF Len(old) * Len(new) <= LcsLimit THEN LcsScript(old, new)
    ELSE PrefixSuffixScript(old, new)

(* A change of nothing but the final newline is written as a removal and   *)
(* an addition of the last line.                                           *)
WithFinalNewline(script, from, to) ==
    LET last == script[Len(script)]
    IN IF /\ from.terminated # to.terminated
          /\ from.lines # <<>> /\ to.lines # <<>>
          /\ from.lines[Len(from.lines)] = to.lines[Len(to.lines)]
          /\ last.kind = "context"
       THEN SubSeq(script, 1, Len(script) - 1)
            \o <<[last EXCEPT !.kind = "remove"], [last EXCEPT !.kind = "add"]>>
       ELSE script
--------------------------------------------------------------------------
HeaderOfOldSide(ops) ==
    LET oldCount == Cardinality({k \in DOMAIN ops : ops[k].kind # "add"})
        newCount == Cardinality({k \in DOMAIN ops : ops[k].kind # "remove"})
        Start(count, first) == IF count = 0 THEN Max({0, first - 1}) ELSE first
    IN [ops |-> ops,
        oldStart |-> Start(oldCount, ops[1].old), oldCount |-> oldCount,
        newStart |-> Start(newCount, ops[1].old), newCount |-> newCount]
Header(ops) ==
    LET oldCount == Cardinality({k \in DOMAIN ops : ops[k].kind # "add"})
        newCount == Cardinality({k \in DOMAIN ops : ops[k].kind # "remove"})
        Start(count, first) == IF count = 0 THEN Max({0, first - 1}) ELSE first
    IN [ops |-> ops,
        oldStart |-> Start(oldCount, ops[1].old), oldCount |-> oldCount,
        newStart |-> Start(newCount, ops[1].new), newCount |-> newCount]

(* The operations within Around of a change; changes whose surroundings    *)
(* touch share a hunk.                                                     *)
Kept(script) ==
    {k \in DOMAIN script : \E c \in (k - Around)..(k + Around) :
        c \in DOMAIN script /\ script[c].kind # "context"}

Hunks(script) ==
    LET kept == Kept(script)
        starts == {k \in kept : k - 1 \notin kept}
        End(k) == Min({e \in kept : e >= k /\ e + 1 \notin kept})
        Nth(n) == CHOOSE k \in starts : Cardinality({s \in starts : s <= k}) = n
    IN [n \in 1..Cardinality(starts) |-> Header(SubSeq(script, Nth(n), End(Nth(n))))]

UnifiedDiff(from, to) ==
    Hunks(WithFinalNewline(DiffOperations(from.lines, to.lines), from, to))

(* An added or a deleted file is one hunk, an empty one if it is empty.    *)
WholeFile(lines, kind) ==
    LET ops == [k \in DOMAIN lines |-> Operation(kind, lines[k],
                    IF kind = "add" THEN 1 ELSE k, IF kind = "add" THEN k ELSE 1)]
        start == IF lines = <<>> THEN 0 ELSE 1
    IN << IF kind = "add"
          THEN [ops |-> ops, oldStart |-> 0, oldCount |-> 0,
                newStart |-> start, newCount |-> Len(lines)]
          ELSE [ops |-> ops, oldStart |-> start, oldCount |-> Len(lines),
                newStart |-> 0, newCount |-> 0] >>

AddedDiff(text) == WholeFile(text.lines, "add")
DeletedDiff(text) == WholeFile(text.lines, "remove")
--------------------------------------------------------------------------
(* Reading a diff back.  Its text is a sequence of sections; one that is    *)
(* "added", "modified" or "deleted" has the two header lines and hunks, a  *)
(* "binary" one a single comment line no reader looks at.  Every reader    *)
(* goes on with the file it was at until a header names another one.       *)
FilterDiffToFiles(sections, paths) == SelectSeq(sections, LAMBDA s : s.file \in paths)

Put(map, key, value) == [k \in DOMAIN map \cup {key} |-> IF k = key THEN value ELSE map[k]]

(* Where the two cursors are when they meet a line of the given kind.      *)
LinesAt(hunks, kind, start(_), other) ==
    UNION { { start(hunks[x]) + Cardinality({c \in 1..(k - 1) : hunks[x].ops[c].kind # other}) :
                k \in {o \in DOMAIN hunks[x].ops : hunks[x].ops[o].kind = kind} } :
            x \in DOMAIN hunks }
AddedLines(hunks) == LinesAt(hunks, "add", LAMBDA h : h.newStart, "remove")
DeletedLines(hunks) == LinesAt(hunks, "remove", LAMBDA h : h.oldStart, "add")

(* The evidence validator: the lines of a file that were added, and the    *)
(* files that are gone.  A deleted file does not become the current one:   *)
(* what its hunk removes is put down to the file before it.  (The status   *)
(* and the old path it keeps as well are read by nobody.)                  *)
Unread == [added |-> {}, deleted |-> {}]
ReadHeaders(info, s) ==
    IF s.kind = "deleted"
    THEN [info EXCEPT !.deletedFiles = @ \cup {s.file}, !.files = Put(@, s.file, Unread)]
    ELSE [info EXCEPT !.changedFiles = @ \cup {s.file}, !.files = Put(@, s.file, Unread),
                      !.current = <<s.file>>]
ReadHunks(info, s) ==
    IF info.current = <<>> THEN info
    ELSE [info EXCEPT !.files[info.current[1]] =
             [added |-> @.added \cup AddedLines(s.hunks),
              deleted |-> @.deleted \cup DeletedLines(s.hunks)]]
ParseDetailedDiff(sections, defaultChangedFiles) ==
    FoldLeft(LAMBDA info, s : IF s.kind = "binary" THEN info ELSE ReadHunks(ReadHeaders(info, s), s),
             [files |-> [f \in defaultChangedFiles |-> Unread], changedFiles |-> defaultChangedFiles,
              deletedFiles |-> {}, current |-> <<>>],
             sections)

(* The new side of every header, as lines.                                 *)
RangesOf(hunks) ==
    { hunks[x].newStart..(hunks[x].newStart + Max({1, hunks[x].newCount}) - 1) : x \in DOMAIN hunks }
AddRanges(map, file, hunks) ==
    Put(map, file, RangesOf(hunks) \cup (IF file \in DOMAIN map THEN map[file] ELSE {}))

(* The context engine does not see that a file was deleted: the range of   *)
(* its hunk, which is line 0, goes to the file before it.                  *)
ContextRanges(sections) ==
    LET Read(acc, s) ==
          LET current == IF s.kind \in {"added", "modified"} THEN <<s.file>> ELSE acc.current
          IN IF s.kind = "binary" \/ current = <<>> THEN acc
             ELSE [current |-> current, ranges |-> AddRanges(acc.ranges, current[1], s.hunks)]
    IN FoldLeft(Read, [current |-> <<>>, ranges |-> <<>>], sections).ranges

(* The heuristics of the reviewers and of the critic do.                   *)
HeuristicRanges(sections) ==
    FoldLeft(LAMBDA ranges, s : IF s.kind \in {"added", "modified"} THEN AddRanges(ranges, s.file, s.hunks)
                                ELSE ranges,
             <<>>, sections)

(* Whoever applies the hunks to `lines`, from the last to the first.       *)
Patched(lines, hunks) ==
    LET NewSide(h) == LET side == SelectSeq(h.ops, LAMBDA op : op.kind # "remove")
                      IN [k \in DOMAIN side |-> side[k].line]
        from[x \in 0..Len(hunks)] ==
            IF x = 0 THEN lines
            ELSE LET h == hunks[Len(hunks) - x + 1]
                     before == IF h.oldCount = 0 THEN h.oldStart ELSE h.oldStart - 1
                 IN SubSeq(from[x - 1], 1, before) \o NewSide(h)
                    \o SubSeq(from[x - 1], before + h.oldCount + 1, Len(from[x - 1]))
    IN from[Len(hunks)]
=============================================================================
