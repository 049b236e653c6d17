----------------------------- MODULE ReviewScope ----------------------------
(***************************************************************************)
(* What a review is about: resolveScope (repository/scope.ts) reads the    *)
(* diff and then, again from the repository, the list of changed files     *)
(* (repository/git.ts); ReviewUseCase.execute (application/review.ts)      *)
(* leaves out what is ignored, binary or generated, and reads the content  *)
(* of the rest.  Meanwhile the user goes on editing, staging and           *)
(* committing: every action of the review is what happens between two      *)
(* awaits, and reads whatever is there by then.                            *)
(*                                                                         *)
(* A tree maps files to blobs.  Blobs are immutable, so a blob is read     *)
(* together with its object id; only the files of the working tree are     *)
(* read one by one.  File modes, renames (which git.ts does not detect)    *)
(* and untracked files that Git ignores are left out, and files that are   *)
(* excluded by their name count as ignored.  Commits have one parent at    *)
(* most, so the second parent of a merge cannot be named.                  *)
(***************************************************************************)
EXTENDS LineDiff

CONSTANTS
    NumFiles,       \* files, in the order of their paths
    Contents,       \* for each file, the blobs it may hold or be absent as
    GeneratedLine,  \* a line that marks generated code
    CriticalFiles,  \* files in .git, node_modules, vendor, dist or build
    RuleSets,       \* what the ignore files and the configuration may say
    Reviews,        \* calls of the command, each with a history to review
    MaxChanges      \* bound: what the user does during one review

Files == 1..NumFiles
Absent == [blob |-> "none"]
Binary == [blob |-> "binary"]
Layers == {"gitignore", "octateignore", "config"}
Verdicts == {"silent", "ignore", "keep"}

ASSUME ScopeAssumption ==
    /\ NumFiles \in Nat /\ MaxChanges \in Nat
    /\ CriticalFiles \subseteq Files
    /\ RuleSets \subseteq [Layers -> [Files -> Verdicts]]

Historical == {"commit", "range", "branch"}
Types == {"staged", "working-tree"} \cup Historical

VARIABLES
    options,    \* ScopeOptions
    commits,    \* the commits, each after its parent
    refs,       \* the commit of each branch
    attached,   \* the branch that HEAD is attached to
    index, work,    \* the trees of the index and the disk
    changes,    \* what the user did so far
    disturbed,  \* whether that touched what the scope is made from
    pc,         \* the await the review is in
    seen,       \* the trees and the status matrix read in the current pass
    todo,       \* files the current pass still has to read
    diff,       \* scope.diff: the section of each file that has one
    files,      \* scope.files: the paths
    ignored,    \* the files the ignore patterns exclude
    contents,   \* snapshotContents, null as Absent
    outcome     \* "none", "empty" (createEmptyReviewResult) or "review"

repository == <<commits, refs, attached, index, work>>
user == <<repository, changes, disturbed>>
read == <<diff, files, ignored, contents, outcome>>
vars == <<options, user, pc, seen, todo, read>>

Tree == {t \in [Files -> UNION {Contents[f] : f \in Files}] :
            \A f \in Files : t[f] \in Contents[f]}
IsText(blob) == blob \notin {Absent, Binary}
--------------------------------------------------------------------------
(* What the command line asks for.  A reference is HEAD, a branch or the   *)
(* id of a commit, and how often ~1 follows; words name one reference or  *)
(* two with two or three dots between them.                                *)
Reference(name, oid, up) == [name |-> name, oid |-> oid, up |-> up]
Name(name) == Reference(name, 0, 0)
Words(base, dots, head) == [base |-> base, dots |-> dots, head |-> head]
NoWords == Words(Name("none"), 0, Name("none"))
One(ref) == Words(Name("none"), 0, ref)

Scope(kind, base, head, isThreeDot) ==
    [type |-> kind, base |-> base, head |-> head, isThreeDot |-> isThreeDot]
ParseRange(words) == Scope("range", words.base, words.head, words.dots = 3)

(* An option decides the scope; without one, what the reference looks like.*)
GetScopeOptions(option, words) ==
    CASE option = "staged" -> Scope("staged", Name("none"), Name("none"), FALSE)
      [] option = "range" \/ (option = "none" /\ words.dots > 0) -> ParseRange(words)
      [] option = "branch" -> Scope("branch", Name("none"), words.head, FALSE)
      [] option = "commit" \/ (option = "none" /\ words # NoWords /\ words.dots = 0) ->
             Scope("commit", Name("none"), words.head, FALSE)
      [] OTHER -> Scope("working-tree", Name("none"), Name("none"), FALSE)
type == options.type

(* resolveRef throws if there is no such commit.                           *)
NoCommit == 0
Parent(c) == IF c = NoCommit THEN NoCommit ELSE commits[c].parent
Resolve(ref) ==
    LET start == CASE ref.name = "oid" -> ref.oid
                   [] ref.name = "HEAD" -> refs[attached]
                   [] OTHER -> refs[ref.name]
        ancestor[n \in 0..ref.up] == IF n = 0 THEN start ELSE Parent(ancestor[n - 1])
    IN ancestor[ref.up]

(* The tree of a commit; a commit without a parent is compared with the    *)
(* empty one.                                                              *)
TreeOf(c) == IF c = NoCommit THEN [f \in Files |-> Absent] ELSE commits[c].tree
HeadCommit == refs[attached]

(* git.findMergeBase: the youngest common ancestor.                        *)
MergeBase(c, d) ==
    LET ancestors[e \in 0..Len(commits)] ==
            IF e = NoCommit THEN {NoCommit} ELSE {e} \cup ancestors[Parent(e)]
    IN Max(ancestors[c] \cap ancestors[d])

Pass == {"diff", "files"}
PassStart == CASE type = "staged" -> "diff head"
               [] type = "working-tree" -> "diff status"
               [] type = "commit" -> "base"
               [] type = "range" -> IF options.isThreeDot THEN "merge base" ELSE "diff base"
               [] type = "branch" -> "branch"

(* A history says how its commits hang together.  The trees are any, but   *)
(* what the scope does not read starts out like what is beside it, a third *)
(* commit is like the first one, and under a historical scope the index    *)
(* may be ready to undo what was committed.                                *)
InitHistory(history, trees) ==
    /\ commits = [c \in DOMAIN history.parents |->
                     [parent |-> history.parents[c], tree |-> trees[IF c = 3 THEN 1 ELSE c]]]
    /\ refs = history.refs /\ attached = history.attached

Init ==
    /\ \E review \in Reviews :
          /\ options = GetScopeOptions(review.option, review.words)
          /\ \E trees \in [1..Min({2, Len(review.history.parents)}) -> Tree] :
                InitHistory(review.history, trees)
    /\ index \in IF type = "staged" THEN Tree
                 ELSE IF type = "working-tree" THEN {TreeOf(HeadCommit)}
                 ELSE {TreeOf(HeadCommit), TreeOf(1)}
    /\ work \in IF type = "working-tree" THEN Tree ELSE {index}
    /\ changes = 0 /\ disturbed = FALSE
    /\ pc = PassStart
    /\ seen = [base |-> NoCommit, one |-> NoCommit, head |-> TreeOf(HeadCommit),
               index |-> index, status |-> <<>>]
    /\ todo = {} /\ diff = <<>> /\ files = {} /\ ignored = {} /\ contents = <<>>
    /\ outcome = "none"
--------------------------------------------------------------------------
(* The user, who does not wait for the review.                             *)
Change(touches) ==
    /\ pc # "done" /\ changes < MaxChanges
    /\ changes' = changes + 1
    /\ UNCHANGED <<options, attached, pc, seen, todo, read>>
    /\ disturbed' = (disturbed \/ touches)

Edit ==
    /\ \E f \in Files : \E blob \in Contents[f] \ {work[f]} : work' = [work EXCEPT ![f] = blob]
    /\ UNCHANGED <<commits, refs, index>>
    /\ Change(type = "working-tree")

Stage ==
    /\ \E f \in Files : /\ index[f] # work[f]
                        /\ index' = [index EXCEPT ![f] = work[f]]
    /\ UNCHANGED <<commits, refs, work>>
    /\ Change(type \in {"working-tree", "staged"})

(* A historical scope is disturbed if its head, or the base of a range with*)
(* two dots, is another commit by now; a merge base stays.                 *)
Moves(ref) == Resolve(ref)' # Resolve(ref)
TwoDots == type = "range" /\ ~options.isThreeDot

Commit ==
    /\ TreeOf(HeadCommit) # index
    /\ commits' = Append(commits, [parent |-> HeadCommit, tree |-> index])
    /\ refs' = [refs EXCEPT ![attached] = Len(commits) + 1]
    /\ UNCHANGED <<index, work>>
    /\ Change(\/ type = "staged"
              \/ type \in Historical /\ Moves(options.head)
              \/ TwoDots /\ Moves(options.base))
--------------------------------------------------------------------------
(* The sections of the diff: hunks, or a note that the file is binary.     *)
TextSection(kind, hunks) == [kind |-> kind, hunks |-> hunks]
BinarySection == [kind |-> "binary", hunks |-> <<>>]
Unified(from, to) ==
    IF IsText(from) /\ IsText(to) THEN TextSection("modified", UnifiedDiff(from, to)) ELSE BinarySection
Added(to) == IF IsText(to) THEN TextSection("added", AddedDiff(to)) ELSE BinarySection
Deleted(from) == IF IsText(from) THEN TextSection("deleted", DeletedDiff(from)) ELSE BinarySection

Section(from, to) ==
    IF from = Absent THEN Added(to)
    ELSE IF to = Absent THEN Deleted(from)
    ELSE Unified(from, to)

Differing(from, to) == {f \in Files : from[f] # to[f]}
TreeDiff(from, to) == [f \in Differing(from, to) |-> Section(from[f], to[f])]

Then(step, next) == pc = step /\ pc' = next /\ UNCHANGED <<options, user>>

(* A GitError or a ValidationError ends the review.                        *)
Throw ==
    /\ pc' = "done" /\ outcome' = "failed"
    /\ UNCHANGED <<options, user, seen, todo, diff, files, ignored, contents>>

(* One await for a reference: what it is found to be goes into seen.       *)
ReadRef(step, next, ref, field, Meaning(_)) ==
    LET c == Resolve(ref)
    IN /\ pc = step
       /\ IF c = NoCommit THEN Throw
          ELSE /\ Then(step, next)
               /\ seen' = [seen EXCEPT ![field] = Meaning(c)]
               /\ UNCHANGED <<todo, read>>

(* The parent of a commit is found once, the base of a range is a name     *)
(* that is resolved in each pass, before its head.                         *)
ReadCommit == ReadRef("base", "diff", options.head, "base", Parent)
ResolveBase(pass) ==
    TwoDots /\ ReadRef(pass \o " base", pass, options.base, "base", LAMBDA c : c)

(* A branch is compared with HEAD, or if it is HEAD with the first usual   *)
(* default branch that is somewhere else.                                  *)
DefaultBranches == <<"main", "master", "origin">>
ReadHeadOfBranch == ReadRef("branch", "branch oid", Name("HEAD"), "one", LAMBDA c : c)
InferBase ==
    LET oid == Resolve(options.head)
        elsewhere == {k \in DOMAIN DefaultBranches : refs[DefaultBranches[k]] \notin {NoCommit, oid}}
        compare == IF seen.one # oid THEN "HEAD" ELSE DefaultBranches[Min(elsewhere)]
    IN /\ pc = "branch oid"
       /\ IF oid = NoCommit \/ (seen.one = oid /\ elsewhere = {}) THEN Throw
          ELSE /\ options' = [options EXCEPT !.base = Name(compare)]
               /\ pc' = "merge base"
               /\ UNCHANGED <<user, seen, todo, read>>

(* findMergeBase resolves both references.                                 *)
ReadMergeOne == ReadRef("merge base", "merge head", options.base, "one", LAMBDA c : c)
FindMergeBase ==
    LET two == Resolve(options.head)
    IN /\ pc = "merge head"
       /\ IF two = NoCommit \/ MergeBase(seen.one, two) = NoCommit THEN Throw
          ELSE /\ Then("merge head", "diff")
               /\ seen' = [seen EXCEPT !.base = MergeBase(seen.one, two)]
               /\ UNCHANGED <<todo, read>>

(* The head is a reference that each pass resolves again, and each read of *)
(* a file after it.  The mutant goes by HEAD.                              *)
HeadTreeIsHEAD == TreeOf(HeadCommit)
HeadTree == TreeOf(Resolve(options.head))
HeadResolves == Resolve(options.head) # NoCommit

GetDiff ==
    /\ pc = "diff"
    /\ IF ~HeadResolves THEN Throw
       ELSE /\ Then("diff", IF TwoDots THEN "files base" ELSE "files")
            /\ diff' = TreeDiff(TreeOf(seen.base), HeadTree)
            /\ UNCHANGED <<seen, todo, files, ignored, contents, outcome>>

GetChangedFiles ==
    /\ Then("files", "filter")
    /\ files' = Differing(TreeOf(seen.base), HeadTree)
    /\ UNCHANGED <<seen, todo, diff, ignored, contents, outcome>>
--------------------------------------------------------------------------
(* Staged changes.  The status matrix says how HEAD and the index differ   *)
(* at one moment; HEAD was resolved before and the index is read after it. *)
ReadHead ==
    /\ Then("diff head", "diff status")
    /\ seen' = [seen EXCEPT !.head = TreeOf(HeadCommit)]
    /\ UNCHANGED <<todo, read>>

StagedStatus ==
    LET head == TreeOf(HeadCommit) IN
    [f \in Differing(head, index) |->
        IF head[f] = Absent THEN "added" ELSE IF index[f] = Absent THEN "deleted" ELSE "modified"]

GetStagedStatus ==
    /\ type = "staged"
    /\ Then("diff status", "diff index")
    /\ seen' = [seen EXCEPT !.status = StagedStatus]
    /\ UNCHANGED <<todo, read>>

StagedSection(f) ==
    CASE seen.status[f] = "deleted" -> Deleted(seen.head[f])
      [] seen.status[f] # "deleted" /\ ~IsText(index[f]) -> BinarySection
      [] seen.status[f] = "added" /\ IsText(index[f]) -> Added(index[f])
      [] seen.status[f] = "modified" /\ IsText(index[f]) -> Unified(seen.head[f], index[f])

GetStagedDiff ==
    /\ type = "staged"
    /\ Then("diff index", "files status")
    /\ diff' = [f \in DOMAIN seen.status |-> StagedSection(f)]
    /\ UNCHANGED <<seen, todo, files, ignored, contents, outcome>>

GetStagedFiles ==
    /\ type = "staged"
    /\ Then("files status", "filter")
    /\ files' = DOMAIN StagedStatus
    /\ UNCHANGED <<seen, todo, diff, ignored, contents, outcome>>
--------------------------------------------------------------------------
(* Changes of the working tree, once for the diff and once for the files.  *)
(* Of the status matrix only whether the file is on disk is used.          *)
GetWorkingStatus(pass) ==
    /\ type = "working-tree"
    /\ Then(pass \o " status", pass \o " index")
    /\ seen' = [seen EXCEPT !.status =
                    [f \in Files |-> IF work[f] = Absent THEN "deleted" ELSE "on disk"]]
    /\ UNCHANGED <<todo, read>>

ReadIndex(pass) ==
    /\ type = "working-tree"
    /\ Then(pass \o " index", pass \o " work")
    /\ seen' = [seen EXCEPT !.index = index]
    /\ todo' = Files
    /\ UNCHANGED read

(* A file that was on disk and is gone now is in neither list.             *)
ChangedOnDisk(f) ==
    IF seen.status[f] = "on disk" THEN work[f] \notin {Absent, seen.index[f]} ELSE seen.index[f] # Absent

WorkingSection(f) ==
    IF seen.status[f] = "on disk" THEN Section(seen.index[f], work[f]) ELSE Deleted(seen.index[f])

GetWorkingDiff ==
    LET f == Min(todo) IN
    /\ pc = "diff work"
    /\ pc' = IF todo = {f} THEN "files status" ELSE pc
    /\ todo' = todo \ {f}
    /\ diff' = IF ChangedOnDisk(f)
               THEN [g \in DOMAIN diff \cup {f} |-> IF g = f THEN WorkingSection(f) ELSE diff[g]]
               ELSE diff
    /\ UNCHANGED <<options, user, seen, files, ignored, contents, outcome>>

GetWorkingFiles ==
    LET f == Min(todo) IN
    /\ pc = "files work"
    /\ pc' = IF todo = {f} THEN "filter" ELSE pc
    /\ todo' = todo \ {f}
    /\ files' = IF ChangedOnDisk(f) THEN files \cup {f} ELSE files
    /\ UNCHANGED <<options, user, seen, diff, ignored, contents, outcome>>
--------------------------------------------------------------------------
(* The last layer that speaks of a file decides; FileFilter adds the       *)
(* patterns of the configuration once more after the critical ones.        *)
Ignores(rules, f) ==
    LET said == << rules["gitignore"][f], rules["octateignore"][f], rules["config"][f],
                   IF f \in CriticalFiles THEN "ignore" ELSE "silent", rules["config"][f] >>
        spoken == {k \in DOMAIN said : said[k] # "silent"}
    IN spoken # {} /\ said[Max(spoken)] = "ignore"

(* The files whose content is read, if the scope has any at all.           *)
Candidates(paths, excluded) ==
    {f \in paths \ excluded : f \in DOMAIN diff => diff[f].kind # "binary"}

Filter ==
    /\ pc = "filter"
    /\ \E rules \in RuleSets : ignored' = {f \in Files : Ignores(rules, f)}
    /\ todo' = Candidates(files, ignored')
    /\ pc' = IF todo' = {} THEN "done" ELSE "contents"
    /\ outcome' = IF todo' = {} THEN "empty" ELSE "none"
    /\ UNCHANGED <<options, user, seen, diff, files, contents>>

TargetTree == CASE type = "staged" -> index
                [] type = "working-tree" -> work
                [] type \in Historical -> HeadTree
TextOrNull(blob) == IF IsText(blob) THEN blob ELSE Absent

(* shouldReviewSnapshotContent: a file without content was deleted, and    *)
(* its removal is reviewed.                                                *)
Reviewable(blob) == blob = Absent \/ \A k \in DOMAIN blob.lines : blob.lines[k] # GeneratedLine
Reviewed(texts) == {f \in DOMAIN texts : Reviewable(texts[f])}

(* scope.diff in the order of the paths, and what is left of it for the    *)
(* reviewers.                                                              *)
Sections == [n \in 1..Cardinality(DOMAIN diff) |->
                LET f == CHOOSE g \in DOMAIN diff : Cardinality({h \in DOMAIN diff : h <= g}) = n
                IN [file |-> f, kind |-> diff[f].kind, hunks |-> diff[f].hunks]]
ReviewDiff(texts) == FilterDiffToFiles(Sections, Reviewed(texts))

(* The contents are read all at once, and arrive in any order.             *)
ReadContent(f) ==
    /\ pc = "contents" /\ f \in todo
    /\ todo' = todo \ {f}
    /\ contents' = [g \in DOMAIN contents \cup {f} |->
                      IF g = f THEN TextOrNull(TargetTree[f]) ELSE contents[g]]
    /\ pc' = IF todo' = {} THEN "done" ELSE pc
    /\ outcome' = IF todo' # {} THEN "none"
                  ELSE IF ReviewDiff(contents') = <<>> THEN "empty" ELSE "review"
    /\ UNCHANGED <<options, user, seen, diff, files, ignored>>

Review ==
    \/ ReadCommit \/ (\E pass \in Pass : ResolveBase(pass))
    \/ ReadHeadOfBranch \/ InferBase \/ ReadMergeOne \/ FindMergeBase
    \/ GetDiff \/ GetChangedFiles
    \/ ReadHead \/ GetStagedStatus \/ GetStagedDiff \/ GetStagedFiles
    \/ \E pass \in Pass : GetWorkingStatus(pass) \/ ReadIndex(pass)
    \/ GetWorkingDiff \/ GetWorkingFiles
    \/ Filter
    \/ \E f \in Files : ReadContent(f)

Next == Review \/ Edit \/ Stage \/ Commit

Spec == Init /\ [][Next]_vars
--------------------------------------------------------------------------
(* The two trees the scope compares, as they are when nobody disturbs it.  *)
Before == CASE type = "staged" -> TreeOf(HeadCommit)
            [] type = "working-tree" -> index
            [] type = "commit" -> TreeOf(Parent(Resolve(options.head)))
            [] TwoDots -> TreeOf(Resolve(options.base))
            [] OTHER -> TreeOf(MergeBase(Resolve(options.base), Resolve(options.head)))
After == CASE type = "staged" -> index
           [] type = "working-tree" -> work
           [] OTHER -> TreeOf(Resolve(options.head))
Quiet == pc = "done" /\ ~disturbed
Resolvable ==
    type \in Historical =>
        /\ Resolve(options.head) # NoCommit
        /\ type = "range" => Resolve(options.base) # NoCommit
        /\ options.isThreeDot => MergeBase(Resolve(options.base), Resolve(options.head)) # NoCommit

(* Every part of the scope speaks of files of the repository, a content is *)
(* kept only for a changed file that is not ignored, and the review is     *)
(* over exactly when it has an outcome (application/review.ts:85-147).     *)
TypeOK ==
    /\ type \in Types /\ {index, work} \subseteq Tree
    /\ \A c \in DOMAIN commits : commits[c].parent \in 0..(c - 1) /\ commits[c].tree \in Tree
    /\ \A name \in DOMAIN refs : refs[name] \in 0..Len(commits)
    /\ changes \in 0..MaxChanges /\ disturbed \in BOOLEAN
    /\ todo \subseteq Files /\ files \subseteq Files /\ ignored \subseteq Files
    /\ DOMAIN diff \subseteq Files
    /\ DOMAIN contents \subseteq files \ ignored
    /\ outcome \in {"none", "empty", "review", "failed"} /\ (outcome # "none" <=> pc = "done")

(* Nobody touched what the scope is made from: the diff has a section for  *)
(* each file that differs and no other, the list of files names the same   *)
(* files although it is read in a second pass, and the contents are those  *)
(* of the side the scope leads to.  It fails only if a reference names no  *)
(* commit or there is nothing to compare with.  A commit that is named by  *)
(* its id is never disturbed, whatever the user does, nor is a branch by   *)
(* commits to another one (repository/scope.ts:79-192).                    *)
QuietReviewIsConsistent ==
    /\ Quiet /\ outcome # "failed" =>
          /\ files = Differing(Before, After)
          /\ DOMAIN diff = files
          /\ \A f \in DOMAIN contents : contents[f] = TextOrNull(After[f])
    /\ Quiet /\ type # "branch" => (outcome = "failed" <=> ~Resolvable)

(* The hunks turn the old text into the new one, the lines they number as  *)
(* added and removed are the ones that were, and no file's section is      *)
(* taken for another's: each file the review is about has its own added    *)
(* lines for findings to point at, exactly, a deleted one is known as      *)
(* such, and the ranges whose symbols are looked up and where findings are *)
(* expected hold these lines and no line beyond the file's own hunks       *)
(* (repository/git.ts:543, review/evidence-validator.ts:228, intelligence/ *)
(* context/candidates.ts:268, review/heuristics.ts:26).                    *)
LinesOf(blob) == IF blob = Absent THEN <<>> ELSE blob.lines
Without(lines, numbers) ==
    LET kept == SetToSortSeq(DOMAIN lines \ numbers, <)
    IN [k \in DOMAIN kept |-> lines[kept[k]]]
HunksLeadTo(old, new, hunks) ==
    /\ hunks # <<>>
    /\ Patched(old, hunks) = new
    /\ AddedLines(hunks) \subseteq DOMAIN new
    /\ Without(new, AddedLines(hunks)) = Without(old, DeletedLines(hunks))
DiffTellsTheWholeChange ==
    LET text == ReviewDiff(contents)
        info == ParseDetailedDiff(text, Reviewed(contents))
        shown == {f \in Reviewed(contents) : diff[f].kind # "binary" /\ After[f] # Absent}
    IN Quiet /\ outcome # "failed" =>
        /\ \A f \in {g \in DOMAIN diff : diff[g].kind # "binary"} :
               HunksLeadTo(LinesOf(Before[f]), LinesOf(After[f]), diff[f].hunks)
        /\ outcome = "review" =>
               /\ info.deletedFiles = {f \in Reviewed(contents) : After[f] = Absent}
               /\ \A f \in shown :
                      /\ info.files[f].added = AddedLines(diff[f].hunks)
                      /\ \A ranges \in {ContextRanges(text), HeuristicRanges(text)} :
                             /\ info.files[f].added \subseteq UNION ranges[f]
                             /\ UNION ranges[f] \subseteq {0} \cup UNION RangesOf(diff[f].hunks)
=============================================================================
