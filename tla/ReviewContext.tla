---------------------------- MODULE ReviewContext ---------------------------
(***************************************************************************)
(* What the reviewers are shown beside the diff.  ReviewUseCase.execute    *)
(* (application/review.ts) extracts the symbols of the changed files,      *)
(* indexes them, links them by a reference graph over the same files, and  *)
(* ContextEngine.buildContext collects candidates around the changed       *)
(* symbols and packs them into a budget of tokens, one tier after the      *)
(* other.                                                                  *)
(*                                                                         *)
(* The steps are synchronous or await reads that cannot change any more    *)
(* (the contents were read before), so that nothing interleaves; what      *)
(* varies is the change.  A file is a list of lines; text is abstracted to *)
(* what is looked for in it: the declarations, the imports, and on which   *)
(* line which name is mentioned.  A line costs one token.                  *)
(***************************************************************************)
EXTENDS Integers, FiniteSets, SequencesExt

CONSTANTS
    Project,        \* the files that may be part of a change
    Diffs,          \* diffs: sequences of hunks, file by file
    ImportChoices,  \* for each file, its import statements
    Manifests,      \* the workspace patterns and the packages of the snapshot
    Mentions,       \* <<file, line, name>>: the name may stand on the line
    Complaints,     \* lists of diagnostics the tools may report
    CallerLimit,    \* the limit of getCallers (10)
    Radius,         \* contextRadius (10)
    MaxTotalTokens  \* maxTotalTokens (12,000)

ASSUME ContextAssumption ==
    /\ CallerLimit \in Nat \ {0} /\ Radius \in Nat \ {0} /\ MaxTotalTokens \in Nat
    /\ \A f \in DOMAIN Project : Project[f].length \in Nat \ {0}
    /\ \A m \in Manifests : \A d, e \in DOMAIN m.names :     \* names are unique
          m.names[d] = m.names[e] => d = e \/ m.names[d] = "none"

VARIABLES
    diff, imports, manifest, mentions, diagnostics,   \* the input
    stage,
    symbols,    \* SymbolIndex.symbolsByFile
    graph,      \* the edges of ReferenceGraph, in the order they were added
    ranges,     \* parseDiffRanges of the effective diff
    changed,    \* changedSymbolIds
    candidates, \* candidatesById
    selected, unselected, tokens

input == <<diff, imports, manifest, mentions, diagnostics>>
vars == <<input, stage, symbols, graph, ranges, changed, candidates, selected, unselected, tokens>>

(* The changed files, in the order of the diff; only they are parsed.      *)
Files == FoldLeft(LAMBDA fs, h : IF Contains(fs, h.file) THEN fs ELSE Append(fs, h.file), <<>>, diff)

OverFiles(Of(_)) == FlattenSeq([k \in DOMAIN Files |-> Of(Files[k])])
--------------------------------------------------------------------------
(* Symbols and their index.                                                *)

(* The declarations of a file as symbols, the first of each name and kind. *)
(* The range of a symbol is that of the node that holds its name.          *)
ExtractSymbols(f) ==
    LET Add(seen, d) ==
          IF \E k \in DOMAIN seen : seen[k].id = <<f, d.name, d.kind>> THEN seen
          ELSE Append(seen, [id |-> <<f, d.name, d.kind>>, file |-> f, name |-> d.name,
                             kind |-> d.kind, first |-> d.line, last |-> d.line,
                             exported |-> d.exported])
    IN FoldLeft(Add, <<>>, Project[f].declarations)

(* extractHeritage goes by the name of the class: the last one counts.     *)
Heritage(s) ==
    LET classes == SelectSeq(Project[s.file].declarations,
                             LAMBDA d : d.kind = "class" /\ d.name = s.name)
    IN IF s.kind = "class" THEN Last(classes).bases ELSE <<>>

FileSymbols(f) == IF f \in DOMAIN symbols THEN symbols[f] ELSE <<>>
AllSymbols == OverFiles(FileSymbols)

(* getExport: the last exported symbol of that name, or none.              *)
GetExport(f, name) ==
    LET named == SelectSeq(FileSymbols(f), LAMBDA s : s.exported /\ s.name = name)
    IN IF named = <<>> THEN <<>> ELSE <<Last(named)>>
--------------------------------------------------------------------------
(* The reference graph.                                                    *)

(* An import is looked for line by line: one that is spread over several   *)
(* lines is not seen.                                                      *)
ExtractImportStatements(f) == SelectSeq(imports[f], LAMBDA i : i.oneLine)

(* resolveWorkspaceInfosAtScope: the directories with a package.json that  *)
(* some pattern matches and no negative one, if the package has a name.    *)
Workspaces == {dir \in manifest.matched \ manifest.excluded :
                  dir \in DOMAIN manifest.names /\ manifest.names[dir] # "none"}

(* What a specifier stands for is tried in turn: its suffixes after a      *)
(* relative path or below the target of an alias, or those of the          *)
(* directory of a workspace package; the first file the snapshot has is    *)
(* taken.                                                                  *)
MatchFile(tries) ==
    LET known == SelectSeq(tries, LAMBDA p : p \in DOMAIN Project)
    IN IF known = <<>> THEN <<>> ELSE <<Head(known)>>

(* A workspace package without such a file stands for its directory, a     *)
(* package that is none of the workspaces for nothing.                     *)
Resolve(imp) ==
    LET homes == {dir \in Workspaces : manifest.names[dir] = imp.package}
    IN IF imp.package = "none" THEN MatchFile(imp.tries)
       ELSE IF homes = {} THEN <<>>
       ELSE IF MatchFile(imp.tries) # <<>> THEN MatchFile(imp.tries)
       ELSE <<CHOOSE dir \in homes : TRUE>>

(* The resolved imports of a file, in their order.                         *)
Imports(f) ==
    FlattenSeq([i \in DOMAIN ExtractImportStatements(f) |->
        LET imp == ExtractImportStatements(f)[i]
        IN [k \in DOMAIN Resolve(imp) |-> [target |-> Resolve(imp)[k], names |-> imp.names]]])

Edge(kind, from, to, f, line) == [kind |-> kind, from |-> from, to |-> to, file |-> f, line |-> line]

IsIdentifierReferenced(s, name) == \E l \in s.first..s.last : <<s.file, l, name>> \in mentions

CallEdges(f, target, imported) ==
    FlattenSeq([k \in DOMAIN GetExport(target, imported.name) |->
        LET called == GetExport(target, imported.name)[k]
            callers == SelectSeq(FileSymbols(f), LAMBDA s : IsIdentifierReferenced(s, imported.alias))
        IN [c \in DOMAIN callers |-> Edge("calls", callers[c].id, called.id, f, callers[c].first)]])

ImportEdges(f) ==
    FlattenSeq([i \in DOMAIN Imports(f) |->
        LET imp == Imports(f)[i]
        IN <<Edge("imports", f, imp.target, f, i)>>
           \o FlattenSeq([n \in DOMAIN imp.names |-> CallEdges(f, imp.target, imp.names[n])])])

(* A class is tied to every symbol that bears the name of one of its bases *)
(* and is an interface or a class, as it implements or extends it.         *)
HeritageEdges(f) ==
    LET Bases(s) == FlattenSeq([b \in DOMAIN Heritage(s) |->
              SelectSeq(AllSymbols, LAMBDA t : t.name = Heritage(s)[b].name /\ t.kind = Heritage(s)[b].kind)])
        EdgesOf(s) == [b \in DOMAIN Bases(s) |-> Edge("implements", s.id, Bases(s)[b].id, f, s.first)]
    IN FlattenSeq([k \in DOMAIN FileSymbols(f) |-> EdgesOf(FileSymbols(f)[k])])

(* Production files by the name of the test, then by what it imports.      *)
TestEdges(f) ==
    LET targets == [i \in DOMAIN Imports(f) |-> Imports(f)[i].target]
        produced == SelectSeq(Project[f].mirrors \o targets, LAMBDA p : Contains(Files, p))
    IN IF ~Project[f].namedTest THEN <<>>
       ELSE [p \in DOMAIN produced |-> Edge("tests", f, produced[p], f, 0)]

(* Tests last; before them the same directory, the same package, the rest. *)
Closeness(caller, called) ==
    CASE Project[caller].inTests -> 4
      [] Project[caller].dir = Project[called].dir -> 1
      [] Project[caller].package # "none" /\ Project[caller].package = Project[called].package -> 2
      [] OTHER -> 3

(* As mutant of GetCallers: the callers are cut before they are sorted. *)
GetCallersUnsorted(s) ==
    LET calls == SelectSeq(graph, LAMBDA e : e.kind = "calls" /\ e.to = s.id)
    IN SubSeq(calls, 1, IF Len(calls) < CallerLimit THEN Len(calls) ELSE CallerLimit)
GetCallers(s) ==
    LET calls == SelectSeq(graph, LAMBDA e : e.kind = "calls" /\ e.to = s.id)
        sorted == FlattenSeq([c \in 1..4 |-> SelectSeq(calls, LAMBDA e : Closeness(e.file, s.file) = c)])
    IN SubSeq(sorted, 1, IF Len(sorted) < CallerLimit THEN Len(sorted) ELSE CallerLimit)
GetCallees(s) == SelectSeq(graph, LAMBDA e : e.kind = "calls" /\ e.from = s.id)
GetImplementations(s) == SelectSeq(graph, LAMBDA e : e.kind = "implements" /\ e.to = s.id)

(* For a test the graph answers with the files it tests.                   *)
GetTestsForFile(f) ==
    LET outgoing == SelectSeq(graph, LAMBDA e : e.kind = "tests" /\ e.from = f)
        incoming == SelectSeq(graph, LAMBDA e : e.kind = "tests" /\ e.to = f)
    IN [k \in DOMAIN outgoing |-> outgoing[k].to] \o [k \in DOMAIN incoming |-> incoming[k].from]
--------------------------------------------------------------------------
(* The candidates.                                                         *)

(* The lines windowSnippet shows: all of a short file, or those around the *)
(* target.                                                                 *)
Clamp(low, n, high) == IF n < low THEN low ELSE IF n > high THEN high ELSE n
WindowSnippet(f, target, radius) ==
    LET total == Project[f].length
        line == Clamp(1, target, total)
    IN IF total <= 4 * Radius THEN 1..total
       ELSE Clamp(1, line - radius, total)..Clamp(1, line + radius, total)

Score(type) == CASE type = "changed-symbol" -> 100
                 [] type \in {"caller", "callee"} -> 90
                 [] type \in {"related-type", "test"} -> 80
                 [] type = "diagnostic" -> 75
Scores == <<100, 90, 80, 75>>

Candidate(type, id, f, lines, cost) ==
    [type |-> type, id |-> id, file |-> f, lines |-> lines, cost |-> cost]
Snippet(type, id, f, target, radius) ==
    LET window == WindowSnippet(f, target, radius)
    IN Candidate(type, id, f, window, Cardinality(window))

(* candidatesById keeps the first candidate of an id.                      *)
Collected(found) ==
    FoldLeft(LAMBDA cs, c : IF \E k \in DOMAIN cs : cs[k].id = c.id THEN cs ELSE Append(cs, c),
             candidates, found)

(* Where a caller, a callee or an implementation is: in each case at the   *)
(* place the edge was made from.                                           *)
AtEdges(type, id(_), edges) ==
    [k \in DOMAIN edges |-> Snippet(type, id(edges[k]), edges[k].file, edges[k].line, Radius)]
RelatedTo(s) ==
    AtEdges("caller", LAMBDA e : <<"caller", e.from, s.id>>, GetCallers(s))
    \o AtEdges("callee", LAMBDA e : <<"callee", s.id, e.to>>, GetCallees(s))
    \o AtEdges("related-type", LAMBDA e : <<"impl", e.from, s.id>>, GetImplementations(s))
--------------------------------------------------------------------------
(* The diff.  A file begins with two lines, a hunk with its header.        *)
HunkAt(k) == k + 2 * Cardinality({diff[j].file : j \in 1..k})
             + FoldLeft(LAMBDA n, h : n + h.count, 0, SubSeq(diff, 1, k - 1))
DiffTokens == HunkAt(Len(diff)) + diff[Len(diff)].count

(* handleDiffOverflow: a diff of more than half the budget is cut at a     *)
(* line, and a warning of one line is appended.  (It is split at           *)
(* "diff --git ", which repository/git.ts never writes, so that it always  *)
(* is one chunk.)                                                          *)
EffectiveDiff ==
    LET limit == MaxTotalTokens \div 2
    IN IF DiffTokens <= limit THEN diff
       ELSE SubSeq(diff, 1, Cardinality({k \in DOMAIN diff : HunkAt(k) <= limit - 1}))

(* parseDiffRanges: the lines each hunk covers in the new file.            *)
ParseDiffRanges(hunks) ==
    [f \in {hunks[k].file : k \in DOMAIN hunks} |->
        {hunks[k].start..(hunks[k].start + (IF hunks[k].count > 1 THEN hunks[k].count ELSE 1) - 1) :
            k \in {j \in DOMAIN hunks : hunks[j].file = f}}]

(* A file no hunk of which is left counts as changed altogether.           *)
IsModified(s) ==
    s.file \in DOMAIN ranges => \E r \in ranges[s.file] : (s.first..s.last) \cap r # {}
--------------------------------------------------------------------------
(* The budget.                                                             *)
Tiers == << {"changed-symbol"}, {"diagnostic", "related-type"}, {"caller", "callee"}, {"test"} >>
TieredBudget ==
    LET percent(n) == (MaxTotalTokens * n) \div 100
    IN << percent(45), percent(20), percent(20),
          MaxTotalTokens - percent(45) - percent(20) - percent(20) >>

Cost(cs) == FoldLeft(LAMBDA n, c : n + c.cost, 0, cs)
ByScore(cs) == FlattenSeq([k \in DOMAIN Scores |->
                   SelectSeq(cs, LAMBDA c : Score(c.type) = Scores[k])])
OfTier(t) == SelectSeq(candidates, LAMBDA c : c.type \in Tiers[t])

(* As mutant of FillTier: the tier stops at the first item that does not fit. *)
FillTierAndStop(t) ==
    LET items == ByScore(OfTier(t))
        fitting == {n \in DOMAIN items : Cost(SubSeq(items, 1, n)) <= TieredBudget[t]}
        taken == SubSeq(items, 1, Cardinality(fitting))
    IN /\ stage = <<"fill", t>>
       /\ selected' = selected \o taken
       /\ unselected' = unselected
       /\ tokens' = tokens + Cost(taken)
       /\ stage' = IF t < Len(Tiers) THEN <<"fill", t + 1>> ELSE <<"rollover">>
       /\ UNCHANGED <<input, symbols, graph, ranges, changed, candidates>>
FillTier(t) ==
    LET Take(acc, c) ==
          IF acc.used + c.cost <= TieredBudget[t] /\ tokens + acc.used + c.cost <= MaxTotalTokens
          THEN [acc EXCEPT !.taken = Append(@, c), !.used = @ + c.cost]
          ELSE [acc EXCEPT !.left = Append(@, c)]
        filled == FoldLeft(Take, [taken |-> <<>>, left |-> <<>>, used |-> 0], ByScore(OfTier(t)))
    IN /\ stage = <<"fill", t>>
       /\ selected' = selected \o filled.taken
       /\ unselected' = unselected \o filled.left
       /\ tokens' = tokens + filled.used
       /\ stage' = IF t < Len(Tiers) THEN <<"fill", t + 1>> ELSE <<"rollover">>
       /\ UNCHANGED <<input, symbols, graph, ranges, changed, candidates>>

(* What the tiers left unused goes to the items that are left, best first. *)
Rollover ==
    LET Take(acc, c) ==
          IF tokens + acc.used + c.cost <= MaxTotalTokens
          THEN [acc EXCEPT !.taken = Append(@, c), !.used = @ + c.cost]
          ELSE acc
        filled == FoldLeft(Take, [taken |-> <<>>, used |-> 0], ByScore(unselected))
    IN /\ stage = <<"rollover">>
       /\ selected' = selected \o filled.taken
       /\ tokens' = tokens + filled.used
       /\ stage' = <<"done">>
       /\ UNCHANGED <<input, symbols, graph, ranges, changed, candidates, unselected>>
--------------------------------------------------------------------------
Init ==
    /\ diff \in Diffs /\ imports \in ImportChoices
    /\ manifest \in Manifests
    /\ mentions \in SUBSET Mentions /\ diagnostics \in Complaints
    /\ stage = <<"index">>
    /\ symbols = <<>> /\ graph = <<>> /\ ranges = <<>> /\ changed = <<>>
    /\ candidates = <<>> /\ selected = <<>> /\ unselected = <<>> /\ tokens = 0

IndexSymbols ==
    /\ stage = <<"index">> /\ stage' = <<"link">>
    /\ symbols' = [f \in ToSet(Files) |-> ExtractSymbols(f)]
    /\ UNCHANGED <<input, graph, ranges, changed, candidates, selected, unselected, tokens>>

CreateReferenceGraph ==
    /\ stage = <<"link">> /\ stage' = <<"changed">>
    /\ graph' = OverFiles(ImportEdges) \o OverFiles(HeritageEdges) \o OverFiles(TestEdges)
    /\ UNCHANGED <<input, symbols, ranges, changed, candidates, selected, unselected, tokens>>

CollectChanged ==
    /\ stage = <<"changed">> /\ stage' = <<"related">>
    /\ ranges' = ParseDiffRanges(EffectiveDiff)
    /\ changed' = SelectSeq(AllSymbols, LAMBDA s : IsModified(s)')
    /\ candidates' = [k \in DOMAIN changed' |-> Snippet("changed-symbol", changed'[k].id, changed'[k].file,
                                                         changed'[k].first, Radius)]
    /\ UNCHANGED <<input, symbols, graph, selected, unselected, tokens>>

CollectRelated ==
    /\ stage = <<"related">> /\ stage' = <<"tests">>
    /\ candidates' = Collected(FlattenSeq([k \in DOMAIN changed |-> RelatedTo(changed[k])]))
    /\ UNCHANGED <<input, symbols, graph, ranges, changed, selected, unselected, tokens>>

CollectTests ==
    LET TestsOf(f) == [k \in DOMAIN GetTestsForFile(f) |->
            LET test == GetTestsForFile(f)[k]
            IN Snippet("test", <<"test", test, f>>, test, 2 * Radius, 2 * Radius)]
    IN /\ stage = <<"tests">> /\ stage' = <<"diagnostics">>
       /\ candidates' = Collected(OverFiles(TestsOf))
       /\ UNCHANGED <<input, symbols, graph, ranges, changed, selected, unselected, tokens>>

(* A diagnostic is identified by its place and its rule, one without a     *)
(* rule by its place in the list.                                          *)
CollectDiagnostics ==
    LET RuleOrIndex(k) == IF diagnostics[k].rule = "none" THEN k ELSE diagnostics[k].rule
        found == [k \in DOMAIN diagnostics |->
            Candidate("diagnostic",
                      <<"diagnostic", diagnostics[k].file, diagnostics[k].line, ToString(RuleOrIndex(k))>>,
                      diagnostics[k].file, {}, 1)]
    IN /\ stage = <<"diagnostics">> /\ stage' = <<"fill", 1>>
       /\ candidates' = Collected(found)
       /\ UNCHANGED <<input, symbols, graph, ranges, changed, selected, unselected, tokens>>

Next ==
    \/ IndexSymbols
    \/ CreateReferenceGraph
    \/ CollectChanged
    \/ CollectRelated
    \/ CollectTests
    \/ CollectDiagnostics
    \/ \E t \in DOMAIN Tiers : FillTier(t)
    \/ Rollover

Spec == Init /\ [][Next]_vars
--------------------------------------------------------------------------
Done == stage = <<"done">>
Ids(cs) == {cs[k].id : k \in DOMAIN cs}

(* No candidate is collected twice, each shows lines its file has, and the *)
(* ones that are selected or left over are candidates, the former once     *)
(* (intelligence/context/candidates.ts:55, windowing.ts:37).               *)
TypeOK ==
    /\ Cardinality(Ids(candidates)) = Len(candidates)
    /\ \A c \in ToSet(candidates) : c.lines \subseteq 1..Project[c.file].length
    /\ ToSet(selected) \cup ToSet(unselected) \subseteq ToSet(candidates)
    /\ Cardinality(Ids(selected)) = Len(selected)
    /\ tokens \in Nat

(* The budget is kept and shared: what is shown costs no more than it, a   *)
(* tier whose candidates fit its share is shown whole however many others  *)
(* there are, and what is not shown would not have fitted into what is     *)
(* left at the end (intelligence/context/budget.ts:66-125).                *)
BudgetIsShared ==
    Done => /\ tokens = Cost(selected) /\ tokens <= MaxTotalTokens
            /\ \A t \in DOMAIN Tiers : Cost(OfTier(t)) <= TieredBudget[t] =>
                                            ToSet(OfTier(t)) \subseteq ToSet(selected)
            /\ \A c \in ToSet(candidates) \ ToSet(selected) : tokens + c.cost > MaxTotalTokens

(* A symbol of the change that mentions, where it is declared, a changed   *)
(* symbol its file imports (on one line) is shown as a caller of it, so,   *)
(* unless as many references as the limit come from symbols at least as    *)
(* close: a test never takes the place of a production caller              *)
(* (intelligence/graph/reference.ts:72-105, candidates.ts:103-139).        *)
References(s) ==
    {<<caller, i, n>> \in UNION {{<<x, j, m>> : x \in ToSet(symbols[f]),
                                      j \in DOMAIN imports[f], m \in 1..2} : f \in DOMAIN symbols} :
        LET imp == imports[caller.file][i]
        IN /\ imp.oneLine /\ Resolve(imp) = <<s.file>> /\ n \in DOMAIN imp.names
           /\ imp.names[n].name = s.name
           /\ <<caller.file, caller.first, imp.names[n].alias>> \in mentions}
ShownAsCaller(x, s) ==
    \E c \in ToSet(candidates) : c.id = <<"caller", x.id, s.id>> /\ x.first \in c.lines
CallersAreShown ==
    Done => \A s \in {t \in ToSet(changed) : t.exported} : \A r \in References(s) :
        \/ ShownAsCaller(r[1], s)
        \/ Cardinality({q \in References(s) :
                /\ ShownAsCaller(q[1], s)
                /\ Closeness(q[1].file, s.file) <= Closeness(r[1].file, s.file)}) >= CallerLimit

(* "If diff ranges exist, verify symbol overlaps diff" (candidates.ts:73): *)
(* a declaration some line of which is in a hunk is a changed symbol.      *)
ChangedDeclarationIsShown ==
    Done => \A f \in DOMAIN ranges : \A d \in ToSet(Project[f].declarations) :
        (\E r \in ranges[f] : (d.line..d.last) \cap r # {}) => <<f, d.name, d.kind>> \in Ids(candidates)
=============================================================================
