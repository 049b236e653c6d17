------------------------------ MODULE Findings ------------------------------
(***************************************************************************)
(* What review/dedup.ts and review/ranking.ts compute on a list of         *)
(* findings: clustering with a union-find, merging a cluster, scoring,     *)
(* sorting and truncation.                                                 *)
(*                                                                         *)
(* One reviewed file is modelled (both algorithms partition by file).  A   *)
(* finding is a record                                                     *)
(*   start, end       its lines; nothing makes end >= start                *)
(*   title            the title after normalizeTitle                       *)
(*   category         one of the eight categories                          *)
(*   severity         5 critical, 4 high, 3 medium, 2 low, 1 info          *)
(*   confidence       in percent                                           *)
(*   length           of the message                                       *)
(*   evidence         in order, the file and the line each item points at,  *)
(*                    and whether it says what links it to the change      *)
(*   reviewers        contributingReviewers                                *)
(* and the fields that only FindingTriage reads.                           *)
(*                                                                         *)
(* Mutants stand above the operator they mutate, as in ModelClient.        *)
(***************************************************************************)
EXTENDS Integers, FiniteSets, SequencesExt

CONSTANTS
    SymbolAt,       \* SymbolAt[l]: the innermost symbol at line l, or NoSymbol
    NoSymbol,
    BlastRadius,    \* the blast radius of the file's symbols, 10..100
    MaxEvidence     \* evidence items kept in a merged finding: 5 in the code

ASSUME FindingsAssumption == BlastRadius \in 10..100 /\ MaxEvidence \in Nat \ {0}

MaxOf(S) == CHOOSE x \in S : \A y \in S : y <= x
MinOf(S) == CHOOSE x \in S : \A y \in S : x <= y

(* The elements of a set in the order of a relation, which is a set of pairs;*)
(* and the elements of a sequence at some of its indices, or that satisfy    *)
(* Test, in the order they have there: Array.sort and Array.filter.          *)
InOrder(S, before) ==
    CHOOSE s \in [1..Cardinality(S) -> S] :
        \A i, j \in 1..Cardinality(S) : i < j => <<s[i], s[j]>> \in before
Ascending(I) == InOrder(I, {p \in I \X I : p[1] < p[2]})
Picked(s, I) == [k \in 1..Cardinality(I) |-> s[Ascending(I)[k]]]
Filtered(s, Test(_)) == Picked(s, {i \in DOMAIN s : Test(s[i])})

(* Math.max of the starts is at most Math.min of the ends. *)
Overlap(f, g) ==
    /\ f.start <= f.end /\ f.start <= g.end
    /\ g.start <= f.end /\ g.start <= g.end

(* The matcher of postCriticConsolidate. *)
SameIssue(f, g) ==
    \/ Overlap(f, g)
    \/ /\ f.category = g.category
       /\ SymbolAt[f.start] # NoSymbol
       /\ SymbolAt[f.start] = SymbolAt[g.start]
    \/ f.title = g.title

-----------------------------------------------------------------------------
(* DisjointSet: parent maps every index to one nearer to its root. *)
PathToRoot(parent, i) ==
    LET path[k \in DOMAIN parent] ==
            IF parent[k] = k THEN {k} ELSE {k} \cup path[parent[k]]
    IN  path[i]
Root(parent, i) == CHOOSE r \in PathToRoot(parent, i) : parent[r] = r

(* find() points everything on the path at the root. *)
Compress(parent, i) ==
    [k \in DOMAIN parent |->
        IF k \in PathToRoot(parent, i) THEN Root(parent, i) ELSE parent[k]]

UnionOfNodes(parent, i, j) ==
    [Compress(Compress(parent, i), j) EXCEPT ![i] = Root(parent, j)]
Union(parent, i, j) ==
    [Compress(Compress(parent, i), j) EXCEPT ![Root(parent, i)] = Root(parent, j)]

(* The double loop compares every pair, i below j. *)
Pairs(n) == {p \in (1..n) \X (1..n) : p[1] < p[2]}
Compared(n) ==
    InOrder(Pairs(n), {pq \in Pairs(n) \X Pairs(n) :
                          LET p == pq[1]
                              q == pq[2]
                          IN  p[1] < q[1] \/ (p[1] = q[1] /\ p[2] < q[2])})

(* What the union-find holds when the pairs up to the k-th are compared and *)
(* those that match united.                                                 *)
Parents(n, matching) ==
    LET pairs == Compared(n)
        after[k \in 0..Cardinality(Pairs(n))] ==
            IF k = 0 THEN [i \in 1..n |-> i]
            ELSE IF pairs[k] \in matching
            THEN Union(after[k - 1], pairs[k][1], pairs[k][2])
            ELSE after[k - 1]
    IN  after[Cardinality(Pairs(n))]

(* The clusters of findings that a matching joins, in the order of their    *)
(* first members.                                                           *)
Members(parent, i) == {k \in DOMAIN parent : Root(parent, k) = Root(parent, i)}
Firsts(parent) == {i \in DOMAIN parent : \A k \in Members(parent, i) : i <= k}
Clusters(fs, matching) ==
    LET parent == Parents(Len(fs), matching)
        firsts == Ascending(Firsts(parent))
    IN  [c \in 1..Cardinality(Firsts(parent)) |-> Picked(fs, Members(parent, firsts[c]))]

-----------------------------------------------------------------------------
(* Of the evidence that points at one line the first item is kept. *)
Distinct(s) ==
    LET sameLine(d, e) == d.file = e.file /\ d.line = e.line
    IN  FoldLeft(LAMBDA seen, e : IF \E i \in DOMAIN seen : sameLine(seen[i], e)
                                  THEN seen ELSE Append(seen, e), << >>, s)
FirstOf(s, n) == SubSeq(s, 1, IF n < Len(s) THEN n ELSE Len(s))

(* The finding whose text stands for the cluster: the most confident, then *)
(* the one with the longest message, then the first.                       *)
Representative(cluster) ==
    LET better(i, j) ==
            LET f == cluster[i]
                g == cluster[j]
            IN  \/ f.confidence > g.confidence
                \/ f.confidence = g.confidence /\ f.length > g.length
                \/ f.confidence = g.confidence /\ f.length = g.length /\ i <= j
    IN  cluster[CHOOSE i \in DOMAIN cluster : \A j \in DOMAIN cluster : better(i, j)]

MergeFindingClusterAsRepresentative(cluster) == Representative(cluster)
MergeFindingCluster(cluster) ==
    LET all(Field(_)) == {Field(cluster[i]) : i \in DOMAIN cluster}
    IN  [Representative(cluster) EXCEPT
            !.severity   = MaxOf(all(LAMBDA f : f.severity)),
            !.confidence = MaxOf(all(LAMBDA f : f.confidence)),
            !.start      = MinOf(all(LAMBDA f : f.start)),
            !.end        = MaxOf(all(LAMBDA f : f.end)),
            !.reviewers  = UNION all(LAMBDA f : f.reviewers),
            !.evidence   = FirstOf(Distinct(FlattenSeq(
                               [i \in DOMAIN cluster |-> cluster[i].evidence])),
                               MaxEvidence)]

Merged(clusters) == [c \in DOMAIN clusters |-> MergeFindingCluster(clusters[c])]

PreCriticDeduplicate(fs) ==
    Merged(Clusters(fs, {p \in Pairs(Len(fs)) : Overlap(fs[p[1]], fs[p[2]])}))
PostCriticConsolidate(fs) ==
    Merged(Clusters(fs, {p \in Pairs(Len(fs)) : SameIssue(fs[p[1]], fs[p[2]])}))

-----------------------------------------------------------------------------
(* The components of the composite score, which is kept in hundredths. *)
SeverityScore(f) == <<10, 25, 50, 75, 100>>[f.severity]

EvidenceStrength(f) ==
    LET n == Len(f.evidence)
    IN  IF n = 0 THEN 0
        ELSE MinOf({100, 5 + (IF n = 1 THEN 40 ELSE IF n = 2 THEN 70 ELSE 90)
                           + (IF \A i \in 1..n : f.evidence[i].file = f.evidence[1].file
                              THEN 0 ELSE 10)})

SecurityImpact(f) ==
    IF f.category = "security" THEN <<20, 40, 60, 85, 100>>[f.severity] ELSE 0

RegressionBase ==
    [correctness |-> 85, reliability |-> 80, compatibility |-> 70,
     performance |-> 50, architecture |-> 40, maintainability |-> 30,
     testing |-> 20, security |-> 30]
RegressionProbability(f) ==
    LET p == RegressionBase[f.category] + (IF BlastRadius >= 50 THEN 15 ELSE 0)
    IN  IF p > 100 THEN 100 ELSE p

CompositeScore(f) ==
    30 * SeverityScore(f) + 20 * f.confidence + 15 * EvidenceStrength(f)
        + 15 * BlastRadius + 10 * SecurityImpact(f)
        + 10 * RegressionProbability(f)

(* compareRankedFindings: f comes strictly before g. *)
RanksBefore(f, g) ==
    LET keyF == <<CompositeScore(f), f.severity, f.confidence, -f.start>>
        keyG == <<CompositeScore(g), g.severity, g.confidence, -g.start>>
    IN  \E k \in 1..4 : keyF[k] > keyG[k] /\ \A l \in 1..(k - 1) : keyF[l] = keyG[l]

(* Array.sort is stable. *)
Ranking(fs) ==
    {p \in (DOMAIN fs) \X (DOMAIN fs) :
        \/ RanksBefore(fs[p[1]], fs[p[2]])
        \/ p[1] < p[2] /\ ~RanksBefore(fs[p[2]], fs[p[1]])}
SortFindings(fs) ==
    LET order == InOrder(DOMAIN fs, Ranking(fs))
    IN  [k \in DOMAIN fs |-> fs[order[k]]]

IsCritical(f) == f.severity = 5

(* The slots that critical findings leave to the others. *)
AvailableSlotsOf(criticals, maxFindings) == maxFindings
AvailableSlots(criticals, maxFindings) ==
    MaxOf({0, maxFindings - Len(criticals)})

RankAndTruncateFindings(fs, minSeverity, maxFindings) ==
    LET ranked      == SortFindings(Filtered(fs, LAMBDA f : f.severity >= minSeverity))
        criticals   == Filtered(ranked, IsCritical)
        nonCritical == Filtered(ranked, LAMBDA f : ~IsCritical(f))
        slots       == AvailableSlots(criticals, maxFindings)
    IN  SortFindings(criticals \o FirstOf(nonCritical, slots))
=============================================================================
