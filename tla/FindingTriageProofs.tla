------------------------- MODULE FindingTriageProofs ------------------------
(***************************************************************************)
(* Proofs about FindingTriage and the algorithms of Findings it is built   *)
(* from, for any findings that pass the schema, any answer of the critic   *)
(* and any limits:                                                         *)
(*   - lists put in order (InOrder, Ascending, Picked) hold what they are  *)
(*     to hold, in order;                                                  *)
(*   - merging a cluster: what the merged finding has of its members;      *)
(*   - the union-find: its parents stay a forest, find() ends at one root, *)
(*     path compression changes no root, union() joins two classes, and    *)
(*     the double loop joins all that matches and leaves no gap in a class;*)
(*   - the comparison of findings is a strict weak order, sorting respects *)
(*     it, and truncation drops the lowest;                                *)
(*   - the stages, by an invariant that says what each has left behind.    *)
(* Induction is by least counterexample: a smallest subset, a least number *)
(* or a node of least rank for which a fact fails.                         *)
(***************************************************************************)
EXTENDS FindingTriage, FiniteSetTheorems, TLAPS

(* A nonempty set of subsets of a finite set has a smallest one.             *)
LEMMA SmallestSubset ==
    ASSUME NEW S, IsFiniteSet(S), NEW T, T \subseteq SUBSET S, T # {}
    PROVE  \E s \in T : \A t \in T : t \subseteq s => t = s
<1> DEFINE R == StrictSubsetOrdering(S)
<1>1. IsWellFoundedOn(R, SUBSET S)
  BY FS_StrictSubsetOrderingWellFounded, FS_FiniteSubsetsOfFinite
<1>2. \E s \in T : \A t \in T : ~(<<t, s>> \in R)
  <2> HIDE DEF R
  <2> QED
    BY <1>1, WFMin
<1> QED
  BY <1>2 DEF StrictSubsetOrdering

(* R orders S: of two elements one comes before the other, and none before   *)
(* itself.                                                                   *)
Orders(R, S) ==
    /\ \A x \in S : <<x, x>> \notin R
    /\ \A x, y \in S : x = y \/ <<x, y>> \in R \/ <<y, x>> \in R
    /\ \A x, y, z \in S : <<x, y>> \in R /\ <<y, z>> \in R => <<x, z>> \in R

(* A finite set has a last element.                                          *)
LEMMA LastExists ==
    ASSUME NEW S, IsFiniteSet(S), S # {}, NEW R, Orders(R, S)
    PROVE  \E m \in S : \A x \in S : x = m \/ <<x, m>> \in R
<1> DEFINE Bad == {T \in SUBSET S : T # {} /\ ~\E m \in T : \A x \in T : x = m \/ <<x, m>> \in R}
<1> SUFFICES ASSUME Bad # {} PROVE FALSE
  OBVIOUS
<1>1. PICK T \in Bad : \A u \in Bad : u \subseteq T => u = T
  <2>1. Bad \subseteq SUBSET S
    OBVIOUS
  <2> HIDE DEF Bad
  <2> QED
    BY <2>1, SmallestSubset
<1>2. PICK x \in T : TRUE
  BY <1>1
<1> DEFINE u == T \ {x}
<1>3. CASE u = {}
  BY <1>1, <1>2, <1>3
<1>4. CASE u # {}
  <2>1. u \subseteq T /\ u # T /\ u \in SUBSET S
    BY <1>1, <1>2
  <2>2. PICK m \in u : \A y \in u : y = m \/ <<y, m>> \in R
    BY <1>1, <1>4, <2>1
  <2>3. x \in S /\ m \in S /\ x # m /\ u \subseteq S
    BY <1>1, <1>2, <2>2
  <2>4. CASE <<x, m>> \in R
    BY <1>1, <2>2, <2>4
  <2>5. CASE <<m, x>> \in R
    <3>1. \A y \in T : y = x \/ <<y, x>> \in R
      BY <2>2, <2>3, <2>5 DEF Orders
    <3> QED
      BY <1>1, <1>2, <3>1
  <2> QED
    BY <2>3, <2>4, <2>5 DEF Orders
<1> QED
  BY <1>3, <1>4

(* It can be put in order.                                                   *)
Lists(s, S, R) ==
    /\ s \in [1..Cardinality(S) -> S]
    /\ \A i, j \in 1..Cardinality(S) : i < j => <<s[i], s[j]>> \in R

(* A finite set that R orders can be listed in that order.                   *)
LEMMA OrderExists ==
    ASSUME NEW S, IsFiniteSet(S), NEW R, Orders(R, S)
    PROVE  \E s : Lists(s, S, R)
<1> DEFINE Bad == {T \in SUBSET S : ~\E s : Lists(s, T, R)}
<1> SUFFICES ASSUME Bad # {} PROVE FALSE
  OBVIOUS
<1>1. PICK T \in Bad : \A u \in Bad : u \subseteq T => u = T
  <2>1. Bad \subseteq SUBSET S
    OBVIOUS
  <2> HIDE DEF Bad
  <2> QED
    BY <2>1, SmallestSubset
<1>2. IsFiniteSet(T) /\ T \subseteq S /\ Orders(R, T)
  <2>1. T \subseteq S
    BY <1>1
  <2> QED
    BY <2>1, FS_Subset DEF Orders
<1>3. CASE T = {}
  <2>1. Cardinality(T) = 0
    BY <1>3, FS_EmptySet
  <2>2. \A i \in 1..0 : FALSE
    OBVIOUS
  <2>3. [i \in 1..0 |-> i] \in [1..0 -> T]
    BY <2>2
  <2>4. Lists([i \in 1..0 |-> i], T, R)
    BY <2>1, <2>2, <2>3 DEF Lists
  <2> QED
    BY <1>1, <2>4
<1>4. CASE T # {}
  <2>1. PICK m \in T : \A x \in T : x = m \/ <<x, m>> \in R
    BY <1>2, <1>4, LastExists
  <2> DEFINE u == T \ {m}
             n == Cardinality(u)
  <2>2. u \subseteq T /\ u # T /\ u \in SUBSET S
    BY <1>2
  <2>3. PICK s : Lists(s, u, R)
    BY <1>1, <2>2
  <2>4. n \in Nat /\ Cardinality(T) = n + 1
    <3>1. IsFiniteSet(u) /\ n = Cardinality(T) - 1
      BY <1>2, FS_RemoveElement
    <3>2. Cardinality(T) \in Nat /\ n \in Nat
      BY <1>2, <3>1, FS_CardinalityType
    <3> QED
      BY <3>1, <3>2
  <2> DEFINE t == [i \in 1..(n + 1) |-> IF i <= n THEN s[i] ELSE m]
  <2>5. \A i \in 1..n : s[i] \in u
    BY <2>3 DEF Lists
  <2>6. t \in [1..(n + 1) -> T]
    BY <2>4, <2>5
  <2>7. ASSUME NEW i \in 1..(n + 1), NEW j \in 1..(n + 1), i < j PROVE <<t[i], t[j]>> \in R
    <3>1. i \in 1..n /\ t[i] = s[i] /\ s[i] \in T /\ s[i] # m
      BY <2>4, <2>5, <2>7
    <3>2. CASE j = n + 1
      <4>1. t[j] = m
        BY <2>4, <3>2
      <4> QED
        BY <2>1, <3>1, <4>1
    <3>3. CASE j # n + 1
      <4>1. j \in 1..n /\ t[j] = s[j]
        BY <2>4, <3>3
      <4> QED
        BY <2>3, <2>7, <3>1, <4>1 DEF Lists
    <3> QED
      BY <3>2, <3>3
  <2> HIDE DEF t, u, n
  <2>8. Lists(t, T, R)
    BY <2>4, <2>6, <2>7 DEF Lists
  <2> QED
    BY <1>1, <2>8
<1> QED
  BY <1>3, <1>4

(* InOrder lists every element once, in order.                               *)
LEMMA InOrderLists ==
    ASSUME NEW S, IsFiniteSet(S), NEW R, Orders(R, S)
    PROVE  /\ Lists(InOrder(S, R), S, R)
           /\ \A x \in S : \E i \in 1..Cardinality(S) : InOrder(S, R)[i] = x
           /\ Cardinality(S) \in Nat
<1> DEFINE s == InOrder(S, R)
           n == Cardinality(S)
<1>1. n \in Nat
  BY FS_CardinalityType
<1>2. Lists(s, S, R)
  <2>1. PICK r : Lists(r, S, R)
    BY OrderExists
  <2> QED
    BY <2>1 DEF InOrder, Lists
<1> HIDE DEF s, n
<1>3. s \in Injection(1..n, S)
  <2>1. s \in [1..n -> S]
    BY <1>2 DEF Lists, n
  <2>2. ASSUME NEW i \in 1..n, NEW j \in 1..n, s[i] = s[j] PROVE i = j
    <3>1. i < j \/ j < i \/ i = j
      BY <1>1
    <3>2. i < j => <<s[i], s[j]>> \in R
      BY <1>2 DEF Lists, n
    <3>3. j < i => <<s[j], s[i]>> \in R
      BY <1>2 DEF Lists, n
    <3>4. s[i] \in S
      BY <2>1
    <3> QED
      BY <2>2, <3>1, <3>2, <3>3, <3>4 DEF Orders
  <2> QED
    BY <2>1, <2>2 DEF Injection, IsInjective
<1>4. IsFiniteSet(1..n) /\ Cardinality(1..n) = n
  BY <1>1, FS_Interval
<1>5. s \in Surjection(1..n, S)
  BY <1>3, <1>4, FS_Injection DEF n
<1> QED
  BY <1>1, <1>2, <1>5 DEF Surjection, s, n

-----------------------------------------------------------------------------
(* Numbers are ordered, and a list of some indices of a sequence picks those *)
(* elements.                                                                 *)
LEMMA AscendingLists ==
    ASSUME NEW I, IsFiniteSet(I), I \subseteq Int
    PROVE  /\ Cardinality(I) \in Nat
           /\ \A k \in 1..Cardinality(I) : Ascending(I)[k] \in I
           /\ \A j, k \in 1..Cardinality(I) : j < k => Ascending(I)[j] < Ascending(I)[k]
           /\ \A i \in I : \E k \in 1..Cardinality(I) : Ascending(I)[k] = i
<1> DEFINE R == {p \in I \X I : p[1] < p[2]}
<1>1. \A i, j \in I : <<i, j>> \in R <=> i < j
  OBVIOUS
<1>2. Ascending(I) = InOrder(I, R)
  BY DEF Ascending
<1> HIDE DEF R
<1>3. Orders(R, I)
  BY <1>1 DEF Orders
<1>4. /\ Lists(Ascending(I), I, R) /\ Cardinality(I) \in Nat
      /\ \A i \in I : \E k \in 1..Cardinality(I) : Ascending(I)[k] = i
  BY <1>2, <1>3, InOrderLists
<1> QED
  BY <1>1, <1>4 DEF Lists

(* A function on 1..n is a sequence of length n.                             *)
LEMMA SequenceOf ==
    ASSUME NEW n \in Nat, NEW s, NEW T, s \in [1..n -> T]
    PROVE  s \in Seq(T) /\ Len(s) = n
  OBVIOUS

(* Array.filter keeps exactly the elements at the chosen indices.            *)
LEMMA PickedIs ==
    ASSUME NEW s, NEW I, IsFiniteSet(I), I \subseteq Int, NEW T, \A i \in I : s[i] \in T
    PROVE  /\ Picked(s, I) \in Seq(T) /\ Len(Picked(s, I)) = Cardinality(I)
           /\ \A k \in 1..Cardinality(I) : Ascending(I)[k] \in I
                                           /\ Picked(s, I)[k] = s[Ascending(I)[k]]
           /\ \A i \in I : \E k \in 1..Cardinality(I) :
                 Ascending(I)[k] = i /\ Picked(s, I)[k] = s[i]
<1>1. Cardinality(I) \in Nat /\ \A k \in 1..Cardinality(I) : Ascending(I)[k] \in I
  BY AscendingLists
<1>2. Picked(s, I) \in [1..Cardinality(I) -> T]
  BY <1>1 DEF Picked
<1>3. Picked(s, I) \in Seq(T) /\ Len(Picked(s, I)) = Cardinality(I)
  BY <1>1, <1>2, SequenceOf
<1>4. \A k \in 1..Cardinality(I) : Picked(s, I)[k] = s[Ascending(I)[k]]
  BY DEF Picked
<1>5. \A i \in I : \E k \in 1..Cardinality(I) : Ascending(I)[k] = i
  BY AscendingLists
<1> QED
  BY <1>1, <1>3, <1>4, <1>5

-----------------------------------------------------------------------------
(* The indices of a list are finitely many.                                  *)
LEMMA IndicesAreFinite ==
    ASSUME NEW n \in Nat
    PROVE  IsFiniteSet(1..n) /\ Cardinality(1..n) = n /\ (n # 0 => 1..n # {})
<1>1. 1 \in Int /\ n \in Int
  OBVIOUS
<1>2. IsFiniteSet(1..n) /\ Cardinality(1..n) = n
  BY <1>1, FS_Interval
<1>3. n # 0 => 1 \in 1..n
  OBVIOUS
<1> QED
  BY <1>2, <1>3

(* An order on the indices of a list that is not empty has a last one.       *)
LEMMA LastIndexExists ==
    ASSUME NEW n \in Nat \ {0}, NEW R, Orders(R, 1..n)
    PROVE  \E m \in 1..n : \A i \in 1..n : i = m \/ <<i, m>> \in R
<1>1. ASSUME NEW S, IsFiniteSet(S), S # {}, Orders(R, S)
      PROVE  \E m \in S : \A i \in S : i = m \/ <<i, m>> \in R
  BY <1>1, LastExists
<1>2. IsFiniteSet(1..n) /\ 1..n # {}
  BY IndicesAreFinite
<1> QED
  BY <1>1, <1>2

(* Of finitely many numbers one is the largest.                              *)
LEMMA LargestExists ==
    ASSUME NEW n \in Nat \ {0}, NEW f \in [1..n -> Int]
    PROVE  \E i \in 1..n : \A j \in 1..n : f[j] <= f[i]
<1> DEFINE R == {p \in (1..n) \X (1..n) :
                    f[p[1]] < f[p[2]] \/ (f[p[1]] = f[p[2]] /\ p[1] < p[2])}
<1>1. \A i, j \in 1..n : <<i, j>> \in R <=> f[i] < f[j] \/ (f[i] = f[j] /\ i < j)
  OBVIOUS
<1> HIDE DEF R
<1>2. Orders(R, 1..n)
  BY <1>1 DEF Orders
<1>4. PICK i \in 1..n : \A j \in 1..n : j = i \/ <<j, i>> \in R
  BY <1>2, LastIndexExists
<1>5. ASSUME NEW j \in 1..n PROVE f[j] <= f[i]
  <2>1. f[j] \in Int /\ f[i] \in Int
    OBVIOUS
  <2>2. CASE j = i
    BY <2>1, <2>2
  <2>3. CASE <<j, i>> \in R
    <3>1. f[j] < f[i] \/ f[j] = f[i]
      BY <1>1, <2>3
    <3> QED
      BY <2>1, <3>1
  <2> QED
    BY <1>4, <2>2, <2>3
<1> QED
  BY <1>5

(* Math.max of a list that is not empty is one of it and bounds it.          *)
LEMMA MaxOfIs ==
    ASSUME NEW n \in Nat \ {0}, NEW f \in [1..n -> Int]
    PROVE  /\ \E i \in 1..n : MaxOf({f[j] : j \in 1..n}) = f[i]
           /\ \A j \in 1..n : f[j] <= MaxOf({f[k] : k \in 1..n})
<1>1. PICK i \in 1..n : \A j \in 1..n : f[j] <= f[i]
  BY LargestExists
<1> DEFINE S == {f[j] : j \in 1..n}
<1>2. f[i] \in S /\ \A y \in S : y <= f[i]
  BY <1>1
<1>3. MaxOf(S) \in S /\ \A y \in S : y <= MaxOf(S)
  BY <1>2 DEF MaxOf
<1> QED
  BY <1>3

(* Math.max of two numbers is one of them and bounds both.                   *)
LEMMA LargerIs ==
    ASSUME NEW a \in Int, NEW b \in Int
    PROVE  MaxOf({a, b}) \in Int /\ a <= MaxOf({a, b}) /\ b <= MaxOf({a, b})
                                  /\ MaxOf({a, b}) \in {a, b}
<1>1. \E x \in {a, b} : \A y \in {a, b} : y <= x
  OBVIOUS
<1>2. MaxOf({a, b}) \in {a, b} /\ \A y \in {a, b} : y <= MaxOf({a, b})
  BY <1>1 DEF MaxOf
<1> QED
  BY <1>2

(* Math.min of a list that is not empty is one of it and bounds it.          *)
LEMMA MinOfIs ==
    ASSUME NEW n \in Nat \ {0}, NEW f \in [1..n -> Int]
    PROVE  /\ \E i \in 1..n : MinOf({f[j] : j \in 1..n}) = f[i]
           /\ \A j \in 1..n : MinOf({f[k] : k \in 1..n}) <= f[j]
<1> DEFINE g == [j \in 1..n |-> -f[j]]
<1>1. g \in [1..n -> Int]
  OBVIOUS
<1>2. PICK i \in 1..n : \A j \in 1..n : g[j] <= g[i]
  BY <1>1, LargestExists
<1>3. \A j \in 1..n : f[i] <= f[j]
  BY <1>2
<1> DEFINE S == {f[j] : j \in 1..n}
<1>4. f[i] \in S /\ \A y \in S : f[i] <= y
  BY <1>3
<1>5. MinOf(S) \in S /\ \A y \in S : MinOf(S) <= y
  BY <1>4 DEF MinOf
<1> QED
  BY <1>5

(* The representative of a cluster is one of its findings, and none is more  *)
(* confident.                                                                *)
LEMMA RepresentativeIs ==
    ASSUME NEW cluster \in Seq(Finding), Len(cluster) # 0
    PROVE  \E r \in DOMAIN cluster :
              /\ Representative(cluster) = cluster[r]
              /\ \A i \in DOMAIN cluster : cluster[i].confidence <= cluster[r].confidence
<1> DEFINE n == Len(cluster)
           better(i, j) ==
              LET f == cluster[i]
                  g == cluster[j]
              IN  \/ f.confidence > g.confidence
                  \/ f.confidence = g.confidence /\ f.length > g.length
                  \/ f.confidence = g.confidence /\ f.length = g.length /\ i <= j
           R == {p \in (1..n) \X (1..n) : p[1] # p[2] /\ better(p[2], p[1])}
<1>1. n \in Nat \ {0} /\ DOMAIN cluster = 1..n /\ \A i \in 1..n : cluster[i] \in Finding
  OBVIOUS
<1>2. \A i \in 1..n : cluster[i].confidence \in Int /\ cluster[i].length \in Int
  <2>1. ASSUME NEW g \in Finding PROVE g.confidence \in Int /\ g.length \in Int
    <3>1. g.confidence \in 0..100
      BY <2>1 DEF Finding
    <3>2. g.length \in Nat
      BY <2>1 DEF Finding
    <3>3. 0..100 \subseteq Int /\ Nat \subseteq Int
      OBVIOUS
    <3> HIDE DEF n, better, R
    <3> QED
      BY <3>1, <3>2, <3>3
  <2> QED
    BY <1>1, <2>1
<1>3. \A i, j \in 1..n : <<i, j>> \in R <=> i # j /\ better(j, i)
  OBVIOUS
<1>4. Orders(R, 1..n)
  <2>1. \A i \in 1..n : <<i, i>> \notin R
    BY <1>3
  <2>2. \A i, j \in 1..n : i = j \/ <<i, j>> \in R \/ <<j, i>> \in R
    <3> SUFFICES ASSUME NEW i \in 1..n, NEW j \in 1..n, i # j
                 PROVE  better(i, j) \/ better(j, i)
      BY <1>3
    <3>1. /\ cluster[i].confidence \in Int /\ cluster[i].length \in Int /\ i \in Int
          /\ cluster[j].confidence \in Int /\ cluster[j].length \in Int /\ j \in Int
      BY <1>2
    <3> QED
      BY <3>1
  <2>3. ASSUME NEW i \in 1..n, NEW j \in 1..n, NEW k \in 1..n, <<i, j>> \in R, <<j, k>> \in R
        PROVE  <<i, k>> \in R
    <3>1. better(j, i) /\ better(k, j) /\ i # j /\ j # k
      BY <1>3, <2>3
    <3>2. better(k, i) /\ i # k
      <4> HIDE DEF n
      <4> QED
        BY <1>1, <1>2, <3>1
    <3> QED
      BY <1>3, <3>2
  <2> HIDE DEF R, n
  <2> QED
    BY <2>1, <2>2, <2>3 DEF Orders
<1>6. PICK m \in 1..n : \A j \in 1..n : j = m \/ <<j, m>> \in R
  <2> HIDE DEF R, n
  <2> QED
    BY <1>1, <1>4, LastIndexExists
<1>7. \A j \in 1..n : better(m, j)
  <2>1. better(m, m)
    BY <1>2
  <2> HIDE DEF better, R
  <2> QED
    BY <1>3, <1>6, <2>1
<1> DEFINE r == CHOOSE i \in DOMAIN cluster : \A j \in DOMAIN cluster : better(i, j)
<1>8. r \in 1..n /\ \A j \in 1..n : better(r, j)
  <2> HIDE DEF better
  <2> QED
    BY <1>1, <1>7
<1>9. Representative(cluster) = cluster[r]
  BY DEF Representative
<1> HIDE DEF r
<1> QED
  BY <1>1, <1>2, <1>8, <1>9

(* What the merged finding has of its cluster.                               *)
Merges(f, cluster) ==
    /\ \E r \in DOMAIN cluster :
          /\ f.criticDecision = cluster[r].criticDecision
          /\ f.attribution = cluster[r].attribution
          /\ f.category = cluster[r].category
          /\ f.confidence = cluster[r].confidence
          /\ f.start <= cluster[r].start /\ cluster[r].end <= f.end
    /\ \A i \in DOMAIN cluster :
          /\ f.start <= cluster[i].start /\ cluster[i].end <= f.end
          /\ cluster[i].severity <= f.severity
          /\ cluster[i].confidence <= f.confidence
          /\ cluster[i].reviewers \subseteq f.reviewers
    /\ \E i \in DOMAIN cluster : f.start = cluster[i].start
    /\ \E i \in DOMAIN cluster : f.end = cluster[i].end
    /\ f.severity \in 1..5 /\ f.confidence \in 0..100
    /\ f.start \in Nat /\ f.category \in DOMAIN RegressionBase

(* mergeFindingCluster() takes text and verdict from the representative, and *)
(* lines, severity, confidence and reviewers from all members.               *)
LEMMA MergeIs ==
    ASSUME NEW cluster \in Seq(Finding), Len(cluster) # 0
    PROVE  Merges(MergeFindingCluster(cluster), cluster)
<1> DEFINE n == Len(cluster)
           severities == [i \in 1..n |-> cluster[i].severity]
           confidences == [i \in 1..n |-> cluster[i].confidence]
           starts == [i \in 1..n |-> cluster[i].start]
           ends == [i \in 1..n |-> cluster[i].end]
           f == MergeFindingCluster(cluster)
<1>1. n \in Nat \ {0} /\ DOMAIN cluster = 1..n /\ \A i \in 1..n : cluster[i] \in Finding
  OBVIOUS
<1>2. PICK r \in 1..n : /\ Representative(cluster) = cluster[r]
                        /\ \A i \in 1..n : cluster[i].confidence <= cluster[r].confidence
  BY <1>1, RepresentativeIs
<1>3. \E E : f = [cluster[r] EXCEPT
              !.severity   = MaxOf({severities[i] : i \in 1..n}),
              !.confidence = MaxOf({confidences[i] : i \in 1..n}),
              !.start      = MinOf({starts[i] : i \in 1..n}),
              !.end        = MaxOf({ends[i] : i \in 1..n}),
              !.reviewers  = UNION {cluster[i].reviewers : i \in 1..n},
              !.evidence   = E]
  <2>1. /\ {severities[i] : i \in 1..n} = {cluster[i].severity : i \in 1..n}
        /\ {confidences[i] : i \in 1..n} = {cluster[i].confidence : i \in 1..n}
        /\ {starts[i] : i \in 1..n} = {cluster[i].start : i \in 1..n}
        /\ {ends[i] : i \in 1..n} = {cluster[i].end : i \in 1..n}
    OBVIOUS
  <2> QED
    BY <1>1, <1>2, <2>1 DEF MergeFindingCluster
<1>4. cluster[r] \in Finding
  BY <1>1
<1>5. /\ f.criticDecision = cluster[r].criticDecision
      /\ f.attribution = cluster[r].attribution
      /\ f.category = cluster[r].category
      /\ f.severity = MaxOf({severities[i] : i \in 1..n})
      /\ f.confidence = MaxOf({confidences[i] : i \in 1..n})
      /\ f.start = MinOf({starts[i] : i \in 1..n})
      /\ f.end = MaxOf({ends[i] : i \in 1..n})
      /\ f.reviewers = UNION {cluster[i].reviewers : i \in 1..n}
  <2> HIDE DEF f, severities, confidences, starts, ends
  <2> QED
    BY <1>3, <1>4 DEF Finding
<1>6. /\ severities \in [1..n -> 1..5] /\ confidences \in [1..n -> 0..100]
      /\ starts \in [1..n -> Nat \ {0}] /\ ends \in [1..n -> Nat \ {0}]
  BY <1>1 DEF Finding
<1>7. /\ severities \in [1..n -> Int] /\ confidences \in [1..n -> Int]
      /\ starts \in [1..n -> Int] /\ ends \in [1..n -> Int]
  <2> HIDE DEF severities, confidences, starts, ends
  <2>1. severities \in [1..n -> Int]
    <3>1. 1..5 \subseteq Int
      OBVIOUS
    <3> QED
      BY <1>6, <3>1
  <2>2. confidences \in [1..n -> Int]
    <3>1. 0..100 \subseteq Int
      OBVIOUS
    <3> QED
      BY <1>6, <3>1
  <2>3. starts \in [1..n -> Int]
    BY <1>6
  <2>4. ends \in [1..n -> Int]
    BY <1>6
  <2> QED
    BY <2>1, <2>2, <2>3, <2>4
<1>8. /\ \E i \in 1..n : f.severity = severities[i]
      /\ \A i \in 1..n : severities[i] <= f.severity
      /\ \E i \in 1..n : f.confidence = confidences[i]
      /\ \A i \in 1..n : confidences[i] <= f.confidence
      /\ \E i \in 1..n : f.start = starts[i]
      /\ \A i \in 1..n : f.start <= starts[i]
      /\ \E i \in 1..n : f.end = ends[i]
      /\ \A i \in 1..n : ends[i] <= f.end
  <2> HIDE DEF f, severities, confidences, starts, ends, n
  <2>1. /\ \E i \in 1..n : f.severity = severities[i]
        /\ \A i \in 1..n : severities[i] <= f.severity
    BY <1>1, <1>5, <1>7, MaxOfIs
  <2>2. /\ \E i \in 1..n : f.confidence = confidences[i]
        /\ \A i \in 1..n : confidences[i] <= f.confidence
    BY <1>1, <1>5, <1>7, MaxOfIs
  <2>3. /\ \E i \in 1..n : f.start = starts[i]
        /\ \A i \in 1..n : f.start <= starts[i]
    BY <1>1, <1>5, <1>7, MinOfIs
  <2>4. /\ \E i \in 1..n : f.end = ends[i]
        /\ \A i \in 1..n : ends[i] <= f.end
    BY <1>1, <1>5, <1>7, MaxOfIs
  <2> QED
    BY <2>1, <2>2, <2>3, <2>4
<1>9. /\ \A i \in 1..n : /\ severities[i] = cluster[i].severity
                          /\ confidences[i] = cluster[i].confidence
                          /\ starts[i] = cluster[i].start
                          /\ ends[i] = cluster[i].end
                          /\ cluster[i].reviewers \subseteq f.reviewers
      /\ cluster[r].category \in DOMAIN RegressionBase
  <2>1. \A i \in 1..n : cluster[i].reviewers \subseteq f.reviewers
    BY <1>5
  <2>2. cluster[r].category \in DOMAIN RegressionBase
    BY <1>4 DEF Finding
  <2> HIDE DEF f
  <2> QED
    BY <2>1, <2>2
<1>10. f.severity \in 1..5 /\ f.confidence \in 0..100 /\ f.start \in Nat
  <2> HIDE DEF f, severities, confidences, starts, ends
  <2> QED
    BY <1>6, <1>8
<1>11. confidences[r] = f.confidence
  <2> HIDE DEF f
  <2>1. \A i \in 1..n : confidences[i] <= confidences[r]
    BY <1>2
  <2>2. \A i \in 1..n : confidences[i] \in Int
    BY <1>7
  <2> HIDE DEF confidences
  <2> QED
    BY <1>2, <1>8, <2>1, <2>2
<1> HIDE DEF f, severities, confidences, starts, ends, n
<1> QED
  BY <1>1, <1>2, <1>5, <1>8, <1>9, <1>10, <1>11 DEF Merges, f
-----------------------------------------------------------------------------
(* A set of numbers has a least one.                                         *)
LEMMA LeastNumber ==
    ASSUME NEW T, T \subseteq Nat, T # {}
    PROVE  \E m \in T : \A k \in T : m <= k
<1> DEFINE R == OpToRel(<, Nat)
<1>1. IsWellFoundedOn(R, Nat)
  BY NatLessThanWellFounded
<1>2. \A k, m \in Nat : <<k, m>> \in R <=> k < m
  BY DEF OpToRel
<1> HIDE DEF R
<1>3. PICK m \in T : \A k \in T : ~(<<k, m>> \in R)
  BY <1>1, WFMin
<1>4. ASSUME NEW k \in T PROVE m <= k
  <2>1. k \in Nat /\ m \in Nat
    OBVIOUS
  <2>2. ~(k < m)
    BY <1>2, <1>3, <2>1
  <2> QED
    BY <2>1, <2>2
<1> QED
  BY <1>3, <1>4

(* What the recursion of PathToRoot asks for has a solution.                 *)
LEMMA PathIs ==
    ASSUME NEW n \in Nat, NEW parent \in [1..n -> 1..n]
    PROVE  \E path :
              /\ \A i \in 1..n : PathToRoot(parent, i) = path[i]
              /\ path = [k \in 1..n |-> IF parent[k] = k THEN {k}
                                        ELSE {k} \cup path[parent[k]]]
<1> DEFINE Closed == {S \in SUBSET (1..n) : \A y \in S : parent[y] \in S}
           reach == [k \in 1..n |-> {x \in 1..n : \A S \in Closed : k \in S => x \in S}]
           Solves(path) == path = [k \in 1..n |-> IF parent[k] = k THEN {k}
                                                  ELSE {k} \cup path[parent[k]]]
<1>1. ASSUME NEW k \in 1..n
      PROVE  reach[k] = IF parent[k] = k THEN {k} ELSE {k} \cup reach[parent[k]]
  <2>1. CASE parent[k] = k
    <3>1. {k} \in Closed
      BY <2>1
    <3> QED
      BY <2>1, <3>1
  <2>2. CASE parent[k] # k
    <3> DEFINE p == parent[k]
               S == {k} \cup reach[p]
    <3>1. p \in 1..n
      OBVIOUS
    <3>2. S \in Closed
      <4>1. ASSUME NEW y \in reach[p] PROVE parent[y] \in reach[p]
        <5>1. y \in 1..n /\ parent[y] \in 1..n /\ \A U \in Closed : p \in U => y \in U
          BY <3>1
        <5>2. \A U \in Closed : y \in U => parent[y] \in U
          OBVIOUS
        <5> HIDE DEF Closed
        <5> QED
          BY <3>1, <5>1, <5>2
      <4>2. p \in reach[p] /\ reach[p] \subseteq 1..n
        BY <3>1
      <4> HIDE DEF reach
      <4> QED
        BY <4>1, <4>2
    <3>3. reach[k] \subseteq S
      <4>1. \A x \in reach[k] : k \in S => x \in S
        <5> HIDE DEF S, Closed
        <5> QED
          BY <3>2
      <4> QED
        BY <4>1
    <3>4. S \subseteq reach[k]
      <4>1. \A U \in Closed : k \in U => p \in U
        OBVIOUS
      <4>2. k \in reach[k]
        OBVIOUS
      <4>3. \A x \in reach[p] : x \in 1..n /\ \A U \in Closed : p \in U => x \in U
        BY <3>1
      <4> HIDE DEF Closed, p
      <4> QED
        BY <4>1, <4>2, <4>3
    <3> QED
      BY <2>2, <3>3, <3>4
  <2> QED
    BY <2>1, <2>2
<1>2. Solves(reach)
  <2>1. reach = [k \in 1..n |-> reach[k]]
    OBVIOUS
  <2> HIDE DEF reach
  <2> QED
    BY <1>1, <2>1
<1> DEFINE path == CHOOSE path : Solves(path)
<1>3. Solves(path)
  <2> HIDE DEF reach, Solves
  <2> QED
    BY <1>2
<1>4. \A i \in 1..n : PathToRoot(parent, i) = path[i]
  BY DEF PathToRoot
<1> HIDE DEF path
<1> QED
  BY <1>3, <1>4

(* The union-find never has a cycle: every step to a parent that is not the  *)
(* node itself lowers some rank.                                             *)
Ranks(rank, parent, n) ==
    /\ rank \in [1..n -> Nat]
    /\ \A k \in 1..n : parent[k] # k => rank[parent[k]] < rank[k]
Forest(parent, n) ==
    /\ parent \in [1..n -> 1..n]
    /\ \E rank : Ranks(rank, parent, n)

(* In a forest find() ends at a root, the same from every node of the path.  *)
RootsOf(parent, n) ==
    \A k \in 1..n :
        /\ Root(parent, k) \in 1..n
        /\ parent[Root(parent, k)] = Root(parent, k)
        /\ parent[k] = k => Root(parent, k) = k
        /\ parent[k] # k => Root(parent, k) = Root(parent, parent[k])
        /\ \A x \in PathToRoot(parent, k) :
              x \in 1..n /\ Root(parent, x) = Root(parent, k)

(* Some node of a set has the least rank in it.                              *)
LEMMA LeastRank ==
    ASSUME NEW n \in Nat, NEW rank \in [1..n -> Nat], NEW T, T \subseteq 1..n, T # {}
    PROVE  \E k \in T : \A l \in T : rank[k] <= rank[l]
<1> DEFINE N == {rank[k] : k \in T}
<1>1. N \subseteq Nat /\ N # {}
  OBVIOUS
<1>2. PICK m \in N : \A l \in N : m <= l
  <2> HIDE DEF N
  <2> QED
    BY <1>1, LeastNumber
<1> QED
  BY <1>2

(* In a forest find() is well defined: every path ends, at one root.         *)
LEMMA RootsAre ==
    ASSUME NEW n \in Nat, NEW parent, Forest(parent, n)
    PROVE  RootsOf(parent, n)
<1>1. parent \in [1..n -> 1..n] /\ \A k \in 1..n : parent[k] \in 1..n
  BY DEF Forest
<1>2. PICK rank : Ranks(rank, parent, n)
  BY DEF Forest
<1>3. PICK path :
         /\ \A i \in 1..n : PathToRoot(parent, i) = path[i]
         /\ path = [k \in 1..n |-> IF parent[k] = k THEN {k} ELSE {k} \cup path[parent[k]]]
  BY <1>1, PathIs
<1>4. \A k \in 1..n : path[k] = IF parent[k] = k THEN {k} ELSE {k} \cup path[parent[k]]
  BY <1>3
<1> DEFINE Ends(k, r) == r \in path[k] /\ parent[r] = r
           Good(k) == /\ path[k] \subseteq 1..n
                      /\ \E r \in 1..n : Ends(k, r) /\ \A q : Ends(k, q) => q = r
           Bad == {k \in 1..n : ~Good(k)}
<1>5. Bad = {}
  <2> SUFFICES ASSUME Bad # {} PROVE FALSE
    OBVIOUS
  <2>1. PICK k \in Bad : \A l \in Bad : rank[k] <= rank[l]
    <3>1. Bad \subseteq 1..n
      OBVIOUS
    <3> HIDE DEF Bad
    <3> QED
      BY <1>2, <3>1, LeastRank DEF Ranks
  <2>2. k \in 1..n /\ ~Good(k)
    OBVIOUS
  <2>3. CASE parent[k] = k
    <3>1. path[k] = {k}
      BY <1>4, <2>2, <2>3
    <3>2. Good(k)
      BY <2>2, <2>3, <3>1
    <3> QED
      BY <2>2, <3>2
  <2>4. CASE parent[k] # k
    <3> DEFINE p == parent[k]
    <3>1. rank[p] < rank[k] /\ rank[p] \in Nat /\ rank[k] \in Nat /\ p \in 1..n
      BY <1>1, <1>2, <2>2, <2>4 DEF Ranks
    <3>2. p \notin Bad
      <4>1. p \in Bad => rank[k] <= rank[p]
        BY <2>1
      <4> HIDE DEF p, Bad
      <4> QED
        BY <3>1, <4>1
    <3>3. Good(p)
      <4> HIDE DEF Good
      <4> QED
        BY <3>1, <3>2
    <3>4. path[k] = {k} \cup path[p]
      BY <1>4, <2>2, <2>4
    <3>5. \A r : Ends(k, r) <=> Ends(p, r)
      BY <2>4, <3>4
    <3>6. Good(k)
      <4> HIDE DEF Ends, p
      <4> QED
        BY <2>2, <3>3, <3>4, <3>5
    <3> QED
      BY <2>2, <3>6
  <2> QED
    BY <2>3, <2>4
<1>6. \A k \in 1..n : Good(k)
  BY <1>5
<1>7. \A k \in 1..n : Root(parent, k) = CHOOSE r \in path[k] : parent[r] = r
  BY <1>3 DEF Root
<1>8. \A k \in 1..n : Ends(k, Root(parent, k))
  <2>1. ASSUME NEW k \in 1..n PROVE Ends(k, Root(parent, k))
    <3>1. \E r : r \in path[k] /\ parent[r] = r
      BY <1>6
    <3> QED
      BY <1>7, <3>1
  <2> QED
    BY <2>1
<1>9. \A k \in 1..n : \A r : Ends(k, r) => r = Root(parent, k)
  <2> HIDE DEF Ends
  <2> QED
    BY <1>6, <1>8
<1>10. \A k \in 1..n : path[k] \subseteq 1..n
  BY <1>6
<1>11. \A k \in 1..n : parent[k] # k => Root(parent, k) = Root(parent, parent[k])
  <2>1. ASSUME NEW k \in 1..n, parent[k] # k
        PROVE  Root(parent, k) = Root(parent, parent[k])
    <3>1. parent[k] \in 1..n /\ path[k] = {k} \cup path[parent[k]]
      BY <1>1, <1>4, <2>1
    <3>2. Ends(parent[k], Root(parent, parent[k]))
      BY <1>8, <3>1
    <3>3. Ends(k, Root(parent, parent[k]))
      BY <3>1, <3>2
    <3> HIDE DEF Ends
    <3> QED
      BY <1>9, <3>3
  <2> QED
    BY <2>1
<1>12. \A k \in 1..n : parent[k] = k => Root(parent, k) = k
  BY <1>4, <1>8
<1> DEFINE Same(k) == \A x \in path[k] : Root(parent, x) = Root(parent, k)
           Worse == {k \in 1..n : ~Same(k)}
<1>13. Worse = {}
  <2> SUFFICES ASSUME Worse # {} PROVE FALSE
    OBVIOUS
  <2>1. PICK k \in Worse : \A l \in Worse : rank[k] <= rank[l]
    <3>1. Worse \subseteq 1..n
      OBVIOUS
    <3> HIDE DEF Worse
    <3> QED
      BY <1>2, <3>1, LeastRank DEF Ranks
  <2>2. k \in 1..n /\ ~Same(k)
    OBVIOUS
  <2>3. CASE parent[k] = k
    <3>1. path[k] = {k}
      BY <1>4, <2>2, <2>3
    <3>2. Same(k)
      BY <3>1
    <3> QED
      BY <2>2, <3>2
  <2>4. CASE parent[k] # k
    <3> DEFINE p == parent[k]
    <3>1. rank[p] < rank[k] /\ rank[p] \in Nat /\ rank[k] \in Nat /\ p \in 1..n
      BY <1>1, <1>2, <2>2, <2>4 DEF Ranks
    <3>2. p \notin Worse
      <4>1. p \in Worse => rank[k] <= rank[p]
        BY <2>1
      <4> HIDE DEF p, Worse
      <4> QED
        BY <3>1, <4>1
    <3>3. Same(p)
      <4> HIDE DEF Same
      <4> QED
        BY <3>1, <3>2
    <3>4. path[k] = {k} \cup path[p] /\ Root(parent, k) = Root(parent, p)
      BY <1>4, <1>11, <2>2, <2>4
    <3>5. Same(k)
      BY <3>3, <3>4
    <3> QED
      BY <2>2, <3>5
  <2> QED
    BY <2>3, <2>4
<1>14. \A k \in 1..n : Same(k)
  BY <1>13
<1>15. ASSUME NEW k \in 1..n
       PROVE  /\ Root(parent, k) \in 1..n
              /\ parent[Root(parent, k)] = Root(parent, k)
              /\ \A x \in PathToRoot(parent, k) : x \in 1..n /\ Root(parent, x) = Root(parent, k)
  <2>1. PathToRoot(parent, k) = path[k]
    BY <1>3
  <2> QED
    BY <1>8, <1>10, <1>14, <2>1
<1> QED
  BY <1>11, <1>12, <1>15 DEF RootsOf

(* There is one function that maps a root to itself and every other node to  *)
(* what it maps the parent to.                                               *)
LEMMA RootsAreUnique ==
    ASSUME NEW n \in Nat, NEW parent, Forest(parent, n), NEW root,
           \A k \in 1..n : /\ parent[k] = k => root[k] = k
                           /\ parent[k] # k => root[k] = root[parent[k]]
    PROVE  \A k \in 1..n : Root(parent, k) = root[k]
<1>1. parent \in [1..n -> 1..n] /\ \A k \in 1..n : parent[k] \in 1..n
  BY DEF Forest
<1>2. PICK rank : Ranks(rank, parent, n)
  BY DEF Forest
<1>3. \A k \in 1..n : /\ parent[k] = k => Root(parent, k) = k
                      /\ parent[k] # k => Root(parent, k) = Root(parent, parent[k])
  BY RootsAre DEF RootsOf
<1> DEFINE Bad == {k \in 1..n : Root(parent, k) # root[k]}
<1> SUFFICES ASSUME Bad # {} PROVE FALSE
  OBVIOUS
<1>4. PICK k \in Bad : \A l \in Bad : rank[k] <= rank[l]
  <2>1. Bad \subseteq 1..n
    OBVIOUS
  <2> HIDE DEF Bad
  <2> QED
    BY <1>2, <2>1, LeastRank DEF Ranks
<1>5. k \in 1..n /\ Root(parent, k) # root[k]
  OBVIOUS
<1> DEFINE p == parent[k]
<1>6. p # k /\ p \in 1..n
  BY <1>1, <1>3, <1>5
<1>7. rank[p] < rank[k] /\ rank[p] \in Nat /\ rank[k] \in Nat
  BY <1>2, <1>5, <1>6 DEF Ranks
<1>8. p \in Bad
  BY <1>3, <1>5, <1>6
<1>9. rank[k] <= rank[p]
  <2> HIDE DEF p, Bad
  <2> QED
    BY <1>4, <1>8
<1> HIDE DEF p
<1> QED
  BY <1>7, <1>9

(* A root has no greater rank than the nodes under it.                       *)
LEMMA RootsAreLow ==
    ASSUME NEW n \in Nat, NEW parent, Forest(parent, n), NEW rank, Ranks(rank, parent, n),
           NEW k \in 1..n
    PROVE  Root(parent, k) = k \/ rank[Root(parent, k)] < rank[k]
<1>1. \A l \in 1..n : parent[l] \in 1..n
  BY DEF Forest
<1>2. \A l \in 1..n : /\ Root(parent, l) \in 1..n
                      /\ parent[l] = l => Root(parent, l) = l
                      /\ parent[l] # l => Root(parent, l) = Root(parent, parent[l])
  BY RootsAre DEF RootsOf
<1> DEFINE Bad == {l \in 1..n : ~(Root(parent, l) = l \/ rank[Root(parent, l)] < rank[l])}
<1> SUFFICES ASSUME Bad # {} PROVE FALSE
  OBVIOUS
<1>3. PICK m \in Bad : \A l \in Bad : rank[m] <= rank[l]
  <2>1. Bad \subseteq 1..n
    OBVIOUS
  <2> HIDE DEF Bad
  <2> QED
    BY <2>1, LeastRank DEF Ranks
<1>4. m \in 1..n /\ ~(Root(parent, m) = m \/ rank[Root(parent, m)] < rank[m])
  OBVIOUS
<1> DEFINE p == parent[m]
           r == Root(parent, m)
<1>5. p # m /\ p \in 1..n /\ r \in 1..n /\ r = Root(parent, p)
  BY <1>1, <1>2, <1>4
<1>6. /\ rank[p] < rank[m] /\ rank[p] \in Nat /\ rank[m] \in Nat /\ rank[r] \in Nat
  BY <1>4, <1>5 DEF Ranks
<1>7. p \in Bad
  <2>1. ~(r = p \/ rank[r] < rank[p])
    <3> HIDE DEF r, p
    <3>1. ~(rank[r] < rank[m])
      BY <1>4 DEF r
    <3> QED
      BY <1>6, <3>1
  <2> QED
    BY <1>5, <2>1
<1>8. rank[m] <= rank[p]
  <2> HIDE DEF p, Bad
  <2> QED
    BY <1>3, <1>7
<1> HIDE DEF p
<1> QED
  BY <1>6, <1>8

(* Path compression changes no root.                                         *)
LEMMA CompressKeepsRoots ==
    ASSUME NEW n \in Nat, NEW parent, Forest(parent, n), NEW i \in 1..n
    PROVE  /\ Forest(Compress(parent, i), n)
           /\ \A k \in 1..n : Root(Compress(parent, i), k) = Root(parent, k)
<1> DEFINE q == Compress(parent, i)
           path == PathToRoot(parent, i)
           r == Root(parent, i)
           root == [k \in 1..n |-> Root(parent, k)]
<1>1. parent \in [1..n -> 1..n] /\ \A k \in 1..n : parent[k] \in 1..n
  BY DEF Forest
<1>2. \A k \in 1..n : /\ root[k] = Root(parent, k) /\ root[k] \in 1..n
                      /\ parent[root[k]] = root[k]
                      /\ parent[k] = k => root[k] = k
                      /\ parent[k] # k => root[k] = root[parent[k]]
  <2>1. RootsOf(parent, n)
    BY RootsAre
  <2> SUFFICES ASSUME NEW k \in 1..n
               PROVE  /\ root[k] = Root(parent, k) /\ root[k] \in 1..n
                      /\ parent[root[k]] = root[k]
                      /\ parent[k] = k => root[k] = k
                      /\ parent[k] # k => root[k] = root[parent[k]]
    OBVIOUS
  <2>2. root[k] = Root(parent, k) /\ root[parent[k]] = Root(parent, parent[k])
    BY <1>1
  <2> HIDE DEF root
  <2> QED
    BY <2>1, <2>2 DEF RootsOf
<1>3. r \in 1..n /\ r = root[i] /\ \A x \in path : x \in 1..n /\ root[x] = r
  BY RootsAre DEF RootsOf
<1>4. q = [k \in 1..n |-> IF k \in path THEN r ELSE parent[k]]
  BY <1>1 DEF Compress
<1>5. PICK rank : Ranks(rank, parent, n)
  BY DEF Forest
<1> HIDE DEF q, path, r
<1>6. q \in [1..n -> 1..n]
  BY <1>1, <1>3, <1>4
<1>7. Ranks(rank, q, n)
  <2>1. ASSUME NEW k \in 1..n, q[k] # k PROVE rank[q[k]] < rank[k]
    <3>1. CASE k \in path
      <4>1. q[k] = root[k] /\ root[k] # k
        BY <1>3, <1>4, <2>1, <3>1
      <4> QED
        BY <1>2, <1>5, <4>1, RootsAreLow
    <3>2. CASE k \notin path
      <4>1. q[k] = parent[k]
        BY <1>4, <3>2
      <4> QED
        BY <1>5, <2>1, <4>1 DEF Ranks
    <3> QED
      BY <3>1, <3>2
  <2> QED
    BY <1>5, <2>1 DEF Ranks
<1>8. Forest(q, n)
  BY <1>6, <1>7 DEF Forest
<1>9. ASSUME NEW k \in 1..n
      PROVE  (q[k] = k => root[k] = k) /\ (q[k] # k => root[k] = root[q[k]])
  <2>1. CASE k \in path
    <3>1. q[k] = r /\ root[k] = r
      BY <1>3, <1>4, <2>1
    <3>2. root[r] = r
      BY <1>2, <1>3
    <3> QED
      BY <3>1, <3>2
  <2>2. CASE k \notin path
    <3>1. q[k] = parent[k]
      BY <1>4, <2>2
    <3> QED
      BY <1>2, <3>1
  <2> QED
    BY <2>1, <2>2
<1> HIDE DEF root
<1>10. \A k \in 1..n : Root(q, k) = root[k]
  BY <1>8, <1>9, RootsAreUnique
<1> QED
  BY <1>2, <1>8, <1>10 DEF q

(* union() gives the class of i the root of the class of j.                  *)
LEMMA UnionIs ==
    ASSUME NEW n \in Nat, NEW parent, Forest(parent, n), NEW i \in 1..n, NEW j \in 1..n
    PROVE  /\ Forest(Union(parent, i, j), n)
           /\ \A k \in 1..n : Root(Union(parent, i, j), k) =
                 IF Root(parent, k) = Root(parent, i) THEN Root(parent, j) ELSE Root(parent, k)
<1> DEFINE q == Compress(Compress(parent, i), j)
           a == Root(parent, i)
           b == Root(parent, j)
           u == [q EXCEPT ![a] = b]
           root == [k \in 1..n |-> IF Root(parent, k) = a THEN b ELSE Root(parent, k)]
<1>1. Forest(q, n) /\ \A k \in 1..n : Root(q, k) = Root(parent, k)
  <2> DEFINE p == Compress(parent, i)
  <2>1. Forest(p, n) /\ \A k \in 1..n : Root(p, k) = Root(parent, k)
    BY CompressKeepsRoots
  <2> HIDE DEF p
  <2>2. Forest(Compress(p, j), n) /\ \A k \in 1..n : Root(Compress(p, j), k) = Root(p, k)
    BY <2>1, CompressKeepsRoots
  <2> QED
    BY <2>1, <2>2 DEF p
<1>2. Union(parent, i, j) = u
  BY DEF Union
<1> HIDE DEF q
<1>3. q \in [1..n -> 1..n] /\ \A k \in 1..n : q[k] \in 1..n
  BY <1>1 DEF Forest
<1>4. \A k \in 1..n : /\ Root(parent, k) \in 1..n
                      /\ q[Root(parent, k)] = Root(parent, k)
                      /\ q[k] = k => Root(parent, k) = k
                      /\ q[k] # k => Root(parent, k) = Root(parent, q[k])
  <2>1. \A k \in 1..n : /\ Root(q, k) \in 1..n
                        /\ q[Root(q, k)] = Root(q, k)
                        /\ q[k] = k => Root(q, k) = k
                        /\ q[k] # k => Root(q, k) = Root(q, q[k])
    BY <1>1, RootsAre DEF RootsOf
  <2> QED
    BY <1>1, <1>3, <2>1
<1>5. a \in 1..n /\ b \in 1..n /\ q[a] = a /\ q[b] = b /\ Root(parent, a) = a /\ Root(parent, b) = b
  BY <1>4
<1> HIDE DEF a, b
<1>6. u \in [1..n -> 1..n] /\ u[a] = b /\ \A k \in 1..n : k # a => u[k] = q[k]
  BY <1>3, <1>5
<1>7. PICK rank : Ranks(rank, q, n)
  BY <1>1 DEF Forest
<1> DEFINE above == [k \in 1..n |-> rank[k] + (IF Root(parent, k) = a THEN rank[b] + 1 ELSE 0)]
<1>8. Forest(u, n)
  <2>1. CASE a = b
    <3>1. u = q
      BY <1>3, <1>5, <2>1
    <3> QED
      BY <1>1, <3>1
  <2>2. CASE a # b
    <3>0. \A k \in 1..n : rank[k] \in Nat
      BY <1>7 DEF Ranks
    <3>1. above \in [1..n -> Nat]
      BY <1>5, <3>0
    <3>2. ASSUME NEW k \in 1..n, u[k] # k PROVE above[u[k]] < above[k]
      <4>1. CASE k = a
        <5>1. above[b] = rank[b] /\ above[a] = rank[a] + (rank[b] + 1)
          BY <1>5, <2>2, <3>0
        <5> HIDE DEF above, u
        <5> QED
          BY <1>5, <1>6, <3>0, <4>1, <5>1
      <4>2. CASE k # a
        <5>1. u[k] = q[k] /\ q[k] # k /\ q[k] \in 1..n
          BY <1>3, <1>6, <3>2, <4>2
        <5>2. Root(parent, q[k]) = Root(parent, k)
          BY <1>4, <5>1
        <5>3. rank[q[k]] < rank[k] /\ rank[q[k]] \in Nat /\ rank[k] \in Nat /\ rank[b] \in Nat
          BY <1>5, <1>7, <3>0, <5>1 DEF Ranks
        <5>4. PICK c \in Nat : above[q[k]] = rank[q[k]] + c /\ above[k] = rank[k] + c
          <6> DEFINE c == IF Root(parent, k) = a THEN rank[b] + 1 ELSE 0
          <6>1. c \in Nat /\ above[q[k]] = rank[q[k]] + c /\ above[k] = rank[k] + c
            BY <5>1, <5>2, <5>3
          <6> QED
            BY <6>1
        <5> HIDE DEF above, u
        <5> QED
          BY <5>1, <5>3, <5>4
      <4> QED
        BY <4>1, <4>2
    <3> HIDE DEF above, u
    <3>3. Ranks(above, u, n)
      BY <3>1, <3>2 DEF Ranks
    <3> QED
      BY <1>6, <3>3 DEF Forest
  <2> QED
    BY <2>1, <2>2
<1>9. ASSUME NEW k \in 1..n
      PROVE  (u[k] = k => root[k] = k) /\ (u[k] # k => root[k] = root[u[k]])
  <2>1. CASE k = a
    BY <1>5, <1>6, <2>1
  <2>2. CASE k # a
    <3>1. u[k] = q[k] /\ q[k] \in 1..n
      BY <1>3, <1>6, <2>2
    <3>2. /\ q[k] = k => Root(parent, k) = k
          /\ q[k] # k => Root(parent, k) = Root(parent, q[k])
      BY <1>4
    <3> HIDE DEF u
    <3> QED
      BY <2>2, <3>1, <3>2
  <2> QED
    BY <2>1, <2>2
<1> HIDE DEF u
<1>10. \A k \in 1..n : Root(u, k) = root[k]
  <2> HIDE DEF root
  <2> QED
    BY <1>8, <1>9, RootsAreUnique
<1> QED
  BY <1>2, <1>8, <1>10 DEF a, b

-----------------------------------------------------------------------------
(* The pairs are compared one after the other, and each that matches has its *)
(* classes united: After says what the union-find is after each of them.     *)
After(f, m, n, matching) ==
    f = [k \in 0..m |->
            IF k = 0 THEN [i \in 1..n |-> i]
            ELSE IF Compared(n)[k] \in matching
            THEN Union(f[k - 1], Compared(n)[k][1], Compared(n)[k][2])
            ELSE f[k - 1]]

(* The double loop of clusterFileFindings() has a result after every pair.   *)
LEMMA AfterExists ==
    ASSUME NEW n \in Nat, NEW matching, NEW m \in Nat
    PROVE  \E f : After(f, m, n, matching)
<1> DEFINE Bad == {k \in Nat : ~\E f : After(f, k, n, matching)}
<1> SUFFICES ASSUME Bad # {} PROVE FALSE
  OBVIOUS
<1>1. PICK k \in Bad : \A l \in Bad : k <= l
  <2>1. Bad \subseteq Nat
    OBVIOUS
  <2> HIDE DEF Bad
  <2> QED
    BY <2>1, LeastNumber
<1>2. k \in Nat /\ ~\E f : After(f, k, n, matching)
  OBVIOUS
<1>3. CASE k = 0
  <2> DEFINE f == [l \in 0..0 |-> [i \in 1..n |-> i]]
  <2>1. \A l \in 0..0 : l = 0
    OBVIOUS
  <2>2. f = [l \in 0..0 |->
                IF l = 0 THEN [i \in 1..n |-> i]
                ELSE IF Compared(n)[l] \in matching
                THEN Union(f[l - 1], Compared(n)[l][1], Compared(n)[l][2])
                ELSE f[l - 1]]
    BY <2>1
  <2>3. After(f, k, n, matching)
    BY <1>3, <2>2 DEF After
  <2> QED
    BY <1>2, <2>3
<1>4. CASE k # 0
  <2>1. k - 1 \in Nat /\ ~(k <= k - 1)
    BY <1>2, <1>4
  <2>2. k - 1 \notin Bad
    BY <1>1, <2>1
  <2>3. PICK g : After(g, k - 1, n, matching)
    BY <2>1, <2>2
  <2> DEFINE last == IF Compared(n)[k] \in matching
                     THEN Union(g[k - 1], Compared(n)[k][1], Compared(n)[k][2])
                     ELSE g[k - 1]
             f == [l \in 0..k |-> IF l = k THEN last ELSE g[l]]
             Step(h, l) == IF l = 0 THEN [i \in 1..n |-> i]
                           ELSE IF Compared(n)[l] \in matching
                           THEN Union(h[l - 1], Compared(n)[l][1], Compared(n)[l][2])
                           ELSE h[l - 1]
  <2>4. \A l \in 0..(k - 1) : g[l] = Step(g, l)
    BY <2>3 DEF After
  <2>5. ASSUME NEW l \in 0..k PROVE f[l] = Step(f, l)
    <3>1. CASE l = 0
      <4>1. f[0] = g[0] /\ g[0] = [i \in 1..n |-> i]
        BY <1>4, <2>1, <2>4
      <4> QED
        BY <3>1, <4>1
    <3>2. CASE l # 0
      <4>1. l - 1 \in 0..(k - 1) /\ l - 1 # k /\ l - 1 \in 0..k
        BY <1>2, <3>2
      <4>2. f[l - 1] = g[l - 1]
        BY <4>1
      <4>3. CASE l = k
        <5>1. f[l] = last
          BY <4>3
        <5> HIDE DEF f
        <5> QED
          BY <3>2, <4>2, <4>3, <5>1
      <4>4. CASE l # k
        <5>1. f[l] = g[l] /\ l \in 0..(k - 1)
          BY <1>2, <4>4
        <5> HIDE DEF f
        <5> QED
          BY <2>4, <3>2, <4>2, <5>1
      <4> QED
        BY <4>3, <4>4
    <3> QED
      BY <3>1, <3>2
  <2>6. f = [l \in 0..k |-> f[l]]
    OBVIOUS
  <2> HIDE DEF f
  <2>7. After(f, k, n, matching)
    BY <2>5, <2>6 DEF After
  <2> QED
    BY <1>2, <2>7
<1> QED
  BY <1>3, <1>4

(* Every pair is compared, in some turn.                                     *)
LEMMA ComparedAre ==
    ASSUME NEW n \in Nat
    PROVE  /\ Cardinality(Pairs(n)) \in Nat
           /\ \A k \in 1..Cardinality(Pairs(n)) : Compared(n)[k] \in Pairs(n)
           /\ \A p \in Pairs(n) : \E k \in 1..Cardinality(Pairs(n)) : Compared(n)[k] = p
           /\ \A p \in Pairs(n) : p[1] \in 1..n /\ p[2] \in 1..n
<1> DEFINE R == {pq \in Pairs(n) \X Pairs(n) :
                    LET p == pq[1]
                        q == pq[2]
                    IN  p[1] < q[1] \/ (p[1] = q[1] /\ p[2] < q[2])}
<1>1. \A p \in Pairs(n) : /\ p[1] \in 1..n /\ p[2] \in 1..n /\ p[1] \in Int /\ p[2] \in Int
                          /\ p = <<p[1], p[2]>>
  BY DEF Pairs
<1>2. IsFiniteSet(Pairs(n))
  <2>1. IsFiniteSet(1..n)
    BY IndicesAreFinite
  <2>2. IsFiniteSet((1..n) \X (1..n))
    BY <2>1, FS_Product
  <2> QED
    BY <2>2, FS_Subset DEF Pairs
<1>3. \A p, q \in Pairs(n) :
         <<p, q>> \in R <=> p[1] < q[1] \/ (p[1] = q[1] /\ p[2] < q[2])
  OBVIOUS
<1>4. Compared(n) = InOrder(Pairs(n), R)
  BY DEF Compared
<1> HIDE DEF R
<1>5. Orders(R, Pairs(n))
  <2>1. \A p \in Pairs(n) : <<p, p>> \notin R
    BY <1>1, <1>3
  <2>2. ASSUME NEW p \in Pairs(n), NEW q \in Pairs(n)
        PROVE  p = q \/ <<p, q>> \in R \/ <<q, p>> \in R
    <3>1. \/ p[1] < q[1] \/ (p[1] = q[1] /\ p[2] < q[2])
          \/ q[1] < p[1] \/ (q[1] = p[1] /\ q[2] < p[2])
          \/ p[1] = q[1] /\ p[2] = q[2]
      BY <1>1
    <3> QED
      BY <1>1, <1>3, <3>1
  <2>3. ASSUME NEW p \in Pairs(n), NEW q \in Pairs(n), NEW r \in Pairs(n),
               <<p, q>> \in R, <<q, r>> \in R
        PROVE  <<p, r>> \in R
    <3>1. /\ p[1] < q[1] \/ (p[1] = q[1] /\ p[2] < q[2])
          /\ q[1] < r[1] \/ (q[1] = r[1] /\ q[2] < r[2])
      BY <1>3, <2>3
    <3>2. p[1] < r[1] \/ (p[1] = r[1] /\ p[2] < r[2])
      BY <1>1, <3>1
    <3> QED
      BY <1>3, <3>2
  <2> QED
    BY <2>1, <2>2, <2>3 DEF Orders
<1>6. /\ Lists(Compared(n), Pairs(n), R) /\ Cardinality(Pairs(n)) \in Nat
      /\ \A p \in Pairs(n) : \E k \in 1..Cardinality(Pairs(n)) : Compared(n)[k] = p
  BY <1>2, <1>4, <1>5, InOrderLists
<1> QED
  BY <1>1, <1>6 DEF Lists

(* Parents is the last of them.                                              *)
LEMMA ParentsAre ==
    ASSUME NEW n \in Nat, NEW matching
    PROVE  \E f : After(f, Cardinality(Pairs(n)), n, matching)
                  /\ Parents(n, matching) = f[Cardinality(Pairs(n))]
<1> DEFINE f == CHOOSE f : After(f, Cardinality(Pairs(n)), n, matching)
<1>1. After(f, Cardinality(Pairs(n)), n, matching)
  <2>1. \E g : After(g, Cardinality(Pairs(n)), n, matching)
    BY AfterExists, ComparedAre
  <2> QED
    BY <2>1
<1>2. Parents(n, matching) = f[Cardinality(Pairs(n))]
  BY DEF Parents, After
<1> HIDE DEF f
<1> QED
  BY <1>1, <1>2

-----------------------------------------------------------------------------
(* Two intervals from s to e meet, and no class leaves a gap: what lies      *)
(* between the start of a member and the end of a member, a member covers.   *)
Meet(s, e, i, j) == s[i] <= e[i] /\ s[i] <= e[j] /\ s[j] <= e[i] /\ s[j] <= e[j]
Gapless(parent, n, s, e) ==
    \A x, y \in 1..n : \A p \in Int :
        Root(parent, x) = Root(parent, y) /\ s[x] <= p /\ p <= e[y] =>
            \E c \in 1..n : Root(parent, c) = Root(parent, x) /\ s[c] <= p /\ p <= e[c]

(* Uniting two findings that meet leaves no gap in the united class.         *)
LEMMA UnionLeavesNoGap ==
    ASSUME NEW n \in Nat, NEW parent, Forest(parent, n), NEW i \in 1..n, NEW j \in 1..n,
           NEW s \in [1..n -> Int], NEW e \in [1..n -> Int], Meet(s, e, i, j),
           Gapless(parent, n, s, e)
    PROVE  Gapless(Union(parent, i, j), n, s, e)
<1> DEFINE R(k) == Root(parent, k)
           U(k) == Root(Union(parent, i, j), k)
<1>1. \A k \in 1..n : U(k) = IF R(k) = R(i) THEN R(j) ELSE R(k)
  BY UnionIs
<1>2. ASSUME NEW x \in 1..n, NEW y \in 1..n, NEW p \in Int, R(x) = R(y), s[x] <= p, p <= e[y]
      PROVE  \E c \in 1..n : R(c) = R(x) /\ s[c] <= p /\ p <= e[c]
  BY <1>2 DEF Gapless
<1>3. \A k \in 1..n : s[k] \in Int /\ e[k] \in Int
  OBVIOUS
<1> HIDE DEF R, U
<1>4. ASSUME NEW x \in 1..n, NEW y \in 1..n, NEW p \in Int, U(x) = U(y), s[x] <= p, p <= e[y]
      PROVE  \E c \in 1..n : U(c) = U(x) /\ s[c] <= p /\ p <= e[c]
  <2>1. ASSUME NEW u \in 1..n, NEW v \in 1..n, Meet(s, e, u, v), R(x) = R(u), R(y) = R(v)
        PROVE  \E c \in 1..n : U(c) = U(x) /\ s[c] <= p /\ p <= e[c]
    <3>1. CASE p <= e[u]
      <4>1. PICK c \in 1..n : R(c) = R(x) /\ s[c] <= p /\ p <= e[c]
        BY <1>2, <1>4, <2>1, <3>1
      <4> QED
        BY <1>1, <4>1
    <3>2. CASE ~(p <= e[u])
      <4>1. s[v] <= p
        BY <1>3, <2>1, <3>2 DEF Meet
      <4>2. PICK c \in 1..n : R(c) = R(v) /\ s[c] <= p /\ p <= e[c]
        BY <1>2, <1>4, <2>1, <4>1
      <4>3. U(c) = U(y)
        BY <1>1, <2>1, <4>2
      <4> QED
        BY <1>4, <4>2, <4>3
    <3> QED
      BY <3>1, <3>2
  <2>2. CASE R(x) = R(y)
    <3>1. PICK c \in 1..n : R(c) = R(x) /\ s[c] <= p /\ p <= e[c]
      BY <1>2, <1>4, <2>2
    <3> QED
      BY <1>1, <3>1
  <2>3. CASE R(x) # R(y) /\ R(x) = R(i) /\ R(y) = R(j)
    BY <2>1, <2>3
  <2>4. CASE R(x) # R(y) /\ R(x) = R(j) /\ R(y) = R(i)
    <3>1. Meet(s, e, j, i)
      BY <1>3 DEF Meet
    <3> QED
      BY <2>1, <2>4, <3>1
  <2> QED
    BY <1>1, <1>4, <2>2, <2>3, <2>4
<1> QED
  BY <1>4 DEF Gapless, U

(* After the k-th pair the union-find is a forest in which the pairs that    *)
(* match up to there are together, and, when what matches meets, no class    *)
(* leaves a gap.                                                             *)
Joins(parent, k, n, matching) ==
    /\ Forest(parent, n)
    /\ \A l \in 1..k : Compared(n)[l] \in matching =>
          Root(parent, Compared(n)[l][1]) = Root(parent, Compared(n)[l][2])

(* Before the first pair every finding is a class of its own.                *)
LEMMA NothingIsJoined ==
    ASSUME NEW n \in Nat
    PROVE  LET parent == [i \in 1..n |-> i]
           IN  Forest(parent, n) /\ \A i \in 1..n : Root(parent, i) = i
<1> DEFINE parent == [i \in 1..n |-> i]
           rank == [i \in 1..n |-> 0]
<1>1. parent \in [1..n -> 1..n] /\ \A i \in 1..n : parent[i] = i
  OBVIOUS
<1>2. rank \in [1..n -> Nat]
  OBVIOUS
<1> HIDE DEF parent, rank
<1>3. Ranks(rank, parent, n)
  BY <1>1, <1>2 DEF Ranks
<1>4. Forest(parent, n)
  BY <1>1, <1>3 DEF Forest
<1>5. \A i \in 1..n : Root(parent, i) = i
  BY <1>1, <1>4, RootsAre DEF RootsOf
<1> QED
  BY <1>4, <1>5 DEF parent

(* What the double loop leaves: a forest in which all pairs that match are   *)
(* together, and without gaps when what matches meets.                       *)
LEMMA ClassesAre ==
    ASSUME NEW n \in Nat, NEW matching, NEW s \in [1..n -> Int], NEW e \in [1..n -> Int]
    PROVE  /\ Forest(Parents(n, matching), n)
           /\ \A p \in Pairs(n) : p \in matching =>
                 Root(Parents(n, matching), p[1]) = Root(Parents(n, matching), p[2])
           /\ (\A p \in Pairs(n) : p \in matching => Meet(s, e, p[1], p[2])) =>
                 Gapless(Parents(n, matching), n, s, e)
<1> DEFINE N == Cardinality(Pairs(n))
           Met == \A p \in Pairs(n) : p \in matching => Meet(s, e, p[1], p[2])
<1>1. PICK f : After(f, N, n, matching) /\ Parents(n, matching) = f[N]
  BY ParentsAre
<1>2. /\ N \in Nat /\ \A k \in 1..N : Compared(n)[k] \in Pairs(n)
      /\ \A p \in Pairs(n) : \E k \in 1..N : Compared(n)[k] = p
      /\ \A p \in Pairs(n) : p[1] \in 1..n /\ p[2] \in 1..n
  BY ComparedAre
<1> DEFINE Good(k) == Joins(f[k], k, n, matching) /\ (Met => Gapless(f[k], n, s, e))
           Bad == {k \in 0..N : ~Good(k)}
<1> HIDE DEF N, Met
<1>3. Bad = {}
  <2> SUFFICES ASSUME Bad # {} PROVE FALSE
    OBVIOUS
  <2>1. PICK k \in Bad : \A l \in Bad : k <= l
    <3>1. Bad \subseteq Nat
      BY <1>2
    <3> HIDE DEF Bad
    <3> QED
      BY <3>1, LeastNumber
  <2>2. k \in 0..N /\ k \in Nat /\ ~Good(k)
    BY <1>2
  <2>3. CASE k = 0
    <3>1. f[0] = [i \in 1..n |-> i]
      BY <1>1, <1>2 DEF After
    <3>2. Forest(f[0], n) /\ \A i \in 1..n : Root(f[0], i) = i
      BY <3>1, NothingIsJoined
    <3>3. Joins(f[0], 0, n, matching)
      <4>1. \A l \in 1..0 : FALSE
        OBVIOUS
      <4> QED
        BY <3>2, <4>1 DEF Joins
    <3>4. Gapless(f[0], n, s, e)
      BY <3>2 DEF Gapless
    <3> QED
      BY <2>2, <2>3, <3>3, <3>4
  <2>4. CASE k # 0
    <3> DEFINE p == Compared(n)[k]
               before == f[k - 1]
    <3>1. k - 1 \in 0..N /\ ~(k <= k - 1) /\ k \in 1..N
      BY <1>2, <2>2, <2>4
    <3>2. k - 1 \notin Bad
      BY <2>1, <3>1
    <3>3. Joins(before, k - 1, n, matching) /\ (Met => Gapless(before, n, s, e))
      BY <3>1, <3>2
    <3>4. f[k] = IF p \in matching THEN Union(before, p[1], p[2]) ELSE before
      BY <1>1, <2>2, <2>4 DEF After
    <3>5. p \in Pairs(n) /\ p[1] \in 1..n /\ p[2] \in 1..n
      BY <1>2, <3>1
    <3>6. \A l \in 1..k : l = k \/ l \in 1..(k - 1)
      BY <2>2, <2>4
    <3>7. \A l \in 1..k : Compared(n)[l][1] \in 1..n /\ Compared(n)[l][2] \in 1..n
      <4>1. \A l \in 1..k : l \in 1..N
        BY <1>2, <2>2
      <4> QED
        BY <1>2, <4>1
    <3> HIDE DEF p, before
    <3>8. CASE p \notin matching
      <4>1. f[k] = before
        BY <3>4, <3>8
      <4>2. Joins(f[k], k, n, matching)
        BY <3>3, <3>6, <3>8, <4>1 DEF Joins, p
      <4> QED
        BY <2>2, <3>3, <4>1, <4>2
    <3>9. CASE p \in matching
      <4> DEFINE u == Union(before, p[1], p[2])
      <4>1. f[k] = u /\ Forest(before, n)
        BY <3>3, <3>4, <3>9 DEF Joins
      <4>2. /\ Forest(u, n)
            /\ \A x \in 1..n : Root(u, x) = IF Root(before, x) = Root(before, p[1])
                                            THEN Root(before, p[2]) ELSE Root(before, x)
        <5>1. ASSUME NEW parent, Forest(parent, n), NEW i \in 1..n, NEW j \in 1..n
              PROVE  /\ Forest(Union(parent, i, j), n)
                     /\ \A x \in 1..n : Root(Union(parent, i, j), x) =
                           IF Root(parent, x) = Root(parent, i) THEN Root(parent, j)
                           ELSE Root(parent, x)
          BY <5>1, UnionIs
        <5> HIDE DEF before, p
        <5> QED
          BY <3>5, <4>1, <5>1
      <4> HIDE DEF u
      <4>3. ASSUME NEW l \in 1..k, Compared(n)[l] \in matching
            PROVE  Root(u, Compared(n)[l][1]) = Root(u, Compared(n)[l][2])
        <5>1. CASE l = k
          <6>1. Compared(n)[l] = p
            BY <5>1 DEF p
          <6> QED
            BY <3>5, <4>2, <6>1
        <5>2. CASE l \in 1..(k - 1)
          <6>1. Root(before, Compared(n)[l][1]) = Root(before, Compared(n)[l][2])
            BY <3>3, <4>3, <5>2 DEF Joins
          <6> QED
            BY <3>7, <4>2, <6>1
        <5> QED
          BY <3>6, <5>1, <5>2
      <4>4. ASSUME Met PROVE Gapless(u, n, s, e)
        <5>1. Meet(s, e, p[1], p[2])
          BY <3>5, <3>9, <4>4 DEF Met
        <5> QED
          BY <3>3, <3>5, <4>1, <4>4, <5>1, UnionLeavesNoGap DEF u
      <4> QED
        BY <2>2, <4>1, <4>2, <4>3, <4>4 DEF Joins
    <3> QED
      BY <3>8, <3>9
  <2> QED
    BY <2>3, <2>4
<1>4. Good(N)
  BY <1>2, <1>3
<1>5. \A p \in Pairs(n) : p \in matching =>
         Root(f[N], p[1]) = Root(f[N], p[2])
  BY <1>2, <1>4 DEF Joins
<1> QED
  BY <1>1, <1>4, <1>5 DEF Joins, Met

-----------------------------------------------------------------------------
(* The classes of a forest, and the first member of each.                    *)
LEMMA MembersAre ==
    ASSUME NEW n \in Nat, NEW parent, Forest(parent, n)
    PROVE  /\ \A i \in 1..n : /\ Members(parent, i) \subseteq 1..n
                              /\ i \in Members(parent, i)
                              /\ IsFiniteSet(Members(parent, i))
                              /\ \A k \in 1..n : k \in Members(parent, i)
                                    <=> Root(parent, k) = Root(parent, i)
           /\ Firsts(parent) \subseteq 1..n /\ IsFiniteSet(Firsts(parent))
           /\ Cardinality(Firsts(parent)) <= n
           /\ \A i \in 1..n : \E m \in Firsts(parent) : Root(parent, m) = Root(parent, i)
           /\ \A i, j \in Firsts(parent) : Root(parent, i) = Root(parent, j) => i = j
<1>1. DOMAIN parent = 1..n /\ IsFiniteSet(1..n)
  BY IndicesAreFinite DEF Forest
<1>2. ASSUME NEW i \in 1..n
      PROVE  /\ Members(parent, i) \subseteq 1..n
             /\ i \in Members(parent, i)
             /\ IsFiniteSet(Members(parent, i))
             /\ \A k \in 1..n : k \in Members(parent, i) <=> Root(parent, k) = Root(parent, i)
  <2>1. /\ Members(parent, i) \subseteq 1..n
        /\ i \in Members(parent, i)
        /\ \A k \in 1..n : k \in Members(parent, i) <=> Root(parent, k) = Root(parent, i)
    BY <1>1 DEF Members
  <2> QED
    BY <1>1, <2>1, FS_Subset
<1>3. Firsts(parent) \subseteq 1..n
  BY <1>1 DEF Firsts
<1>4. \A i \in 1..n : i \in Firsts(parent) <=> \A k \in Members(parent, i) : i <= k
  BY <1>1 DEF Firsts
<1>5. IsFiniteSet(Firsts(parent)) /\ Cardinality(Firsts(parent)) <= n
  <2>1. Cardinality(1..n) = n
    BY IndicesAreFinite
  <2> QED
    BY <1>1, <1>3, <2>1, FS_Subset
<1>6. ASSUME NEW i \in 1..n
      PROVE  \E m \in Firsts(parent) : Root(parent, m) = Root(parent, i)
  <2>1. Members(parent, i) \subseteq Nat /\ Members(parent, i) # {}
    BY <1>2
  <2>2. PICK m \in Members(parent, i) : \A k \in Members(parent, i) : m <= k
    BY <2>1, LeastNumber
  <2>3. m \in 1..n /\ Root(parent, m) = Root(parent, i)
    BY <1>2, <2>2
  <2>4. \A k \in Members(parent, m) : m <= k
    BY <1>2, <2>2, <2>3
  <2> QED
    BY <1>4, <2>3, <2>4
<1>7. ASSUME NEW i \in Firsts(parent), NEW j \in Firsts(parent),
             Root(parent, i) = Root(parent, j)
      PROVE  i = j
  <2>1. i \in 1..n /\ j \in 1..n
    BY <1>3
  <2>2. i \in Members(parent, j) /\ j \in Members(parent, i)
    BY <1>2, <1>7, <2>1
  <2>3. i <= j /\ j <= i
    BY <1>4, <2>1, <2>2
  <2> QED
    BY <2>1, <2>3
<1> QED
  BY <1>2, <1>3, <1>5, <1>6, <1>7

(* What a merged finding has of the findings of a class.                     *)
MergesOf(f, fs, I) ==
    /\ \E r \in I :
          /\ f.criticDecision = fs[r].criticDecision
          /\ f.attribution = fs[r].attribution
          /\ f.category = fs[r].category
          /\ f.confidence = fs[r].confidence
          /\ f.start <= fs[r].start /\ fs[r].end <= f.end
    /\ \A i \in I :
          /\ f.start <= fs[i].start /\ fs[i].end <= f.end
          /\ fs[i].severity <= f.severity
          /\ fs[i].confidence <= f.confidence
          /\ fs[i].reviewers \subseteq f.reviewers
    /\ \E i \in I : f.start = fs[i].start
    /\ \E i \in I : f.end = fs[i].end
    /\ f.severity \in 1..5 /\ f.confidence \in 0..100
    /\ f.start \in Nat /\ f.category \in DOMAIN RegressionBase

(* Merging the findings of a class.                                          *)
LEMMA MergesPicked ==
    ASSUME NEW fs \in Seq(Finding), NEW I, I \subseteq DOMAIN fs, I # {}
    PROVE  MergesOf(MergeFindingCluster(Picked(fs, I)), fs, I)
<1> DEFINE cluster == Picked(fs, I)
           f == MergeFindingCluster(cluster)
<1>1. IsFiniteSet(I) /\ I \subseteq Int /\ \A i \in I : fs[i] \in Finding
  <2>1. Len(fs) \in Nat /\ DOMAIN fs = 1..Len(fs)
    OBVIOUS
  <2>2. IsFiniteSet(1..Len(fs))
    BY <2>1, IndicesAreFinite
  <2> QED
    BY <2>1, <2>2, FS_Subset
<1>2. /\ cluster \in Seq(Finding) /\ Len(cluster) = Cardinality(I)
      /\ \A k \in 1..Cardinality(I) : Ascending(I)[k] \in I
                                      /\ cluster[k] = fs[Ascending(I)[k]]
      /\ \A i \in I : \E k \in 1..Cardinality(I) : Ascending(I)[k] = i /\ cluster[k] = fs[i]
  BY <1>1, PickedIs
<1> HIDE DEF cluster
<1>3. DOMAIN cluster = 1..Cardinality(I) /\ Len(cluster) # 0
  BY <1>2
<1>4. Merges(f, cluster)
  BY <1>2, <1>3, MergeIs
<1> HIDE DEF f
<1>5. \A k \in DOMAIN cluster : \E i \in I : cluster[k] = fs[i]
  BY <1>2, <1>3
<1>6. \A i \in I : \E k \in DOMAIN cluster : cluster[k] = fs[i]
  BY <1>2, <1>3
<1>7. \E r \in I :
          /\ f.criticDecision = fs[r].criticDecision
          /\ f.attribution = fs[r].attribution
          /\ f.category = fs[r].category
          /\ f.confidence = fs[r].confidence
          /\ f.start <= fs[r].start /\ fs[r].end <= f.end
  BY <1>4, <1>5 DEF Merges
<1>8. \A i \in I :
          /\ f.start <= fs[i].start /\ fs[i].end <= f.end
          /\ fs[i].severity <= f.severity
          /\ fs[i].confidence <= f.confidence
          /\ fs[i].reviewers \subseteq f.reviewers
  BY <1>4, <1>6 DEF Merges
<1>9. (\E i \in I : f.start = fs[i].start) /\ (\E i \in I : f.end = fs[i].end)
  BY <1>4, <1>5 DEF Merges
<1> QED
  BY <1>4, <1>7, <1>8, <1>9 DEF Merges, MergesOf, f, cluster

(* Clustering and merging give one finding for every class.                  *)
MergesClasses(out, first, fs, matching) ==
    LET parent == Parents(Len(fs), matching)
    IN  /\ out = [c \in 1..Len(out) |-> out[c]] /\ Len(out) \in Nat
        /\ Len(out) <= Len(fs)
        /\ first \in [1..Len(out) -> 1..Len(fs)]
        /\ \A c \in 1..Len(out) : MergesOf(out[c], fs, Members(parent, first[c]))
        /\ \A c, d \in 1..Len(out) :
              Root(parent, first[c]) = Root(parent, first[d]) => c = d
        /\ \A i \in 1..Len(fs) : \E c \in 1..Len(out) :
              Root(parent, first[c]) = Root(parent, i)

(* clusterFileFindings() returns one merged finding for every class, in      *)
(* order.                                                                    *)
LEMMA MergedAre ==
    ASSUME NEW fs \in Seq(Finding), NEW matching
    PROVE  \E first : MergesClasses(Merged(Clusters(fs, matching)), first, fs, matching)
<1> DEFINE n == Len(fs)
           parent == Parents(n, matching)
           F == Firsts(parent)
           N == Cardinality(F)
           first == [c \in 1..N |-> Ascending(F)[c]]
           out == Merged(Clusters(fs, matching))
<1>1. n \in Nat /\ DOMAIN fs = 1..n
  OBVIOUS
<1>2. Forest(parent, n)
  <2>1. [i \in 1..n |-> 0] \in [1..n -> Int]
    OBVIOUS
  <2> QED
    BY <1>1, <2>1, ClassesAre
<1>3. out = [c \in 1..N |-> MergeFindingCluster(Picked(fs, Members(parent, first[c])))]
  BY DEF Merged, Clusters
<1> HIDE DEF parent, n
<1>4. /\ F \subseteq 1..n /\ IsFiniteSet(F) /\ N <= n
      /\ \A i \in 1..n : \E m \in F : Root(parent, m) = Root(parent, i)
      /\ \A i, j \in F : Root(parent, i) = Root(parent, j) => i = j
      /\ \A i \in 1..n : Members(parent, i) \subseteq 1..n /\ Members(parent, i) # {}
  BY <1>1, <1>2, MembersAre
<1> HIDE DEF F
<1>5. /\ N \in Nat /\ \A c \in 1..N : first[c] \in F
      /\ \A c, d \in 1..N : c < d => first[c] < first[d]
      /\ \A i \in F : \E c \in 1..N : first[c] = i
  <2>1. F \subseteq Int
    BY <1>4
  <2>2. /\ N \in Nat /\ \A c \in 1..N : Ascending(F)[c] \in F
        /\ \A c, d \in 1..N : c < d => Ascending(F)[c] < Ascending(F)[d]
        /\ \A i \in F : \E c \in 1..N : Ascending(F)[c] = i
    BY <1>4, <2>1, AscendingLists
  <2> HIDE DEF N
  <2> QED
    BY <2>2
<1>6. first = [c \in 1..N |-> first[c]]
  OBVIOUS
<1> HIDE DEF first, N
<1>7. first \in [1..N -> 1..n]
  BY <1>4, <1>5, <1>6
<1>8. ASSUME NEW c \in 1..N
      PROVE  MergesOf(out[c], fs, Members(parent, first[c]))
  <2>1. out[c] = MergeFindingCluster(Picked(fs, Members(parent, first[c])))
    BY <1>3
  <2>2. first[c] \in 1..n
    BY <1>7
  <2>3. Members(parent, first[c]) \subseteq DOMAIN fs /\ Members(parent, first[c]) # {}
    BY <1>1, <1>4, <2>2
  <2> QED
    BY <2>1, <2>3, MergesPicked
<1>9. Len(out) = N /\ out = [c \in 1..N |-> out[c]]
  BY <1>3, <1>5
<1>10. ASSUME NEW c \in 1..N, NEW d \in 1..N, Root(parent, first[c]) = Root(parent, first[d])
       PROVE  c = d
  <2>1. first[c] = first[d]
    BY <1>4, <1>5, <1>10
  <2>2. first[c] \in Nat /\ c \in Nat /\ d \in Nat
    BY <1>7
  <2>3. ~(c < d) /\ ~(d < c)
    BY <1>5, <2>1, <2>2
  <2> QED
    BY <2>2, <2>3
<1>11. \A i \in 1..n : \E c \in 1..N : Root(parent, first[c]) = Root(parent, i)
  BY <1>4, <1>5
<1> HIDE DEF out
<1>12. MergesClasses(out, first, fs, matching)
  BY <1>4, <1>5, <1>7, <1>8, <1>9, <1>10, <1>11 DEF MergesClasses, parent, n
<1> QED
  BY <1>12 DEF out

-----------------------------------------------------------------------------
(* What the ranking reads of a finding are numbers.                          *)
Keyed(f) ==
    /\ f.severity \in 1..5 /\ f.confidence \in 0..100
    /\ f.start \in Nat /\ f.category \in DOMAIN RegressionBase

(* The composite score of a finding that passed the schema is a number.      *)
LEMMA ScoreIsNumber ==
    ASSUME NEW f, Keyed(f)
    PROVE  CompositeScore(f) \in Int
<1>1. SeverityScore(f) \in Int
  BY DEF SeverityScore, Keyed
<1>2. SecurityImpact(f) \in Int
  <2>1. <<20, 40, 60, 85, 100>>[f.severity] \in Int
    BY DEF Keyed
  <2> QED
    BY <2>1 DEF SecurityImpact
<1>3. EvidenceStrength(f) \in Int
  <2> DEFINE n == Len(f.evidence)
             v == 5 + (IF n = 1 THEN 40 ELSE IF n = 2 THEN 70 ELSE 90)
                    + (IF \A i \in 1..n : f.evidence[i].file = f.evidence[1].file
                       THEN 0 ELSE 10)
  <2>1. v \in Int
    OBVIOUS
  <2>2. EvidenceStrength(f) = IF n = 0 THEN 0 ELSE MinOf({100, v})
    BY DEF EvidenceStrength
  <2> HIDE DEF v, n
  <2>3. MinOf({100, v}) \in {100, v}
    <3>1. \E x \in {100, v} : \A y \in {100, v} : x <= y
      BY <2>1
    <3> QED
      BY <3>1 DEF MinOf
  <2> QED
    BY <2>1, <2>2, <2>3
<1>4. RegressionProbability(f) \in Int
  <2> DEFINE p == RegressionBase[f.category] + (IF BlastRadius >= 50 THEN 15 ELSE 0)
  <2>1. \A c \in DOMAIN RegressionBase : RegressionBase[c] \in Int
    BY DEF RegressionBase
  <2>2. p \in Int
    BY <2>1 DEF Keyed
  <2>3. RegressionProbability(f) = IF p > 100 THEN 100 ELSE p
    BY DEF RegressionProbability
  <2> HIDE DEF p
  <2> QED
    BY <2>2, <2>3
<1>5. f.confidence \in Int /\ BlastRadius \in Int
  BY FindingsAssumption DEF Keyed
<1> QED
  BY <1>1, <1>2, <1>3, <1>4, <1>5 DEF CompositeScore

(* The comparison of two findings is a lexicographic one: a strict weak      *)
(* order.                                                                    *)
LEMMA RanksBeforeIs ==
    ASSUME NEW f, NEW g
    PROVE  RanksBefore(f, g) <=>
              \/ CompositeScore(f) > CompositeScore(g)
              \/ CompositeScore(f) = CompositeScore(g) /\ f.severity > g.severity
              \/ CompositeScore(f) = CompositeScore(g) /\ f.severity = g.severity
                 /\ f.confidence > g.confidence
              \/ CompositeScore(f) = CompositeScore(g) /\ f.severity = g.severity
                 /\ f.confidence = g.confidence /\ -f.start > -g.start
<1> DEFINE F == <<CompositeScore(f), f.severity, f.confidence, -f.start>>
           G == <<CompositeScore(g), g.severity, g.confidence, -g.start>>
           At(k) == F[k] > G[k] /\ \A l \in 1..(k - 1) : F[l] = G[l]
<1>1. RanksBefore(f, g) <=> \E k \in 1..4 : At(k)
  BY DEF RanksBefore
<1>2. At(1) <=> F[1] > G[1]
  OBVIOUS
<1>3. At(2) <=> F[2] > G[2] /\ F[1] = G[1]
  <2>1. \A l : l \in 1..(2 - 1) <=> l = 1
    OBVIOUS
  <2> HIDE DEF F, G
  <2> QED
    BY <2>1
<1>4. At(3) <=> F[3] > G[3] /\ F[1] = G[1] /\ F[2] = G[2]
  <2>1. \A l : l \in 1..(3 - 1) <=> l = 1 \/ l = 2
    OBVIOUS
  <2> HIDE DEF F, G
  <2> QED
    BY <2>1
<1>5. At(4) <=> F[4] > G[4] /\ F[1] = G[1] /\ F[2] = G[2] /\ F[3] = G[3]
  <2>1. \A l : l \in 1..(4 - 1) <=> l = 1 \/ l = 2 \/ l = 3
    OBVIOUS
  <2> HIDE DEF F, G
  <2> QED
    BY <2>1
<1>6. \A k : k \in 1..4 <=> k = 1 \/ k = 2 \/ k = 3 \/ k = 4
  OBVIOUS
<1>7. RanksBefore(f, g) <=> At(1) \/ At(2) \/ At(3) \/ At(4)
  <2> HIDE DEF At
  <2> QED
    BY <1>1, <1>6
<1>8. /\ F[1] = CompositeScore(f) /\ F[2] = f.severity
      /\ F[3] = f.confidence /\ F[4] = -f.start
      /\ G[1] = CompositeScore(g) /\ G[2] = g.severity
      /\ G[3] = g.confidence /\ G[4] = -g.start
  OBVIOUS
<1> HIDE DEF At, F, G
<1> QED
  BY <1>2, <1>3, <1>4, <1>5, <1>7, <1>8

(* compareRankedFindings() is consistent, as Array.sort asks of it.          *)
LEMMA WeakOrder ==
    ASSUME NEW f, NEW g, NEW h, Keyed(f), Keyed(g), Keyed(h)
    PROVE  /\ ~RanksBefore(f, f)
           /\ RanksBefore(f, g) => ~RanksBefore(g, f)
           /\ ~RanksBefore(f, g) /\ ~RanksBefore(g, h) => ~RanksBefore(f, h)
<1>1. /\ CompositeScore(f) \in Int /\ CompositeScore(g) \in Int /\ CompositeScore(h) \in Int
  BY ScoreIsNumber
<1>2. /\ f.severity \in Int /\ f.confidence \in Int /\ f.start \in Int
      /\ g.severity \in Int /\ g.confidence \in Int /\ g.start \in Int
      /\ h.severity \in Int /\ h.confidence \in Int /\ h.start \in Int
  BY DEF Keyed
<1>3. ~RanksBefore(f, f)
  BY <1>1, <1>2, RanksBeforeIs
<1>4. RanksBefore(f, g) => ~RanksBefore(g, f)
  BY <1>1, <1>2, RanksBeforeIs
<1>5. ~RanksBefore(f, g) /\ ~RanksBefore(g, h) => ~RanksBefore(f, h)
  BY <1>1, <1>2, RanksBeforeIs
<1> QED
  BY <1>3, <1>4, <1>5

(* Sorting lists every finding, and none after one that it ranks before.     *)
LEMMA SortIs ==
    ASSUME NEW T, \A f \in T : Keyed(f), NEW fs \in Seq(T)
    PROVE  /\ SortFindings(fs) \in Seq(T) /\ Len(SortFindings(fs)) = Len(fs)
           /\ \A i \in DOMAIN fs : \E k \in DOMAIN fs : SortFindings(fs)[k] = fs[i]
           /\ \A k \in DOMAIN fs : \E i \in DOMAIN fs : SortFindings(fs)[k] = fs[i]
           /\ \A j, k \in DOMAIN fs : j < k =>
                 ~RanksBefore(SortFindings(fs)[k], SortFindings(fs)[j])
<1> DEFINE n == Len(fs)
           R == Ranking(fs)
           order == InOrder(DOMAIN fs, R)
           s == SortFindings(fs)
<1>1. n \in Nat /\ DOMAIN fs = 1..n /\ \A i \in 1..n : fs[i] \in T /\ Keyed(fs[i])
  OBVIOUS
<1>2. IsFiniteSet(1..n) /\ Cardinality(1..n) = n
  BY <1>1, IndicesAreFinite
<1> DEFINE B(i, j) == RanksBefore(fs[i], fs[j])
<1>3. \A i, j, k \in 1..n : ~B(i, i) /\ (B(i, j) => ~B(j, i))
                            /\ (~B(i, j) /\ ~B(j, k) => ~B(i, k))
  BY <1>1, WeakOrder
<1>4. \A i, j \in 1..n : <<i, j>> \in R <=> B(i, j) \/ (i < j /\ ~B(j, i))
  BY <1>1 DEF Ranking
<1>5. s = [k \in 1..n |-> fs[order[k]]] /\ order = InOrder(1..n, R)
  BY <1>1 DEF SortFindings
<1> HIDE DEF R, order, s, B, n
<1>6. Orders(R, 1..n)
  <2>1. \A i \in 1..n : <<i, i>> \notin R
    BY <1>1, <1>3, <1>4
  <2>2. ASSUME NEW i \in 1..n, NEW j \in 1..n
        PROVE  i = j \/ <<i, j>> \in R \/ <<j, i>> \in R
    <3>1. i = j \/ i < j \/ j < i
      BY <1>1
    <3>2. i < j => <<i, j>> \in R \/ <<j, i>> \in R
      BY <1>4
    <3>3. j < i => <<i, j>> \in R \/ <<j, i>> \in R
      BY <1>4
    <3> QED
      BY <3>1, <3>2, <3>3
  <2>3. ASSUME NEW i \in 1..n, NEW j \in 1..n, NEW k \in 1..n, <<i, j>> \in R, <<j, k>> \in R
        PROVE  <<i, k>> \in R
    <3>1. B(i, j) \/ (i < j /\ ~B(j, i))
      BY <1>4, <2>3
    <3>2. B(j, k) \/ (j < k /\ ~B(k, j))
      BY <1>4, <2>3
    <3>3. B(i, k) \/ (i < k /\ ~B(k, i))
      BY <1>1, <1>3, <3>1, <3>2
    <3> QED
      BY <1>4, <3>3
  <2> QED
    BY <2>1, <2>2, <2>3 DEF Orders
<1>7. /\ \A k \in 1..n : order[k] \in 1..n
      /\ \A j, k \in 1..n : j < k => <<order[j], order[k]>> \in R
      /\ \A i \in 1..n : \E k \in 1..n : order[k] = i
  <2>1. ASSUME NEW S, IsFiniteSet(S), Orders(R, S)
        PROVE  /\ Lists(InOrder(S, R), S, R)
               /\ \A x \in S : \E i \in 1..Cardinality(S) : InOrder(S, R)[i] = x
    BY <2>1, InOrderLists
  <2>2. /\ Lists(order, 1..n, R)
        /\ \A x \in 1..n : \E i \in 1..n : order[i] = x
    BY <1>2, <1>5, <1>6, <2>1
  <2> QED
    BY <1>2, <2>2 DEF Lists
<1>8. \A k \in 1..n : s[k] = fs[order[k]] /\ s[k] \in T
  BY <1>1, <1>5, <1>7
<1>9. s \in Seq(T) /\ Len(s) = n
  <2>1. s \in [1..n -> T]
    BY <1>5, <1>8
  <2> QED
    BY <1>1, <2>1, SequenceOf
<1>10. ASSUME NEW j \in 1..n, NEW k \in 1..n, j < k PROVE ~RanksBefore(s[k], s[j])
  <2>1. order[j] \in 1..n /\ order[k] \in 1..n /\ <<order[j], order[k]>> \in R
    BY <1>7, <1>10
  <2>2. ~B(order[k], order[j])
    BY <1>3, <1>4, <2>1
  <2> QED
    BY <1>8, <2>2 DEF B
<1>11. \A i \in 1..n : \E k \in 1..n : s[k] = fs[i]
  BY <1>7, <1>8
<1>12. \A k \in 1..n : \E i \in 1..n : s[k] = fs[i]
  BY <1>7, <1>8
<1> QED
  BY <1>1, <1>9, <1>10, <1>11, <1>12 DEF s, n

(* The elements at some indices of a sequence, in their order.               *)
LEMMA PickedFrom ==
    ASSUME NEW T, NEW s \in Seq(T), NEW I, I \subseteq DOMAIN s
    PROVE  LET t == Picked(s, I)
           IN  /\ t \in Seq(T) /\ Len(t) = Cardinality(I) /\ Len(t) <= Len(s)
               /\ \A k \in DOMAIN t : \E i \in I : t[k] = s[i]
               /\ \A i \in I : \E k \in DOMAIN t : t[k] = s[i]
               /\ \A j, k \in DOMAIN t : j < k =>
                     \E a, b \in I : a < b /\ t[j] = s[a] /\ t[k] = s[b]
<1> DEFINE n == Len(s)
           t == Picked(s, I)
<1>1. n \in Nat /\ DOMAIN s = 1..n /\ \A i \in 1..n : s[i] \in T
  OBVIOUS
<1>2. IsFiniteSet(1..n) /\ Cardinality(1..n) = n
  BY <1>1, IndicesAreFinite
<1>3. /\ IsFiniteSet(I) /\ I \subseteq Int /\ Cardinality(I) <= n
      /\ \A i \in I : s[i] \in T
  BY <1>1, <1>2, FS_Subset
<1>4. /\ Cardinality(I) \in Nat
      /\ \A j, k \in 1..Cardinality(I) : j < k => Ascending(I)[j] < Ascending(I)[k]
  BY <1>3, AscendingLists
<1>5. /\ t \in Seq(T) /\ Len(t) = Cardinality(I)
      /\ \A k \in 1..Cardinality(I) : Ascending(I)[k] \in I /\ t[k] = s[Ascending(I)[k]]
      /\ \A i \in I : \E k \in 1..Cardinality(I) : Ascending(I)[k] = i /\ t[k] = s[i]
  <2>1. t \in Seq(T) /\ Len(t) = Cardinality(I)
    BY <1>3, PickedIs
  <2>2. \A k \in 1..Cardinality(I) : Ascending(I)[k] \in I /\ t[k] = s[Ascending(I)[k]]
    BY <1>3, PickedIs
  <2>3. \A i \in I : \E k \in 1..Cardinality(I) : Ascending(I)[k] = i /\ t[k] = s[i]
    BY <1>3, PickedIs
  <2> QED
    BY <2>1, <2>2, <2>3
<1> HIDE DEF t, n
<1>6. DOMAIN t = 1..Cardinality(I)
  BY <1>4, <1>5
<1>7. \A j, k \in DOMAIN t : j < k => \E a, b \in I : a < b /\ t[j] = s[a] /\ t[k] = s[b]
  BY <1>4, <1>5, <1>6
<1> QED
  BY <1>3, <1>5, <1>6, <1>7 DEF t, n

(* What ranking and truncating keeps of a list.                              *)
TruncationIs(fs, limit, out) ==
    /\ DOMAIN out = 1..Len(out) /\ Len(out) \in Nat /\ Len(out) <= Len(fs)
    /\ \A j \in DOMAIN out : \E i \in DOMAIN fs : out[j] = fs[i]
    /\ Len(out) <= limit \/ \A j \in DOMAIN out : IsCritical(out[j])
    /\ \A i \in DOMAIN fs :
          \/ fs[i].severity < MinSeverity
          \/ Contains(out, fs[i])
          \/ /\ ~IsCritical(fs[i]) /\ Len(out) >= limit
             /\ \A j \in DOMAIN out : IsCritical(out[j]) \/ ~RanksBefore(fs[i], out[j])

(* rankAndTruncateFindings() drops only what ranks lowest.                   *)
LEMMA TruncationKeeps ==
    ASSUME NEW T, \A f \in T : Keyed(f), NEW fs \in Seq(T), NEW limit \in Nat
    PROVE  TruncationIs(fs, limit, RankAndTruncateFindings(fs, MinSeverity, limit))
<1> DEFINE kept == Filtered(fs, LAMBDA f : f.severity >= MinSeverity)
           sorted == SortFindings(kept)
           criticals == Filtered(sorted, IsCritical)
           others == Filtered(sorted, LAMBDA f : ~IsCritical(f))
           slots == AvailableSlots(criticals, limit)
           first == FirstOf(others, slots)
           both == criticals \o first
           out == SortFindings(both)
<1>1. out = RankAndTruncateFindings(fs, MinSeverity, limit)
  BY DEF RankAndTruncateFindings
<1>2. /\ kept \in Seq(T) /\ Len(kept) <= Len(fs)
      /\ \A k \in DOMAIN kept : \E i \in DOMAIN fs : kept[k] = fs[i]
      /\ \A i \in DOMAIN fs : fs[i].severity >= MinSeverity =>
            \E k \in DOMAIN kept : kept[k] = fs[i]
  <2> DEFINE I == {i \in DOMAIN fs : fs[i].severity >= MinSeverity}
  <2>1. kept = Picked(fs, I) /\ I \subseteq DOMAIN fs
    BY DEF Filtered
  <2>2. \A i \in DOMAIN fs : fs[i].severity >= MinSeverity => i \in I
    OBVIOUS
  <2> HIDE DEF I, kept
  <2> QED
    BY <2>1, <2>2, PickedFrom
<1>3. /\ sorted \in Seq(T) /\ Len(sorted) = Len(kept)
      /\ \A i \in DOMAIN kept : \E k \in DOMAIN kept : sorted[k] = kept[i]
      /\ \A k \in DOMAIN kept : \E i \in DOMAIN kept : sorted[k] = kept[i]
      /\ \A j, k \in DOMAIN kept : j < k => ~RanksBefore(sorted[k], sorted[j])
  <2> HIDE DEF kept
  <2> QED
    BY <1>2, SortIs
<1> HIDE DEF kept, sorted
<1>4. DOMAIN sorted = DOMAIN kept
  BY <1>2, <1>3
<1> DEFINE C == {i \in DOMAIN sorted : IsCritical(sorted[i])}
           O == {i \in DOMAIN sorted : ~IsCritical(sorted[i])}
<1>5. /\ criticals = Picked(sorted, C) /\ others = Picked(sorted, O)
      /\ C \subseteq DOMAIN sorted /\ O \subseteq DOMAIN sorted
  BY DEF Filtered
<1>6. /\ \A i \in DOMAIN sorted : i \in C <=> IsCritical(sorted[i])
      /\ \A i \in DOMAIN sorted : i \in O <=> ~IsCritical(sorted[i])
  OBVIOUS
<1> HIDE DEF C, O, criticals, others
<1>7. /\ criticals \in Seq(T) /\ Len(criticals) = Cardinality(C)
      /\ \A k \in DOMAIN criticals : \E i \in C : criticals[k] = sorted[i]
      /\ \A i \in C : \E k \in DOMAIN criticals : criticals[k] = sorted[i]
  BY <1>3, <1>5, PickedFrom
<1>8. /\ others \in Seq(T) /\ Len(others) = Cardinality(O)
      /\ \A k \in DOMAIN others : \E i \in O : others[k] = sorted[i]
      /\ \A i \in O : \E k \in DOMAIN others : others[k] = sorted[i]
      /\ \A j, k \in DOMAIN others : j < k =>
            \E a, b \in O : a < b /\ others[j] = sorted[a] /\ others[k] = sorted[b]
  BY <1>3, <1>5, PickedFrom
<1>9. Len(criticals) \in Nat /\ Len(others) \in Nat
  BY <1>7, <1>8
<1>10. Len(criticals) + Len(others) = Len(sorted)
  <2>1. Len(sorted) \in Nat /\ DOMAIN sorted = 1..Len(sorted)
    BY <1>3
  <2>2. IsFiniteSet(DOMAIN sorted) /\ Cardinality(DOMAIN sorted) = Len(sorted)
    BY <2>1, IndicesAreFinite
  <2>3. IsFiniteSet(C) /\ IsFiniteSet(O)
    BY <1>5, <2>2, FS_Subset
  <2>4. C \cup O = DOMAIN sorted /\ C \cap O = {}
    BY <1>5, <1>6
  <2>5. Cardinality(C \cup O) = Cardinality(C) + Cardinality(O) - Cardinality(C \cap O)
    BY <2>3, FS_Union
  <2>6. Cardinality(C \cap O) = 0
    BY <2>4, FS_EmptySet
  <2> QED
    BY <1>7, <1>8, <1>9, <2>2, <2>4, <2>5, <2>6
<1>11. /\ slots \in Nat /\ Len(criticals) + slots >= limit
       /\ slots = 0 \/ Len(criticals) + slots = limit
  <2> DEFINE left == limit - Len(criticals)
  <2>1. left \in Int
    BY <1>9
  <2>2. slots = MaxOf({0, left})
    BY DEF AvailableSlots
  <2> HIDE DEF left, slots
  <2>3. /\ MaxOf({0, left}) \in {0, left}
        /\ 0 <= MaxOf({0, left}) /\ left <= MaxOf({0, left})
    <3>1. 0 \in Int
      OBVIOUS
    <3> QED
      BY ONLY <2>1, <3>1, LargerIs
  <2> QED
    BY <1>9, <2>1, <2>2, <2>3 DEF left
<1> HIDE DEF slots
<1>12. /\ first \in Seq(T) /\ Len(first) <= Len(others) /\ Len(first) <= slots
       /\ Len(first) = slots \/ Len(first) = Len(others)
       /\ \A k \in DOMAIN first : k \in DOMAIN others /\ first[k] = others[k]
  <2> DEFINE m == IF slots < Len(others) THEN slots ELSE Len(others)
  <2>1. first = SubSeq(others, 1, m) /\ m \in 0..Len(others) /\ m <= slots
        /\ (m = slots \/ m = Len(others))
    BY <1>9, <1>11 DEF FirstOf
  <2> HIDE DEF m, first
  <2>2. first \in Seq(T) /\ Len(first) = m /\ \A k \in 1..m : first[k] = others[k]
    BY <1>8, <2>1
  <2> QED
    BY <1>8, <1>9, <2>1, <2>2
<1> HIDE DEF first
<1>13. /\ both \in Seq(T) /\ Len(both) = Len(criticals) + Len(first)
       /\ \A k \in DOMAIN criticals : k \in DOMAIN both /\ both[k] = criticals[k]
       /\ \A k \in DOMAIN first : Len(criticals) + k \in DOMAIN both
                                  /\ both[Len(criticals) + k] = first[k]
       /\ \A k \in DOMAIN both : \/ \E j \in DOMAIN criticals : both[k] = criticals[j]
                                 \/ \E j \in DOMAIN first : both[k] = first[j]
  <2>1. both \in Seq(T) /\ Len(both) = Len(criticals) + Len(first)
    <3>1. criticals \in Seq(T) /\ first \in Seq(T)
      BY <1>7, <1>12
    <3> QED
      BY <3>1
  <2>2. \A k \in DOMAIN criticals : k \in DOMAIN both /\ both[k] = criticals[k]
    BY <1>7, <1>12
  <2>3. \A k \in DOMAIN first : Len(criticals) + k \in DOMAIN both
                                /\ both[Len(criticals) + k] = first[k]
    BY <1>7, <1>12
  <2>4. ASSUME NEW k \in DOMAIN both
        PROVE  \/ \E j \in DOMAIN criticals : both[k] = criticals[j]
               \/ \E j \in DOMAIN first : both[k] = first[j]
    <3>1. CASE k <= Len(criticals)
      BY <1>7, <1>12, <2>1, <2>2, <3>1
    <3>2. CASE ~(k <= Len(criticals))
      <4>1. k - Len(criticals) \in DOMAIN first /\ Len(criticals) + (k - Len(criticals)) = k
        BY <1>7, <1>9, <1>12, <2>1, <3>2
      <4> QED
        BY <2>3, <4>1
    <3> QED
      BY <3>1, <3>2
  <2> QED
    BY <2>1, <2>2, <2>3, <2>4
<1> HIDE DEF both
<1>14. /\ out \in Seq(T) /\ Len(out) = Len(both)
       /\ \A i \in DOMAIN both : \E k \in DOMAIN both : out[k] = both[i]
       /\ \A k \in DOMAIN both : \E i \in DOMAIN both : out[k] = both[i]
  BY <1>13, SortIs
<1> HIDE DEF out
<1>15. DOMAIN out = DOMAIN both
  BY <1>13, <1>14
<1>16. \A f : Contains(out, f) <=> \E k \in DOMAIN out : out[k] = f
  <2>1. DOMAIN out = 1..Len(out)
    BY <1>14
  <2> QED
    BY <2>1 DEF Contains
<1>17. ASSUME NEW k \in DOMAIN out
       PROVE  \/ \E i \in C : out[k] = sorted[i]
              \/ \E j \in DOMAIN first : out[k] = others[j]
  <2>1. PICK i \in DOMAIN both : out[k] = both[i]
    BY <1>14, <1>15, <1>17
  <2>2. CASE \E j \in DOMAIN criticals : both[i] = criticals[j]
    BY <1>7, <2>1, <2>2
  <2>3. CASE \E j \in DOMAIN first : both[i] = first[j]
    BY <1>12, <2>1, <2>3
  <2> QED
    BY <1>13, <2>2, <2>3
<1>18. DOMAIN out = 1..Len(out) /\ Len(out) \in Nat /\ Len(out) <= Len(fs)
  <2>1. Len(fs) \in Nat /\ Len(kept) \in Nat /\ Len(first) \in Nat
    BY <1>2, <1>12
  <2> QED
    BY <1>2, <1>3, <1>9, <1>10, <1>12, <1>13, <1>14, <2>1
<1>19. \A j \in DOMAIN out : \E i \in DOMAIN fs : out[j] = fs[i]
  <2> SUFFICES ASSUME NEW j \in DOMAIN out PROVE \E i \in DOMAIN fs : out[j] = fs[i]
    OBVIOUS
  <2>1. \E i \in DOMAIN sorted : out[j] = sorted[i]
    <3>1. CASE \E i \in C : out[j] = sorted[i]
      BY <1>5, <3>1
    <3>2. CASE \E l \in DOMAIN first : out[j] = others[l]
      <4>1. \E l \in DOMAIN others : out[j] = others[l]
        BY <1>12, <3>2
      <4> QED
        BY <1>5, <1>8, <4>1
    <3> QED
      BY <1>17, <3>1, <3>2
  <2> QED
    BY <1>2, <1>3, <1>4, <2>1
<1>20. Len(out) <= limit \/ \A j \in DOMAIN out : IsCritical(out[j])
  <2>1. CASE slots = 0
    <3>1. DOMAIN first = {}
      BY <1>12, <2>1
    <3> QED
      BY <1>5, <1>6, <1>17, <3>1
  <2>2. CASE Len(criticals) + slots = limit
    <3>1. Len(first) \in Nat
      BY <1>12
    <3> QED
      BY <1>9, <1>11, <1>12, <1>13, <1>14, <2>2, <3>1
  <2> QED
    BY <1>11, <2>1, <2>2
<1>21. ASSUME NEW i \in DOMAIN fs, ~(fs[i].severity < MinSeverity), ~Contains(out, fs[i])
       PROVE  /\ ~IsCritical(fs[i]) /\ Len(out) >= limit
              /\ \A j \in DOMAIN out : IsCritical(out[j]) \/ ~RanksBefore(fs[i], out[j])
  <2>1. PICK k \in DOMAIN sorted : sorted[k] = fs[i]
    <3>1. fs[i].severity >= MinSeverity
      <4>1. Keyed(fs[i])
        OBVIOUS
      <4> QED
        BY <1>21, <4>1, TriageAssumption DEF Keyed
    <3> QED
      BY <1>2, <1>3, <1>4, <3>1
  <2>2. ~IsCritical(fs[i])
    <3> SUFFICES ASSUME IsCritical(fs[i]) PROVE FALSE
      OBVIOUS
    <3>1. k \in C
      BY <1>6, <2>1
    <3>2. PICK l \in DOMAIN criticals : criticals[l] = fs[i]
      BY <1>7, <2>1, <3>1
    <3>3. \E l2 \in DOMAIN out : out[l2] = fs[i]
      BY <1>13, <1>14, <1>15, <3>2
    <3> QED
      BY <1>16, <1>21, <3>3
  <2>3. PICK m \in DOMAIN others : others[m] = fs[i]
    BY <1>6, <1>8, <2>1, <2>2
  <2>4. m \notin DOMAIN first
    <3> SUFFICES ASSUME m \in DOMAIN first PROVE FALSE
      OBVIOUS
    <3>1. \E l \in DOMAIN out : out[l] = fs[i]
      BY <1>12, <1>13, <1>14, <1>15, <2>3
    <3> QED
      BY <1>16, <1>21, <3>1
  <2>5. /\ m \in Nat /\ Len(first) < m /\ Len(first) = slots
        /\ DOMAIN first = 1..Len(first) /\ Len(first) \in Nat
    BY <1>8, <1>9, <1>12, <2>4
  <2>6. Len(out) >= limit
    BY <1>9, <1>11, <1>13, <1>14, <2>5
  <2>7. ASSUME NEW j \in DOMAIN out PROVE IsCritical(out[j]) \/ ~RanksBefore(fs[i], out[j])
    <3>1. CASE \E l \in C : out[j] = sorted[l]
      BY <1>5, <1>6, <3>1
    <3>2. CASE \E l \in DOMAIN first : out[j] = others[l]
      <4>1. PICK l \in DOMAIN first : out[j] = others[l]
        BY <3>2
      <4>2. l < m /\ l \in DOMAIN others
        BY <1>12, <2>5, <4>1
      <4>3. PICK a \in O, b \in O : a < b /\ others[l] = sorted[a] /\ others[m] = sorted[b]
        BY <1>8, <4>2
      <4>4. ~RanksBefore(sorted[b], sorted[a])
        BY <1>3, <1>4, <1>5, <4>3
      <4> QED
        BY <2>3, <4>1, <4>3, <4>4
    <3> QED
      BY <1>17, <3>1, <3>2
  <2> QED
    BY <2>2, <2>6, <2>7
<1> QED
  BY <1>1, <1>18, <1>19, <1>20, <1>21 DEF TruncationIs

-----------------------------------------------------------------------------
(* What consolidation makes of a list.                                       *)
LEMMA ConsolidationIs ==
    ASSUME NEW fs \in Seq(Finding), NEW matching
    PROVE  LET out == Merged(Clusters(fs, matching))
               T == {out[c] : c \in DOMAIN out}
           IN  /\ out \in Seq(T) /\ Len(out) <= Len(fs)
               /\ \A f \in T : Keyed(f)
               /\ \A c \in DOMAIN out : \E I \in SUBSET (DOMAIN fs) : MergesOf(out[c], fs, I)
<1> DEFINE out == Merged(Clusters(fs, matching))
           T == {out[c] : c \in DOMAIN out}
           parent == Parents(Len(fs), matching)
<1>1. PICK first : MergesClasses(out, first, fs, matching)
  BY MergedAre
<1> HIDE DEF out
<1>2. out = [c \in 1..Len(out) |-> out[c]] /\ Len(out) \in Nat /\ Len(out) <= Len(fs)
  BY <1>1 DEF MergesClasses
<1>3. DOMAIN out = 1..Len(out)
  BY <1>2
<1>4. out \in Seq(T)
  <2>1. out \in [1..Len(out) -> T]
    BY <1>2, <1>3
  <2> QED
    BY <1>2, <2>1, SequenceOf
<1>5. ASSUME NEW c \in DOMAIN out
      PROVE  \E I \in SUBSET (DOMAIN fs) : MergesOf(out[c], fs, I)
  <2>1. MergesOf(out[c], fs, Members(parent, first[c])) /\ first[c] \in 1..Len(fs)
    BY <1>1, <1>3 DEF MergesClasses
  <2>2. Len(fs) \in Nat /\ DOMAIN fs = 1..Len(fs)
    OBVIOUS
  <2>3. Forest(parent, Len(fs))
    <3>1. [i \in 1..Len(fs) |-> 0] \in [1..Len(fs) -> Int]
      OBVIOUS
    <3> QED
      BY <2>2, <3>1, ClassesAre
  <2> HIDE DEF parent
  <2>4. Members(parent, first[c]) \subseteq DOMAIN fs
    BY <2>1, <2>2, <2>3, MembersAre
  <2> QED
    BY <2>1, <2>4
<1>6. \A c \in DOMAIN out : Keyed(out[c])
  BY <1>5 DEF MergesOf, Keyed
<1> QED
  BY <1>2, <1>4, <1>5, <1>6 DEF out

(* What deduplication leaves for the critic is no longer than what came.     *)
LEMMA CandidatesAreFew ==
    ASSUME NEW fs \in Seq(Finding)
    PROVE  Len(Filtered(Validated(Filtered(PreCriticDeduplicate(fs),
                                           LAMBDA f : DeterministicStrength(f) > 0)),
                        HardFloor)) <= Len(fs)
<1> DEFINE out == PreCriticDeduplicate(fs)
           T == {out[c] : c \in DOMAIN out}
           I == {i \in DOMAIN out : DeterministicStrength(out[i]) > 0}
           strong == Picked(out, I)
           valid == Validated(strong)
           V == {valid[c] : c \in DOMAIN valid}
           J == {i \in DOMAIN valid : HardFloor(valid[i])}
<1>1. out \in Seq(T) /\ Len(out) <= Len(fs)
  BY ConsolidationIs DEF PreCriticDeduplicate
<1> HIDE DEF out, T
<1>2. \E U : strong \in Seq(U) /\ Len(strong) <= Len(out)
  <2>1. I \subseteq DOMAIN out
    OBVIOUS
  <2> HIDE DEF I
  <2>2. strong \in Seq(T) /\ Len(strong) <= Len(out)
    BY <1>1, <2>1, PickedFrom
  <2> QED
    BY <2>2
<1> HIDE DEF strong, I
<1>3. Len(strong) \in Nat /\ DOMAIN strong = 1..Len(strong)
  BY <1>2
<1>4. valid \in Seq(V) /\ Len(valid) = Len(strong)
  <2>1. DOMAIN valid = 1..Len(strong) /\ valid = [i \in 1..Len(strong) |-> valid[i]]
    BY <1>3 DEF Validated
  <2> HIDE DEF valid
  <2>2. valid \in [1..Len(strong) -> V]
    BY <2>1
  <2> HIDE DEF V
  <2> QED
    BY <1>3, <2>2, SequenceOf
<1> HIDE DEF valid, V
<1>5. Len(Picked(valid, J)) <= Len(valid)
  <2>1. J \subseteq DOMAIN valid
    OBVIOUS
  <2> HIDE DEF J
  <2> QED
    BY <1>4, <2>1, PickedFrom
<1>6. Filtered(Validated(Filtered(PreCriticDeduplicate(fs),
                                  LAMBDA f : DeterministicStrength(f) > 0)),
               HardFloor) = Picked(valid, J)
  BY DEF Filtered, out, strong, I, valid
<1>7. Len(Picked(valid, J)) \in Int
  <2>1. J \subseteq DOMAIN valid
    OBVIOUS
  <2> HIDE DEF J
  <2>2. Picked(valid, J) \in Seq(V)
    BY <1>4, <2>1, PickedFrom
  <2> QED
    BY <2>2
<1>8. Len(out) \in Int /\ Len(fs) \in Int
  BY <1>1
<1> QED
  BY <1>1, <1>2, <1>3, <1>4, <1>5, <1>6, <1>7, <1>8

(* What ranking makes of the critic's answer.                                *)
Ranked(fs) == RankAndTruncateFindings(PostCriticConsolidate(fs), MinSeverity, MaxFindings)

(* The result of ranking is truncated from the consolidated findings, each   *)
(* of which merges findings of the answer.                                   *)
LEMMA RankedIs ==
    ASSUME NEW fs \in Seq(Finding)
    PROVE  /\ TruncationIs(PostCriticConsolidate(fs), MaxFindings, Ranked(fs))
           /\ Len(PostCriticConsolidate(fs)) \in Nat
           /\ Len(PostCriticConsolidate(fs)) <= Len(fs)
           /\ \A c \in DOMAIN PostCriticConsolidate(fs) :
                 \E I \in SUBSET (DOMAIN fs) : MergesOf(PostCriticConsolidate(fs)[c], fs, I)
<1> DEFINE out == PostCriticConsolidate(fs)
           T == {out[c] : c \in DOMAIN out}
<1>1. /\ out \in Seq(T) /\ Len(out) <= Len(fs)
      /\ \A f \in T : Keyed(f)
      /\ \A c \in DOMAIN out : \E I \in SUBSET (DOMAIN fs) : MergesOf(out[c], fs, I)
  BY ConsolidationIs DEF PostCriticConsolidate
<1> HIDE DEF out, T
<1>2. TruncationIs(out, MaxFindings, Ranked(fs))
  BY <1>1, TruncationKeeps, TriageAssumption DEF Ranked, out
<1>3. Len(out) \in Nat
  BY <1>1
<1> QED
  BY <1>1, <1>2, <1>3 DEF out

-----------------------------------------------------------------------------
(* The inductive invariant: what a stage has left behind is what it computes *)
(* from what the stages before it left.                                      *)
TInv ==
    /\ TypeOK
    /\ stage \in {"dag", "critic", "rank"} => ranked = << >>
    /\ stage \in {"dag", "critic", "rank", "gate"} => disposition = << >>
    /\ stage \in {"gate", "policy", "done"} => ranked = Ranked(answer)
    /\ stage \in {"policy", "done"} => disposition = RunDecisionGate(ranked)
    /\ stage = "done" /\ exitCode = 1 => \E i \in DOMAIN ranked : disposition[i] = "blocking"

(* The findings of the reviewers and of the critic passed the schema.        *)
LEMMA AnswersAreFindings ==
    ASSUME TypeOK
    PROVE  raw \in Seq(Finding) /\ answer \in Seq(Finding)
<1>1. raw \in Seq(Finding) /\ Answers(raw) \subseteq Seq(Finding)
  BY TriageAssumption DEF TypeOK
<1>2. << >> \in Seq(Finding)
  OBVIOUS
<1> QED
  BY <1>1, <1>2 DEF TypeOK

(* Consolidating, ranking and truncating lengthens no list.                  *)
LEMMA RankedIsShort ==
    ASSUME NEW fs \in Seq(Finding)
    PROVE  /\ Len(Ranked(fs)) \in Nat /\ Len(Ranked(fs)) <= Len(fs)
           /\ DOMAIN Ranked(fs) = 1..Len(Ranked(fs))
<1>1. /\ TruncationIs(PostCriticConsolidate(fs), MaxFindings, Ranked(fs))
      /\ Len(PostCriticConsolidate(fs)) \in Nat
      /\ Len(PostCriticConsolidate(fs)) <= Len(fs)
  BY RankedIs
<1>2. Len(fs) \in Nat
  OBVIOUS
<1> QED
  BY <1>1, <1>2 DEF TruncationIs

(* runDecisionGate() gives every ranked finding one disposition.             *)
LEMMA GateJudgesAll ==
    ASSUME NEW fs, Len(fs) \in Nat, DOMAIN fs = 1..Len(fs)
    PROVE  /\ DOMAIN RunDecisionGate(fs) = DOMAIN fs /\ Len(RunDecisionGate(fs)) = Len(fs)
           /\ RunDecisionGate(fs) \in [DOMAIN RunDecisionGate(fs) -> Dispositions]
<1>1. \A f : FinalDisposition(f) \in Dispositions
  BY DEF FinalDisposition, Dispositions
<1>2. RunDecisionGate(fs) \in [1..Len(fs) -> Dispositions]
  BY <1>1 DEF RunDecisionGate
<1> HIDE DEF RunDecisionGate
<1> QED
  BY <1>2, SequenceOf

(* The invariant holds before the first stage.                               *)
LEMMA InitInv ==
    Init => TInv
<1> SUFFICES ASSUME Init PROVE TInv
  OBVIOUS
<1>1. Len(<< >>) = 0 /\ << >> \in [DOMAIN << >> -> Dispositions]
  OBVIOUS
<1>2. Len(raw) \in Nat
  BY TriageAssumption DEF Init
<1>3. TypeOK
  BY <1>1, <1>2 DEF Init, TypeOK, Stages
<1> QED
  BY <1>3 DEF Init, TInv

(* Every stage of ReviewEngine.run and the exit code policy keep it.         *)
LEMMA StepInv ==
    TInv /\ [Next]_vars => TInv'
<1> SUFFICES ASSUME TInv, [Next]_vars PROVE TInv'
  OBVIOUS
<1>1. raw \in Seq(Finding) /\ answer \in Seq(Finding)
  BY AnswersAreFindings DEF TInv
<1>2. TypeOK
  BY DEF TInv
<1>3. CASE Deduplicate
  <2>1. Len(candidates') <= Len(raw)
    BY <1>1, <1>3, CandidatesAreFew DEF Deduplicate
  <2>2. TypeOK'
    BY <1>2, <1>3, <2>1 DEF Deduplicate, TypeOK, Stages
  <2> QED
    BY <1>3, <2>2 DEF Deduplicate, TInv
<1>4. CASE Critic
  <2>1. answer' \in Answers(raw) \cup {<< >>}
    BY <1>4 DEF Critic, MayAnswer
  <2>2. Len(ranked) = 0 /\ Len(disposition) = 0
    BY <1>4 DEF Critic, TInv
  <2>3. Len(answer') \in Nat
    <3>1. answer' \in Seq(Finding)
      <4>1. raw \in RawSeqs
        BY <1>2 DEF TypeOK
      <4>2. Answers(raw) \subseteq Seq(Finding)
        BY <4>1, TriageAssumption
      <4>3. << >> \in Seq(Finding)
        OBVIOUS
      <4> QED
        BY <2>1, <4>2, <4>3
    <3> QED
      BY <3>1
  <2>4. TypeOK'
    BY <1>2, <1>4, <2>1, <2>2, <2>3 DEF Critic, TypeOK, Stages
  <2> QED
    BY <1>4, <2>4 DEF Critic, TInv
<1>5. CASE Rank
  <2>1. ranked' = Ranked(answer)
    BY <1>5 DEF Rank, Ranked
  <2>2. Len(ranked') <= Len(answer)
    BY <1>1, <2>1, RankedIsShort
  <2>3. Len(disposition) = 0
    BY <1>5 DEF Rank, TInv
  <2>4. TypeOK'
    BY <1>2, <1>5, <2>2, <2>3 DEF Rank, TypeOK, Stages
  <2> QED
    BY <1>5, <2>1, <2>4 DEF Rank, TInv
<1>6. CASE Gate
  <2>1. ranked = Ranked(answer)
    BY <1>6 DEF Gate, TInv
  <2>2. Len(ranked) \in Nat /\ DOMAIN ranked = 1..Len(ranked)
    BY <1>1, <2>1, RankedIsShort
  <2>3. disposition' = RunDecisionGate(ranked) /\ ranked' = ranked
    BY <1>6 DEF Gate
  <2>4. Len(disposition') = Len(ranked) /\ disposition' \in [DOMAIN disposition' -> Dispositions]
    BY <2>2, <2>3, GateJudgesAll
  <2>5. TypeOK'
    BY <1>2, <1>6, <2>4 DEF Gate, TypeOK, Stages
  <2> QED
    BY <1>6, <2>1, <2>3, <2>5 DEF Gate, TInv
<1>7. CASE EvaluateExitCode
  <2>1. exitCode' \in {0, 1}
    BY <1>7 DEF EvaluateExitCode
  <2>2. exitCode' = 1 => \E i \in DOMAIN ranked : disposition[i] = "blocking"
    BY <1>7 DEF EvaluateExitCode, IsBlocking
  <2>3. TypeOK'
    BY <1>2, <1>7, <2>1 DEF EvaluateExitCode, TypeOK, Stages
  <2> QED
    BY <1>7, <2>2, <2>3 DEF EvaluateExitCode, TInv
<1>8. CASE UNCHANGED vars
  BY <1>2, <1>8 DEF TInv, TypeOK, vars, IsBlocking
<1> QED
  BY <1>3, <1>4, <1>5, <1>6, <1>7, <1>8 DEF Next

(* So it holds throughout the run.                                           *)
LEMMA Invariance ==
    Spec => []TInv
<1> QED
  BY InitInv, StepInv, PTL DEF Spec

(* Type correctness: no stage lengthens a list, and the gate gives every     *)
(* ranked finding a disposition.                                             *)
THEOREM TypesAreKept ==
    Spec => []TypeOK
<1>1. TInv => TypeOK
  BY DEF TInv
<1> QED
  BY <1>1, Invariance, PTL

(* Clustering before the critic leaves no two findings on common lines.      *)
LEMMA DeduplicationSeparates ==
    ASSUME NEW fs \in Seq(Finding),
           NEW c \in DOMAIN PreCriticDeduplicate(fs), NEW d \in DOMAIN PreCriticDeduplicate(fs),
           c # d
    PROVE  ~Overlap(PreCriticDeduplicate(fs)[c], PreCriticDeduplicate(fs)[d])
<1> DEFINE n == Len(fs)
           matching == {p \in Pairs(n) : Overlap(fs[p[1]], fs[p[2]])}
           parent == Parents(n, matching)
           out == PreCriticDeduplicate(fs)
           s == [i \in 1..n |-> fs[i].start]
           e == [i \in 1..n |-> fs[i].end]
<1>1. n \in Nat /\ DOMAIN fs = 1..n /\ \A i \in 1..n : fs[i] \in Finding
  OBVIOUS
<1>2. s \in [1..n -> Int] /\ e \in [1..n -> Int]
  <2>1. \A f \in Finding : f.start \in Nat \ {0} /\ f.end \in Nat \ {0}
    BY DEF Finding
  <2>2. \A i \in 1..n : fs[i].start \in Int /\ fs[i].end \in Int
    BY <1>1, <2>1
  <2> QED
    BY <2>2
<1>3. \A i, j \in 1..n : Overlap(fs[i], fs[j]) <=> Meet(s, e, i, j)
  BY DEF Overlap, Meet
<1>4. \A i \in 1..n : s[i] = fs[i].start /\ e[i] = fs[i].end /\ s[i] \in Int /\ e[i] \in Int
  <2>1. \A i \in 1..n : s[i] = fs[i].start /\ e[i] = fs[i].end
    OBVIOUS
  <2> HIDE DEF s, e
  <2> QED
    BY <1>2, <2>1
<1>5. PICK first : MergesClasses(out, first, fs, matching)
  <2>1. out = Merged(Clusters(fs, matching))
    BY DEF PreCriticDeduplicate
  <2> HIDE DEF out, matching
  <2> QED
    BY <2>1, MergedAre
<1>6. \A p \in Pairs(n) : p[1] \in 1..n /\ p[2] \in 1..n
  BY DEF Pairs
<1>7. \A p \in Pairs(n) : p \in matching <=> Meet(s, e, p[1], p[2])
  <2> HIDE DEF s, e
  <2> QED
    BY <1>3, <1>6
<1>8. c \in DOMAIN out /\ d \in DOMAIN out
  OBVIOUS
<1> HIDE DEF s, e, matching, out
<1>9. /\ Forest(parent, n)
      /\ \A p \in Pairs(n) : p \in matching => Root(parent, p[1]) = Root(parent, p[2])
      /\ Gapless(parent, n, s, e)
  BY <1>1, <1>2, <1>7, ClassesAre
<1> HIDE DEF parent
<1>10. /\ c \in 1..Len(out) /\ d \in 1..Len(out)
       /\ first \in [1..Len(out) -> 1..n]
       /\ \A k \in 1..Len(out) : MergesOf(out[k], fs, Members(parent, first[k]))
       /\ \A k, l \in 1..Len(out) : Root(parent, first[k]) = Root(parent, first[l]) => k = l
  <2>1. DOMAIN out = 1..Len(out)
    BY <1>5 DEF MergesClasses
  <2> QED
    BY <1>5, <1>8, <2>1 DEF MergesClasses, parent, n
<1>11. Root(parent, first[c]) # Root(parent, first[d]) /\ first[c] \in 1..n /\ first[d] \in 1..n
  BY <1>10
<1> HIDE DEF n
(* A line that the merged finding covers, a finding of the class covers.     *)
<1>12. ASSUME NEW k \in 1..Len(out), NEW p \in Int, out[k].start <= p, p <= out[k].end
       PROVE  \E i \in 1..n : Root(parent, i) = Root(parent, first[k]) /\ s[i] <= p /\ p <= e[i]
  <2>1. first[k] \in 1..n
    BY <1>10
  <2>2. /\ \A i \in Members(parent, first[k]) :
              i \in 1..n /\ Root(parent, i) = Root(parent, first[k])
    BY <1>1, <1>9, <2>1, MembersAre
  <2>3. PICK x \in Members(parent, first[k]) : out[k].start = fs[x].start
    BY <1>10 DEF MergesOf
  <2>4. PICK y \in Members(parent, first[k]) : out[k].end = fs[y].end
    BY <1>10 DEF MergesOf
  <2>5. x \in 1..n /\ y \in 1..n /\ Root(parent, x) = Root(parent, y) /\ s[x] <= p /\ p <= e[y]
    BY <1>4, <1>12, <2>2, <2>3, <2>4
  <2>6. \E i \in 1..n : Root(parent, i) = Root(parent, x) /\ s[i] <= p /\ p <= e[i]
    BY <1>9, <2>5 DEF Gapless
  <2> QED
    BY <2>2, <2>6
<1>13. ASSUME NEW k \in 1..Len(out) PROVE out[k].start \in Int /\ out[k].end \in Int
  <2>1. first[k] \in 1..n
    BY <1>10
  <2>2. Members(parent, first[k]) \subseteq 1..n
    BY <1>1, <1>9, <2>1, MembersAre
  <2>3. (\E x \in 1..n : out[k].start = fs[x].start) /\ (\E x \in 1..n : out[k].end = fs[x].end)
    BY <1>10, <2>2 DEF MergesOf
  <2> QED
    BY <1>4, <2>3
<1> SUFFICES ASSUME Overlap(out[c], out[d]) PROVE FALSE
  BY DEF out
<1> DEFINE p == IF out[c].start <= out[d].start THEN out[d].start ELSE out[c].start
<1>14. /\ p \in Int /\ out[c].start <= p /\ p <= out[c].end
       /\ out[d].start <= p /\ p <= out[d].end
  BY <1>10, <1>13 DEF Overlap
<1> HIDE DEF p
<1>15. PICK i \in 1..n : Root(parent, i) = Root(parent, first[c]) /\ s[i] <= p /\ p <= e[i]
  BY <1>10, <1>12, <1>14
<1>16. PICK j \in 1..n : Root(parent, j) = Root(parent, first[d]) /\ s[j] <= p /\ p <= e[j]
  BY <1>10, <1>12, <1>14
<1>17. Meet(s, e, i, j) /\ Meet(s, e, j, i)
  <2>1. s[i] \in Int /\ e[i] \in Int /\ s[j] \in Int /\ e[j] \in Int
    BY <1>4
  <2> QED
    BY <1>14, <1>15, <1>16, <2>1 DEF Meet
<1>18. i # j /\ Root(parent, i) # Root(parent, j)
  BY <1>11, <1>15, <1>16
<1>19. CASE i < j
  <2>1. <<i, j>> \in Pairs(n)
    BY <1>19 DEF Pairs
  <2> QED
    BY <1>7, <1>9, <1>17, <1>18, <2>1
<1>20. CASE j < i
  <2>1. <<j, i>> \in Pairs(n)
    BY <1>20 DEF Pairs
  <2> QED
    BY <1>7, <1>9, <1>17, <1>18, <2>1
<1>21. i \in Int /\ j \in Int
  BY <1>1
<1> QED
  BY <1>18, <1>19, <1>20, <1>21

(* Whatever the reviewers return, in whatever order, preCriticDeduplicate()  *)
(* leaves no two findings on common lines: a chain of overlaps ends up in    *)
(* one finding.                                                              *)
THEOREM CriticSeesSeparateFindings ==
    Spec => []PreCriticSeparates
<1>1. TInv => PreCriticSeparates
  <2> SUFFICES ASSUME TInv PROVE PreCriticSeparates
    OBVIOUS
  <2>1. raw \in Seq(Finding)
    BY AnswersAreFindings DEF TInv
  <2> QED
    BY <2>1, DeduplicationSeparates DEF PreCriticSeparates
<1> QED
  BY <1>1, Invariance, PTL

(* Every finding is in a class, and what is merged of it covers it.          *)
LEMMA DeduplicationForgetsNothing ==
    ASSUME NEW fs \in Seq(Finding), NEW i \in DOMAIN fs
    PROVE  \E c \in DOMAIN PreCriticDeduplicate(fs) :
              /\ Covers(PreCriticDeduplicate(fs)[c], fs[i])
              /\ PreCriticDeduplicate(fs)[c].severity >= fs[i].severity
              /\ PreCriticDeduplicate(fs)[c].confidence >= fs[i].confidence
              /\ fs[i].reviewers \subseteq PreCriticDeduplicate(fs)[c].reviewers
<1> DEFINE n == Len(fs)
           matching == {p \in Pairs(n) : Overlap(fs[p[1]], fs[p[2]])}
           parent == Parents(n, matching)
           out == PreCriticDeduplicate(fs)
<1>1. n \in Nat /\ DOMAIN fs = 1..n /\ fs[i] \in Finding
  OBVIOUS
<1>2. PICK first : MergesClasses(out, first, fs, matching)
  <2>1. out = Merged(Clusters(fs, matching))
    BY DEF PreCriticDeduplicate
  <2> HIDE DEF out, matching
  <2> QED
    BY <2>1, MergedAre
<1> HIDE DEF out, matching
<1>3. Forest(parent, n)
  <2>1. [k \in 1..n |-> 0] \in [1..n -> Int]
    OBVIOUS
  <2> QED
    BY <1>1, <2>1, ClassesAre
<1>4. /\ first \in [1..Len(out) -> 1..n] /\ DOMAIN out = 1..Len(out)
      /\ \A c \in 1..Len(out) : MergesOf(out[c], fs, Members(parent, first[c]))
      /\ \E c \in 1..Len(out) : Root(parent, first[c]) = Root(parent, i)
  BY <1>1, <1>2 DEF MergesClasses
<1> HIDE DEF parent
<1>5. PICK c \in 1..Len(out) : Root(parent, first[c]) = Root(parent, i)
  BY <1>4
<1>6. i \in Members(parent, first[c])
  <2>1. first[c] \in 1..n
    BY <1>4
  <2> QED
    BY <1>1, <1>3, <1>5, <2>1, MembersAre
<1>7. /\ out[c].start <= fs[i].start /\ fs[i].end <= out[c].end
      /\ fs[i].severity <= out[c].severity
      /\ fs[i].confidence <= out[c].confidence
      /\ fs[i].reviewers \subseteq out[c].reviewers
      /\ out[c].severity \in 1..5 /\ out[c].confidence \in 0..100
  BY <1>4, <1>6 DEF MergesOf
<1>8. fs[i].severity \in Int /\ fs[i].confidence \in Int
  <2>1. fs[i].severity \in 1..5
    BY <1>1 DEF Finding
  <2>2. fs[i].confidence \in 0..100
    BY <1>1 DEF Finding
  <2>3. 1..5 \subseteq Int /\ 0..100 \subseteq Int
    OBVIOUS
  <2> QED
    BY <2>1, <2>2, <2>3
<1> QED
  BY <1>4, <1>7, <1>8 DEF Covers, out

(* preCriticDeduplicate() loses no finding and weakens none: what a finding  *)
(* became covers its lines, is as severe and as confident, and names its     *)
(* reviewers.                                                                *)
THEOREM CriticSeesEveryFinding ==
    Spec => []PreCriticForgetsNothing
<1>1. TInv => PreCriticForgetsNothing
  <2> SUFFICES ASSUME TInv PROVE PreCriticForgetsNothing
    OBVIOUS
  <2>1. raw \in Seq(Finding)
    BY AnswersAreFindings DEF TInv
  <2> QED
    BY <2>1, DeduplicationForgetsNothing DEF PreCriticForgetsNothing
<1> QED
  BY <1>1, Invariance, PTL

(* rankAndTruncateFindings() drops no critical finding and, of the others,   *)
(* only what ranks no higher than all that stay, and only when the limit is  *)
(* reached.                                                                  *)
THEOREM WorstFindingsAreKept ==
    Spec => []TruncationDropsTheLowest
<1>1. TInv => TruncationDropsTheLowest
  <2> SUFFICES ASSUME TInv, stage = "gate"
               PROVE  LET consolidated == PostCriticConsolidate(answer)
                      IN  /\ Len(ranked) <= MaxOf({MaxFindings,
                                 Cardinality({i \in DOMAIN ranked : IsCritical(ranked[i])})})
                          /\ \A i \in DOMAIN consolidated :
                                LET f == consolidated[i]
                                IN  \/ f.severity < MinSeverity
                                    \/ Contains(ranked, f)
                                    \/ /\ ~IsCritical(f)
                                       /\ Len(ranked) >= MaxFindings
                                       /\ \A j \in DOMAIN ranked :
                                             IsCritical(ranked[j]) \/ ~RanksBefore(f, ranked[j])
    BY DEF TruncationDropsTheLowest
  <2>1. answer \in Seq(Finding) /\ ranked = Ranked(answer)
    BY AnswersAreFindings DEF TInv
  <2>2. TruncationIs(PostCriticConsolidate(answer), MaxFindings, ranked)
    BY <2>1, RankedIs
  <2> DEFINE C == {i \in DOMAIN ranked : IsCritical(ranked[i])}
             m == Cardinality(C)
  <2>3. /\ DOMAIN ranked = 1..Len(ranked) /\ Len(ranked) \in Nat
        /\ Len(ranked) <= MaxFindings \/ \A j \in DOMAIN ranked : IsCritical(ranked[j])
    BY <2>2 DEF TruncationIs
  <2>4. IsFiniteSet(1..Len(ranked)) /\ Cardinality(1..Len(ranked)) = Len(ranked)
    BY <2>3, IndicesAreFinite
  <2>5. m \in Nat
    <3>1. IsFiniteSet(C)
      BY <2>3, <2>4, FS_Subset
    <3> QED
      BY <3>1, FS_CardinalityType
  <2>6. Len(ranked) <= MaxFindings \/ Len(ranked) = m
    <3>1. CASE \A j \in DOMAIN ranked : IsCritical(ranked[j])
      <4>1. C = 1..Len(ranked)
        BY <2>3, <3>1
      <4> QED
        BY <2>4, <4>1
    <3> QED
      BY <2>3, <3>1
  <2> HIDE DEF m
  <2>7. /\ MaxFindings <= MaxOf({MaxFindings, m}) /\ m <= MaxOf({MaxFindings, m})
        /\ MaxOf({MaxFindings, m}) \in Int /\ MaxFindings \in Int /\ m \in Int
    <3>1. MaxFindings \in Int /\ m \in Int
      BY <2>5, TriageAssumption
    <3> QED
      BY <3>1, LargerIs
  <2>9. Len(ranked) <= MaxOf({MaxFindings, m})
    <3> DEFINE M == MaxOf({MaxFindings, m})
    <3>1. M \in Int /\ MaxFindings <= M /\ m <= M
      BY <2>7
    <3>2. Len(ranked) \in Int
      BY <2>3
    <3> HIDE DEF M
    <3>3. Len(ranked) <= M
      BY <2>6, <2>7, <3>1, <3>2
    <3> QED
      BY <3>3 DEF M
  <2> QED
    BY <2>2, <2>9 DEF TruncationIs, m
<1> QED
  BY <1>1, Invariance, PTL

(* evaluateExitCode() fails the merge only for a finding the critic          *)
(* approved, did not call pre-existing and held with the configured          *)
(* confidence, on lines that the blocking finding covers: no merge of        *)
(* findings lends an approval to another.                                    *)
THEOREM OnlyApprovedFindingsBlock ==
    Spec => []BlockNeedsApproval
<1>1. TInv => BlockNeedsApproval
  <2> SUFFICES ASSUME TInv, stage = "done", exitCode = 1
               PROVE  \E i \in DOMAIN ranked, j \in DOMAIN answer :
                         /\ disposition[i] = "blocking"
                         /\ Covers(ranked[i], answer[j])
                         /\ answer[j].criticDecision = "approved"
                         /\ answer[j].attribution # "pre_existing"
                         /\ answer[j].confidence >= MinConfidence
    BY DEF BlockNeedsApproval
  <2>1. /\ answer \in Seq(Finding) /\ ranked = Ranked(answer)
        /\ disposition = RunDecisionGate(ranked)
    BY AnswersAreFindings DEF TInv
  <2>2. PICK i \in DOMAIN ranked : disposition[i] = "blocking"
    BY DEF TInv
  <2>3. PassesAll(ranked[i])
    <3>1. FinalDisposition(ranked[i]) = "blocking"
      BY <2>1, <2>2 DEF RunDecisionGate
    <3> QED
      BY <3>1 DEF FinalDisposition
  <2>4. PICK c \in DOMAIN PostCriticConsolidate(answer) :
           ranked[i] = PostCriticConsolidate(answer)[c]
    <3>1. TruncationIs(PostCriticConsolidate(answer), MaxFindings, ranked)
      BY <2>1, RankedIs
    <3> QED
      BY <3>1 DEF TruncationIs
  <2>5. PICK I \in SUBSET (DOMAIN answer) : MergesOf(ranked[i], answer, I)
    BY <2>1, <2>4, RankedIs
  <2>6. PICK r \in I : /\ ranked[i].criticDecision = answer[r].criticDecision
                       /\ ranked[i].attribution = answer[r].attribution
                       /\ ranked[i].confidence = answer[r].confidence
                       /\ ranked[i].start <= answer[r].start /\ answer[r].end <= ranked[i].end
    BY <2>5 DEF MergesOf
  <2>7. /\ ranked[i].criticDecision = "approved" /\ ranked[i].attribution # "pre_existing"
        /\ ranked[i].confidence >= MinConfidence
    BY <2>3 DEF PassesAll, PatchAttribution
  <2>8. r \in DOMAIN answer
    BY <2>5
  <2> QED
    BY <2>2, <2>6, <2>7, <2>8 DEF Covers
<1> QED
  BY <1>1, Invariance, PTL
=============================================================================
