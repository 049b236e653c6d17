--------------------------- MODULE CacheStoreProofs --------------------------
(***************************************************************************)
(* Proofs about the disk cache, for any clients, keys, sizes and limits:   *)
(* no entry is torn, the accounted size is exact, and a set() makes room.  *)
(* After them, proofs about the in-memory cache, which add up sizes the    *)
(* same way: the most recently used values stay.                           *)
(***************************************************************************)
EXTENDS CacheStore, LruCache, FiniteSetTheorems, SequenceTheorems, TLAPS

Steps == {"begin", "evict", "write", "rename", "clear"}

(* Who runs and waits is a client, and what it calls is an operation on a   *)
(* key.                                                                     *)
CallsAreTyped ==
    /\ waiting \in Seq(Clients) /\ queue \in Seq(Clients)
    /\ op \in [Clients -> Ops]
    /\ step \in Steps
    /\ ~initialized => queue = << >>

(* The locals of a mutation belong to the client at the head of the queue.  *)
(* What it evicts is not the entry it replaces; what it writes has a name   *)
(* of its own, and is whole when it is renamed.                             *)
LocalsFit ==
    /\ step \in {"evict", "write", "rename"} =>
          Runs("set") /\ disk[Current.key] = previous
    /\ step = "clear" => Runs("clear")
    /\ step = "evict" => Current.key \notin victims
    /\ step \in {"write", "rename"} => temp \in Temps
    /\ step = "rename" => disk[temp].whole

KeysAreWhole == \A k \in Keys : disk[k].exists => disk[k].whole

IInv ==
    /\ DOMAIN disk = Paths
    /\ CallsAreTyped
    /\ LocalsFit
    /\ KeysAreWhole

(* An operation on a key is one of Keys.                                    *)
LEMMA OperationsHaveKeys ==
    ASSUME CallsAreTyped, Runs("set") \/ Runs("delete")
    PROVE  Head(queue) \in Clients /\ Current.key \in Keys
<1>1. queue # << >> /\ Head(queue) \in Clients /\ op[Head(queue)] \in Ops
  BY DEF CallsAreTyped, Runs
<1>2. op[Head(queue)].kind \in {"set", "delete"}
  BY DEF Runs, Current
<1> QED
  BY <1>1, <1>2 DEF Ops, Idle, Current

(* A client that settles leaves the rest of the queue, and no locals.       *)
LEMMA SettlingKeepsTypes ==
    ASSUME CallsAreTyped, queue # << >>, Settle, UNCHANGED <<waiting, initialized>>
    PROVE  CallsAreTyped' /\ step' = "begin"
<1>1. Tail(queue) \in Seq(Clients) /\ Head(queue) \in Clients
  BY DEF CallsAreTyped
<1>2. Idle \in Ops
  BY DEF Ops
<1> QED
  BY <1>1, <1>2 DEF CallsAreTyped, Settle, Forget, Steps

(* A call changes nothing for the operation that runs.                      *)
LEMMA CallKeepsIInv ==
    ASSUME IInv, NEW c \in Clients, Call(c) PROVE IInv'
<1>1. /\ CallsAreTyped /\ op[c] = Idle
      /\ UNCHANGED <<disk, initialized, step, victims, temp, previous>>
  BY DEF IInv, Call, running, measures
<1>2. PICK o \in Ops \ {Idle} : op' = [op EXCEPT ![c] = o]
  BY DEF Call
<1>3. queue # << >> => queue' # << >> /\ Head(queue') = Head(queue)
  BY <1>1 DEF CallsAreTyped, Call
<1>4. CallsAreTyped'
  <2>1. op' \in [Clients -> Ops]
    BY <1>1, <1>2 DEF CallsAreTyped
  <2>2. waiting' \in Seq(Clients) /\ queue' \in Seq(Clients) /\ (~initialized => queue' = << >>)
    <3>1. CASE initialized
      BY <1>1, <3>1 DEF CallsAreTyped, Call
    <3>2. CASE ~initialized
      BY <1>1, <3>2 DEF CallsAreTyped, Call
    <3> QED
      BY <3>1, <3>2
  <2> QED
    BY <1>1, <2>1, <2>2 DEF CallsAreTyped
<1>5. ASSUME NEW kind \in {"set", "clear"}, Runs(kind)
      PROVE  Runs(kind)' /\ Current' = Current
  <2>1. Head(queue) # c /\ Head(queue) \in Clients
    BY <1>1, <1>5 DEF Runs, Current, Idle, CallsAreTyped
  <2> QED
    BY <1>1, <1>2, <1>3, <1>5, <2>1 DEF Runs, Current, CallsAreTyped
<1> QED
  BY <1>1, <1>4, <1>5 DEF IInv, LocalsFit, KeysAreWhole

-----------------------------------------------------------------------------
(* Whatever the calls, their order, failures of the file system and crashes,*)
(* no file of a key is torn and no entry is lost before it is replaced.     *)
LEMMA InductiveInvariant == Init /\ [][Next]_vars => []IInv
<1>1. Init => IInv
  BY DEF Init, IInv, CallsAreTyped, LocalsFit, KeysAreWhole, NoFile, Ops, Steps, Paths
<1>2. IInv /\ [Next]_vars => IInv'
  <2> SUFFICES ASSUME IInv, [Next]_vars PROVE IInv'
    OBVIOUS
  <2> USE StoreAssumption DEF IInv, LocalsFit, KeysAreWhole
  <2>1. ASSUME NEW c \in Clients, Call(c) PROVE IInv'
    BY <2>1, CallKeepsIInv
  <2>2. CASE Initialize
    BY <2>2 DEF Initialize, CallsAreTyped, running, Runs
  <2>3. CASE InitializeFails
    BY <2>3 DEF InitializeFails, CallsAreTyped, running, Runs, Ops
  <2>4. CASE SetRejects \/ EvictFails
    BY <2>4, SettlingKeepsTypes DEF SetRejects, EvictFails, Runs, memory
  <2>5. CASE SetBegins
    <3>1. Current.key \in Keys
      BY <2>5, OperationsHaveKeys DEF SetBegins
    <3> QED
      BY <2>5, <3>1 DEF SetBegins, Evictable, CallsAreTyped, Steps, Runs, Current, memory
  <2>6. CASE Evict
    <3>1. PICK p \in victims : disk' = [disk EXCEPT ![p] = NoFile] /\ victims' = victims \ {p}
      BY <2>6 DEF Evict
    <3>2. CallsAreTyped' /\ Runs("set")' /\ Current' = Current /\ step' = "evict"
          /\ previous' = previous /\ step = "evict"
      BY <2>6 DEF Evict, CallsAreTyped, Runs, Current, memory, measures
    <3>3. Current.key \in Keys /\ Current.key # p
      BY <2>6, <3>1, OperationsHaveKeys DEF Evict
    <3> QED
      BY <3>1, <3>2, <3>3 DEF Paths, NoFile
  <2>7. CASE WriteBegins
    <3>1. PICK t \in Temps, s \in 0..(Current.size - 1) :
             disk' = [disk EXCEPT ![t] = File(s, stamp, FALSE)] /\ temp' = t
      BY <2>7 DEF WriteBegins, Target
    <3>2. CallsAreTyped' /\ Runs("set")' /\ Current' = Current /\ step' = "write"
          /\ previous' = previous /\ step = "evict"
      BY <2>7 DEF WriteBegins, CallsAreTyped, Steps, Runs, Current, memory, measures
    <3>3. Current.key \in Keys
      BY <2>7, OperationsHaveKeys DEF WriteBegins
    <3> QED
      BY <3>1, <3>2, <3>3 DEF Paths
  <2>8. CASE WriteEnds
    <3>1. /\ CallsAreTyped' /\ Runs("set")' /\ Current' = Current /\ step' = "rename"
          /\ previous' = previous /\ temp' = temp /\ temp \in Temps /\ step = "write"
          /\ disk' = [disk EXCEPT ![temp] = File(Current.size, stamp, TRUE)]
      BY <2>8 DEF WriteEnds, CallsAreTyped, Steps, Runs, Current, memory, measures
    <3>2. Current.key \in Keys
      BY <2>8, OperationsHaveKeys DEF WriteEnds
    <3> QED
      BY <3>1, <3>2 DEF Paths, File
  <2>9. CASE Rename
    <3>1. CallsAreTyped' /\ step' = "begin"
      BY <2>9, SettlingKeepsTypes DEF Rename, Runs, memory
    <3>2. disk' = [disk EXCEPT ![Current.key] = disk[temp], ![temp] = NoFile]
          /\ temp \in Temps /\ disk[temp].whole
      BY <2>9 DEF Rename
    <3> QED
      BY <3>1, <3>2 DEF Paths, NoFile
  <2>10. CASE WriteFails
    <3>1. CallsAreTyped' /\ step' = "begin"
      BY <2>10, SettlingKeepsTypes DEF WriteFails, Runs, memory
    <3>2. disk' = disk \/ disk' = [disk EXCEPT ![temp] = NoFile]
      BY <2>10 DEF WriteFails
    <3> QED
      BY <3>1, <3>2 DEF Paths, NoFile
  <2>11. CASE Delete
    <3>1. CallsAreTyped' /\ step' = "begin"
      BY <2>11, SettlingKeepsTypes DEF Delete, Runs, memory
    <3>2. disk' = disk \/ disk' = [disk EXCEPT ![Current.key] = NoFile]
      BY <2>11 DEF Delete
    <3> QED
      BY <3>1, <3>2 DEF Paths, NoFile
  <2>12. CASE ClearBegins
    BY <2>12 DEF ClearBegins, CallsAreTyped, Steps, Runs, Current, memory
  <2>13. CASE ClearRemoves
    <3>1. PICK p \in victims : disk' = [disk EXCEPT ![p] = NoFile]
      BY <2>13 DEF ClearRemoves
    <3>2. CallsAreTyped' /\ Runs("clear")' /\ step' = "clear"
      BY <2>13 DEF ClearRemoves, CallsAreTyped, Steps, Runs, Current, memory
    <3> QED
      BY <3>1, <3>2 DEF Paths, NoFile
  <2>14. CASE ClearEnds
    BY <2>14, SettlingKeepsTypes DEF ClearEnds, Runs, memory
  <2>15. CASE Crash
    BY <2>15 DEF Crash, Forget, CallsAreTyped, Steps, Ops
  <2>16. CASE UNCHANGED vars
    BY <2>16 DEF vars, CallsAreTyped, Runs, Current
  <2> QED
    BY <2>1, <2>2, <2>3, <2>4, <2>5, <2>6, <2>7, <2>8, <2>9, <2>10, <2>11, <2>12,
       <2>13, <2>14, <2>15, <2>16 DEF Next, Mutation
<1> QED
  BY <1>1, <1>2, PTL

(* get() never finds part of an entry, and until the rename of a set() it   *)
(* finds the entry that was there before (cache/store.ts).                  *)
THEOREM EntriesSurvive == Spec => []EntriesAreKeptWhole
<1>1. IInv => EntriesAreKeptWhole
  BY DEF IInv, LocalsFit, KeysAreWhole, EntriesAreKeptWhole
<1> QED
  BY <1>1, InductiveInvariant, PTL DEF Spec
(* A nonempty set of subsets of a finite set has a smallest one: what stands *)
(* for induction over a finite set in the lemmas below.                      *)
LEMMA SmallestSubset ==
    ASSUME NEW S, IsFiniteSet(S), NEW T, T \subseteq SUBSET S, T # {}
    PROVE  \E s \in T : \A t \in T : t \subseteq s => t = s
<1> DEFINE R == StrictSubsetOrdering(S)
<1>1. IsWellFoundedOn(R, SUBSET S)
  BY FS_StrictSubsetOrderingWellFounded, FS_FiniteSubsetsOfFinite
<1>2. \E s \in T : \A t \in T : ~(<<t, s>> \in R)
  <2> HIDE DEF R
  <2> QED
    BY <1>1, WFMin
<1> QED
  BY <1>2 DEF StrictSubsetOrdering

-----------------------------------------------------------------------------
(* The sum that SizeOf takes, of the files of any disk d.  It is computed by *)
(* taking a chosen path out of the set until none is left; h[s] is what it   *)
(* gives for s.                                                              *)
Sum(d, S) == MapThenSumSet(LAMBDA p : d[p].size, S)
Chosen(s) == CHOOSE p \in s : TRUE
Sized(d, S) == IsFiniteSet(S) /\ \A p \in S : d[p].size \in Nat
Sums(h, d, s) ==
    \A t \in SUBSET s :
        h[t] = IF t = {} THEN 0 ELSE d[Chosen(t)].size + h[t \ {Chosen(t)}]

(* What is chosen out of a nonempty set is in it.                           *)
LEMMA ChosenIsIn == ASSUME NEW s, s # {} PROVE Chosen(s) \in s
  BY DEF Chosen

(* Two functions that both sum up agree.                                     *)
LEMMA SumsAgree ==
    ASSUME NEW d, NEW S, IsFiniteSet(S), NEW g, NEW h, Sums(g, d, S), Sums(h, d, S)
    PROVE  g[S] = h[S]
<1> DEFINE Bad == {t \in SUBSET S : g[t] # h[t]}
<1> SUFFICES ASSUME Bad # {} PROVE FALSE
  OBVIOUS
<1>1. PICK t \in Bad : \A u \in Bad : u \subseteq t => u = t
  <2>1. Bad \subseteq SUBSET S
    OBVIOUS
  <2> HIDE DEF Bad
  <2> QED
    BY <2>1, SmallestSubset
<1>2. t # {} => g[t \ {Chosen(t)}] = h[t \ {Chosen(t)}]
  BY <1>1, ChosenIsIn
<1> QED
  BY <1>1, <1>2 DEF Sums

(* The function that sums up exists: for the smallest set for which none     *)
(* does, the functions of its proper subsets make one.                       *)
LEMMA SumExists ==
    ASSUME NEW d, NEW S, Sized(d, S)
    PROVE  \E h \in [SUBSET S -> Nat] : Sums(h, d, S)
<1> USE DEF Sized
<1> DEFINE Fits(h, s) == h \in [SUBSET S -> Nat] /\ Sums(h, d, s)
<1> SUFFICES \A s \in SUBSET S : \E h : Fits(h, s)
  OBVIOUS
<1> DEFINE Bad == {s \in SUBSET S : ~\E h : Fits(h, s)}
<1> SUFFICES ASSUME Bad # {} PROVE FALSE
  OBVIOUS
<1>1. PICK s \in Bad : \A u \in Bad : u \subseteq s => u = s
  <2>1. Bad \subseteq SUBSET S
    OBVIOUS
  <2> HIDE DEF Bad
  <2> QED
    BY <2>1, SmallestSubset
<1> DEFINE of(t) == CHOOSE h : Fits(h, t)
           val(t) == of(t)[t]
<1>2. ASSUME NEW t \in SUBSET S, t \subseteq s, t # s
      PROVE  Fits(of(t), t) /\ val(t) \in Nat
  <2>1. \E h : Fits(h, t)
    BY <1>1, <1>2
  <2>2. Fits(of(t), t)
    <3> HIDE DEF Fits
    <3> QED
      BY <2>1
  <2> QED
    BY <2>2
<1> HIDE DEF of
<1>3. ASSUME NEW t \in SUBSET S, t \subseteq s, t # s, t # {}
      PROVE  val(t) = d[Chosen(t)].size + val(t \ {Chosen(t)})
  <2> DEFINE u == t \ {Chosen(t)}
  <2>1. u \subseteq t /\ u # t /\ u \in SUBSET S /\ u # s /\ u \subseteq s
    BY <1>3, ChosenIsIn
  <2>2. of(t)[u] = of(u)[u]
    <3>1. Sums(of(t), d, u) /\ Sums(of(u), d, u)
      BY <1>2, <1>3, <2>1 DEF Sums
    <3>2. IsFiniteSet(u)
      BY <2>1, FS_Subset
    <3> HIDE DEF u
    <3> QED
      BY <3>1, <3>2, SumsAgree
  <2>3. of(t)[t] = d[Chosen(t)].size + of(t)[u]
    BY <1>2, <1>3 DEF Sums
  <2> QED
    BY <2>2, <2>3
<1> DEFINE top == IF s = {} THEN 0 ELSE d[Chosen(s)].size + val(s \ {Chosen(s)})
           h == [t \in SUBSET S |-> IF t = s THEN top
                                    ELSE IF t \subseteq s THEN val(t) ELSE 0]
<1>4. val({}) = 0 \/ s = {}
  BY <1>2 DEF Sums
<1>5. top \in Nat
  BY <1>2, ChosenIsIn
<1>6. h \in [SUBSET S -> Nat]
  BY <1>2, <1>5
<1>7. Sums(h, d, s)
  <2> SUFFICES ASSUME NEW t \in SUBSET s
               PROVE  h[t] = IF t = {} THEN 0 ELSE d[Chosen(t)].size + h[t \ {Chosen(t)}]
    BY DEF Sums
  <2>1. t # {} => t \ {Chosen(t)} # s /\ t \ {Chosen(t)} \in SUBSET s
    BY ChosenIsIn
  <2>2. t \in SUBSET S
    BY <1>1
  <2> HIDE DEF val
  <2>3. CASE t = s
    BY <2>1, <2>2, <2>3
  <2>4. CASE t # s
    BY <1>3, <1>4, <2>1, <2>2, <2>4
  <2> QED
    BY <2>3, <2>4
<1> HIDE DEF h
<1> QED
  BY <1>1, <1>6, <1>7

(* Sum is that function.                                                     *)
LEMMA SumIsIts ==
    ASSUME NEW d, NEW S, Sized(d, S), NEW h, Sums(h, d, S), NEW R \in SUBSET S
    PROVE  Sum(d, R) = h[R]
<1> DEFINE Step(g, s) == IF s = {} THEN 0 ELSE d[Chosen(s)].size + g[s \ {Chosen(s)}]
           Solves(g) == g = [s \in SUBSET R |-> Step(g, s)]
           it == CHOOSE g : Solves(g)
<1>1. Sum(d, R) = it[R]
  BY DEF Sum, MapThenSumSet, MapThenFoldSet, Chosen
<1>2. Solves([s \in SUBSET R |-> h[s]])
  <2> DEFINE g == [s \in SUBSET R |-> h[s]]
  <2>1. ASSUME NEW s \in SUBSET R PROVE h[s] = Step(g, s)
    BY ChosenIsIn DEF Sums
  <2> HIDE DEF Step
  <2> QED
    BY <2>1
<1>3. Solves(it)
  <2> HIDE DEF Solves
  <2> QED
    BY <1>2
<1> HIDE DEF it
<1>4. Sums(it, d, R)
  BY <1>3 DEF Sums
<1>5. Sums(h, d, R) /\ IsFiniteSet(R)
  BY FS_Subset DEF Sums, Sized
<1> QED
  BY <1>1, <1>4, <1>5, SumsAgree

(* The sum over a finite set is a number, and any element may be taken out   *)
(* of it.                                                                    *)
LEMMA SumUnfolds ==
    ASSUME NEW d, NEW S, Sized(d, S)
    PROVE  \A R \in SUBSET S :
              /\ Sum(d, R) \in Nat
              /\ Sum(d, R) = IF R = {} THEN 0
                             ELSE d[Chosen(R)].size + Sum(d, R \ {Chosen(R)})
<1>1. PICK h \in [SUBSET S -> Nat] : Sums(h, d, S)
  BY SumExists
<1>2. \A R \in SUBSET S : Sum(d, R) = h[R]
  BY <1>1, SumIsIts
<1> QED
  BY <1>1, <1>2 DEF Sums

(* It does not matter which one: the sum is the file taken out and the rest.*)
LEMMA SumWithout ==
    ASSUME NEW d, NEW S, Sized(d, S), NEW p \in S
    PROVE  Sum(d, S) = d[p].size + Sum(d, S \ {p})
<1> USE DEF Sized
<1> DEFINE Bad == {s \in SUBSET S : \E q \in s : Sum(d, s) # d[q].size + Sum(d, s \ {q})}
<1> SUFFICES ASSUME Bad # {} PROVE FALSE
  OBVIOUS
<1>1. PICK s \in Bad : \A t \in Bad : t \subseteq s => t = s
  <2>1. Bad \subseteq SUBSET S
    OBVIOUS
  <2> HIDE DEF Bad
  <2> QED
    BY <2>1, SmallestSubset
<1>2. PICK q \in s : Sum(d, s) # d[q].size + Sum(d, s \ {q})
  BY <1>1
<1>3. s \in SUBSET S /\ s # {}
  BY <1>1, <1>2
<1>4. PICK c \in s : Sum(d, s) = d[c].size + Sum(d, s \ {c})
  BY <1>3, ChosenIsIn, SumUnfolds
<1>5. c # q
  BY <1>2, <1>4
<1>6. /\ s \ {c} \subseteq s /\ s \ {c} # s /\ s \ {c} \in SUBSET S
      /\ s \ {q} \subseteq s /\ s \ {q} # s /\ s \ {q} \in SUBSET S
  BY <1>3, <1>4, <1>2
<1>7. Sum(d, s \ {c}) = d[q].size + Sum(d, (s \ {c}) \ {q})
  BY <1>1, <1>2, <1>5, <1>6
<1>8. Sum(d, s \ {q}) = d[c].size + Sum(d, (s \ {q}) \ {c})
  BY <1>1, <1>4, <1>5, <1>6
<1>9. (s \ {c}) \ {q} = (s \ {q}) \ {c}
  OBVIOUS
<1>10. d[c].size \in Nat /\ d[q].size \in Nat /\ Sum(d, (s \ {q}) \ {c}) \in Nat
  <2>1. (s \ {q}) \ {c} \in SUBSET S
    BY <1>3
  <2> QED
    BY <1>2, <1>3, <1>4, <2>1, SumUnfolds
<1> DEFINE x == Sum(d, (s \ {q}) \ {c})
<1>11. Sum(d, s \ {c}) = d[q].size + x /\ Sum(d, s \ {q}) = d[c].size + x
  BY <1>7, <1>8, <1>9
<1>12. d[q].size + (d[c].size + x) = d[c].size + (d[q].size + x)
  BY <1>10
<1> HIDE DEF x
<1> QED
  BY <1>2, <1>4, <1>11, <1>12

(* Fewer files are no larger.                                                *)
LEMMA SumIsMonotone ==
    ASSUME NEW d, NEW S, Sized(d, S), NEW R \in SUBSET S
    PROVE  Sum(d, R) <= Sum(d, S)
<1> DEFINE Bad == {s \in SUBSET S : R \subseteq s /\ ~(Sum(d, R) <= Sum(d, s))}
<1> SUFFICES ASSUME Bad # {} PROVE FALSE
  OBVIOUS
<1>1. PICK s \in Bad : \A t \in Bad : t \subseteq s => t = s
  <2>1. Bad \subseteq SUBSET S
    OBVIOUS
  <2> HIDE DEF Bad
  <2> QED
    BY <2>1, SmallestSubset DEF Sized
<1>2. Sum(d, R) \in Nat /\ Sum(d, s) \in Nat
  BY <1>1, SumUnfolds
<1>3. PICK p \in s : p \notin R
  BY <1>1, <1>2
<1>4. Sized(d, s)
  BY <1>1, FS_Subset DEF Sized
<1>5. Sum(d, s) = d[p].size + Sum(d, s \ {p})
  BY <1>4, SumWithout
<1>6. Sum(d, R) <= Sum(d, s \ {p}) /\ Sum(d, s \ {p}) \in Nat
  <2>1. s \ {p} \in SUBSET S /\ s \ {p} \subseteq s /\ s \ {p} # s /\ R \subseteq s \ {p}
    BY <1>1, <1>3
  <2> QED
    BY <1>1, <2>1, SumUnfolds
<1> QED
  BY <1>1, <1>2, <1>4, <1>5, <1>6 DEF Sized

(* Files of two kinds are as large as those of each kind together.          *)
LEMMA SumOfParts ==
    ASSUME NEW d, NEW S, Sized(d, S), NEW R \in SUBSET S
    PROVE  Sum(d, S) = Sum(d, R) + Sum(d, S \ R)
<1> DEFINE Bad == {s \in SUBSET S : R \subseteq s /\ Sum(d, s) # Sum(d, R) + Sum(d, s \ R)}
<1> SUFFICES ASSUME Bad # {} PROVE FALSE
  OBVIOUS
<1>1. PICK s \in Bad : \A t \in Bad : t \subseteq s => t = s
  <2>1. Bad \subseteq SUBSET S
    OBVIOUS
  <2> HIDE DEF Bad
  <2> QED
    BY <2>1, SmallestSubset DEF Sized
<1>2. s \in SUBSET S /\ R \subseteq s /\ Sum(d, s) # Sum(d, R) + Sum(d, s \ R)
  BY <1>1
<1>3. Sum(d, R) \in Nat /\ Sum(d, {}) = 0
  <2>1. {} \in SUBSET S
    OBVIOUS
  <2> QED
    BY <2>1, SumUnfolds
<1>4. CASE s = R
  <2>1. s \ R = {}
    BY <1>4
  <2> QED
    BY <1>2, <1>3, <1>4, <2>1
<1>5. CASE s # R
  <2>1. PICK p \in s : p \notin R
    BY <1>2, <1>5
  <2>2. Sized(d, s) /\ Sized(d, s \ R) /\ p \in s \ R
    BY <1>2, <2>1, FS_Subset DEF Sized
  <2>3. Sum(d, s) = d[p].size + Sum(d, s \ {p})
    BY <2>2, SumWithout
  <2>4. Sum(d, s \ R) = d[p].size + Sum(d, (s \ R) \ {p})
    BY <2>2, SumWithout
  <2>5. (s \ R) \ {p} = (s \ {p}) \ R
    OBVIOUS
  <2>6. s \ {p} \in SUBSET S /\ R \subseteq s \ {p} /\ s \ {p} # s /\ s \ {p} \subseteq s
    BY <1>2, <2>1
  <2>7. Sum(d, s \ {p}) = Sum(d, R) + Sum(d, (s \ {p}) \ R)
    BY <1>1, <2>6
  <2>8. d[p].size \in Nat /\ Sum(d, (s \ {p}) \ R) \in Nat
    <3>1. (s \ {p}) \ R \in SUBSET S
      BY <2>6
    <3> QED
      BY <2>2, <3>1, SumUnfolds DEF Sized
  <2> DEFINE x == Sum(d, (s \ {p}) \ R)
             y == d[p].size
             r == Sum(d, R)
  <2>9. Sum(d, s \ R) = y + x /\ Sum(d, s) = y + (r + x)
    BY <2>3, <2>4, <2>5, <2>7
  <2>10. x \in Nat /\ y \in Nat /\ r \in Nat /\ Sum(d, s) # r + Sum(d, s \ R)
    BY <1>2, <1>3, <2>8
  <2> HIDE DEF x, y, r
  <2>11. y + (r + x) = r + (y + x)
    BY <2>10
  <2> QED
    BY <2>9, <2>10, <2>11
<1> QED
  BY <1>4, <1>5

(* The sum depends on the sizes of the files alone.                         *)
LEMMA SumDependsOnSizes ==
    ASSUME NEW d, NEW e, NEW S, Sized(d, S), \A p \in S : e[p].size = d[p].size
    PROVE  Sum(d, S) = Sum(e, S) /\ Sized(e, S)
<1> DEFINE Bad == {s \in SUBSET S : Sum(d, s) # Sum(e, s)}
<1>1. Sized(e, S)
  BY DEF Sized
<1> SUFFICES ASSUME Bad # {} PROVE FALSE
  BY <1>1
<1>2. PICK s \in Bad : \A t \in Bad : t \subseteq s => t = s
  <2>1. Bad \subseteq SUBSET S
    OBVIOUS
  <2> HIDE DEF Bad
  <2> QED
    BY <2>1, SmallestSubset DEF Sized
<1>3. /\ Sum(d, s) = IF s = {} THEN 0 ELSE d[Chosen(s)].size + Sum(d, s \ {Chosen(s)})
      /\ Sum(e, s) = IF s = {} THEN 0 ELSE e[Chosen(s)].size + Sum(e, s \ {Chosen(s)})
  <2>1. s \in SUBSET S
    BY <1>2
  <2> QED
    BY <1>1, <2>1, SumUnfolds
<1>4. s # {} => Chosen(s) \in s
  BY ChosenIsIn
<1> QED
  BY <1>2, <1>3, <1>4

(* SizeOf is this sum, of the disk before a step and after it.              *)
LEMMA SizeOfIsSum == \A S : SizeOf(S) = Sum(disk, S) /\ SizeOf(S)' = Sum(disk', S')
  BY DEF SizeOf, Sum, MapThenSumSet, MapThenFoldSet

-----------------------------------------------------------------------------
(* What is no file has no size.                                             *)
LEMMA FilesHaveSizes ==
    ASSUME NEW f \in Files PROVE f.size \in Nat /\ (f.exists \/ f.size = 0)
<1>1. CASE f = NoFile
  BY <1>1 DEF NoFile
<1>2. CASE f \in [size : Nat, createdAt : 0..MaxClock, whole : BOOLEAN, exists : {TRUE}]
  <2>1. f.size \in Nat /\ f.exists \in {TRUE}
    BY <1>2
  <2> QED
    BY <2>1
<1> QED
  BY <1>1, <1>2 DEF Files

(* What a write leaves is a file.                                           *)
LEMMA FileIsTyped ==
    ASSUME NEW s \in Nat, NEW t \in 0..MaxClock, NEW w \in BOOLEAN
    PROVE  File(s, t, w) \in Files
  BY DEF File, Files

(* The operation that runs, when it is a set(), has a key and a size.       *)
LEMMA SetHasKeyAndSize ==
    ASSUME CallsAreTyped, Runs("set")
    PROVE  Current.key \in Keys /\ Current.size \in Nat \ {0}
<1>1. Current \in Ops \ {Idle} /\ Current.kind \in {"set"}
  BY DEF CallsAreTyped, Runs, Current, Idle
<1>2. Current.key \in Keys /\ Current.size \in Sizes
  BY <1>1 DEF Ops, Idle
<1> QED
  BY <1>2, StoreAssumption

(* However many keys and temporary names there are, the files are finitely   *)
(* many: a step creates at most one.                                         *)
LEMMA FilesAreFinite == Init /\ [][Next]_vars => []IsFiniteSet(Existing(disk))
<1>1. Init => IsFiniteSet(Existing(disk))
  <2> SUFFICES ASSUME Init PROVE IsFiniteSet(Existing(disk))
    OBVIOUS
  <2>1. Existing(disk) = {}
    BY DEF Init, Existing, NoFile
  <2> QED
    BY <2>1, FS_EmptySet
<1>2. IInv /\ IsFiniteSet(Existing(disk)) /\ [Next]_vars => IsFiniteSet(Existing(disk))'
  <2> SUFFICES ASSUME IInv, IsFiniteSet(Existing(disk)), [Next]_vars
               PROVE  IsFiniteSet(Existing(disk'))
    BY DEF Existing
  <2>1. \/ disk' = disk
        \/ \E p, f : disk' = [disk EXCEPT ![p] = f]
        \/ \E k, t : disk' = [disk EXCEPT ![k] = disk[t], ![t] = NoFile]
    BY DEF Next, Mutation, SetRejects, SetBegins, Evict, EvictFails, WriteBegins, WriteEnds,
           Rename, WriteFails, Delete, ClearBegins, ClearRemoves, ClearEnds, Call,
           Initialize, InitializeFails, Crash, vars
  <2>2. \E p : Existing(disk') \subseteq Existing(disk) \cup {p}
    BY <2>1 DEF Existing, NoFile, IInv
  <2>3. PICK p : Existing(disk') \subseteq Existing(disk) \cup {p}
    BY <2>2
  <2> QED
    BY <2>3, FS_AddElement, FS_Subset
<1> QED
  BY <1>1, <1>2, InductiveInvariant, PTL

(* The files of the disk can be summed.                                     *)
LEMMA DiskIsSized ==
    ASSUME TypeOK, IsFiniteSet(Existing(disk))
    PROVE  /\ \A S \in SUBSET Existing(disk) : Sized(disk, S)
           /\ \A p \in Paths : disk[p].size \in Nat /\ (disk[p].exists \/ disk[p].size = 0)
<1>1. \A p \in Paths : disk[p].size \in Nat /\ (disk[p].exists \/ disk[p].size = 0)
  BY FilesHaveSizes DEF TypeOK
<1> QED
  BY <1>1, FS_Subset DEF Sized, Existing

(* What a step leaves in place: the client at the head of the queue, and     *)
(* what it runs, stay when others only join the queue.                       *)
LEMMA CallKeepsTheRunning ==
    ASSUME IInv, NEW c \in Clients, Call(c), step # "begin"
    PROVE  Current' = Current
<1>1. step \in Steps /\ (Runs("set") \/ Runs("clear"))
  BY DEF IInv, LocalsFit, CallsAreTyped, Steps, Call, running
<1>2. queue \in Seq(Clients) /\ queue # << >> /\ op[c] = Idle /\ op \in [Clients -> Ops]
  BY <1>1 DEF Runs, Call, IInv, CallsAreTyped
<1>3. Head(queue) # c /\ Head(queue) \in Clients
  BY <1>1, <1>2 DEF Runs, Current, Idle
<1>4. Head(queue') = Head(queue)
  BY <1>2 DEF Call
<1> QED
  BY <1>2, <1>3, <1>4 DEF Current, Call

(* Every variable keeps its type.                                            *)
LEMMA TypesAreKept == Init /\ [][Next]_vars => []TypeOK
<1>1. Init => TypeOK
  <2>1. NoFile \in Files /\ Idle \in Ops /\ 0 \in 0..MaxClock
    BY StoreAssumption DEF Files, Ops
  <2>2. Init => disk \in [Paths -> Files] /\ op \in [Clients -> Ops]
    BY <2>1 DEF Init
  <2>3. Init => waiting \in Seq(Clients) /\ queue \in Seq(Clients) /\ currentSize \in Nat
    BY DEF Init
  <2> QED
    BY <2>1, <2>2, <2>3 DEF Init, TypeOK
<1>2. IsFiniteSet(Existing(disk)) /\ IInv /\ IInv' /\ TypeOK /\ [Next]_vars => TypeOK'
  <2> SUFFICES ASSUME IsFiniteSet(Existing(disk)), IInv, CallsAreTyped', TypeOK, [Next]_vars
               PROVE  TypeOK'
    BY DEF IInv
  <2>1. /\ waiting' \in Seq(Clients) /\ queue' \in Seq(Clients)
        /\ op' \in [Clients -> Ops]
        /\ step' \in {"begin", "evict", "write", "rename", "clear"}
    BY DEF CallsAreTyped, Steps
  <2>2. /\ disk \in [Paths -> Files]
        /\ clock \in 0..MaxClock /\ initialized \in BOOLEAN /\ currentSize \in Nat
        /\ victims \subseteq Paths /\ unlisted \subseteq Paths
        /\ temp \in Temps \cup {"none"} /\ stamp \in 0..MaxClock
        /\ previous \in Files /\ measured \in Nat
        /\ missed \in BOOLEAN /\ doubled \in BOOLEAN
    BY DEF TypeOK
  <2> NoFile \in Files /\ 0 \in 0..MaxClock
    BY StoreAssumption DEF Files
  <2>3. \A p \in Paths : disk[p].size \in Nat
    BY DiskIsSized
  <2>4. Runs("set") => Current.key \in Keys /\ Current.size \in Nat \ {0}
    BY SetHasKeyAndSize DEF IInv
  <2>5. Runs("delete") => Current.key \in Keys
    BY OperationsHaveKeys DEF IInv
  <2>6. SUFFICES /\ disk' \in [Paths -> Files]
                 /\ clock' \in 0..MaxClock /\ initialized' \in BOOLEAN
                 /\ currentSize' \in Nat
                 /\ victims' \subseteq Paths /\ unlisted' \subseteq Paths
                 /\ temp' \in Temps \cup {"none"} /\ stamp' \in 0..MaxClock
                 /\ previous' \in Files /\ measured' \in Nat
                 /\ missed' \in BOOLEAN /\ doubled' \in BOOLEAN
    BY <2>1 DEF TypeOK
  <2>7. CASE Settle /\ UNCHANGED <<disk, clock, memory, currentSize, errors>>
    BY <2>2, <2>7 DEF Settle, Forget, memory, errors
  <2>8. CASE Initialize
    <3>1. PICK S \in Countable : currentSize' = SizeOf(S) /\ missed' = (S # Existing(disk))
      BY <2>8 DEF Initialize
    <3>2. SizeOf(S) \in Nat
      BY <3>1, DiskIsSized, SumUnfolds, SizeOfIsSum DEF Countable
    <3> QED
      BY <2>2, <2>8, <3>1, <3>2 DEF Initialize, running, measures
  <2>9. CASE SetBegins
    <3>1. clock' \in 0..MaxClock /\ stamp' \in 0..MaxClock
      BY <2>2, <2>9, StoreAssumption DEF SetBegins, AtMost
    <3>2. measured' \in Nat /\ previous' \in Files
      BY <2>2, <2>3, <2>4, <2>9 DEF SetBegins, Paths
    <3>3. victims' \subseteq Paths /\ unlisted' \subseteq Paths
      BY <2>9 DEF SetBegins, Evictable, Existing
    <3> QED
      BY <2>2, <2>9, <3>1, <3>2, <3>3 DEF SetBegins, memory, errors
  <2>10. CASE Evict
    <3>1. PICK p \in victims : /\ disk' = [disk EXCEPT ![p] = NoFile]
                               /\ currentSize' = Minus(currentSize, disk[p].size)
                               /\ victims' = victims \ {p}
      BY <2>10 DEF Evict
    <3>2. currentSize' \in Nat
      BY <2>2, <2>3, <3>1 DEF Minus
    <3> QED
      BY <2>2, <2>10, <3>1, <3>2 DEF Evict, memory, measures, errors
  <2>11. CASE WriteBegins
    <3>1. PICK t \in Temps, s \in 0..(Current.size - 1) :
             disk' = [disk EXCEPT ![t] = File(s, stamp, FALSE)] /\ temp' = t
      BY <2>11 DEF WriteBegins, Target
    <3>2. s \in Nat /\ FALSE \in BOOLEAN
      BY <2>4, <2>11, <3>1 DEF WriteBegins
    <3>3. File(s, stamp, FALSE) \in Files
      BY <2>2, <3>2, FileIsTyped
    <3> QED
      BY <2>2, <2>11, <3>1, <3>3 DEF WriteBegins, memory, measures, errors
  <2>12. CASE WriteEnds
    <3>1. File(Current.size, stamp, TRUE) \in Files
      BY <2>2, <2>4, <2>12, FileIsTyped DEF WriteEnds
    <3> QED
      BY <2>2, <2>12, <3>1 DEF WriteEnds, memory, measures, errors
  <2>13. CASE Rename
    <3>1. temp \in Paths /\ Current.key \in Paths
      BY <2>4, <2>13 DEF Rename, IInv, LocalsFit, Paths
    <3>2. currentSize' \in Nat
      <4>1. Current.size \in Nat /\ measured \in Nat
        BY <2>2, <2>4, <2>13 DEF Rename
      <4> QED
        BY <2>2, <2>13, <4>1 DEF Rename, Accounted, Minus
    <3>3. doubled' \in BOOLEAN
      BY <2>2, <2>13, Zenon DEF Rename
    <3> QED
      BY <2>2, <2>13, <3>1, <3>2, <3>3 DEF Rename, Settle, Forget, memory
  <2>14. CASE WriteFails
    <3>1. disk' = disk \/ disk' = [disk EXCEPT ![temp] = NoFile]
      BY <2>14 DEF WriteFails
    <3>2. missed' \in BOOLEAN
      BY <2>2, <2>14 DEF WriteFails
    <3> QED
      BY <2>2, <2>14, <3>1, <3>2 DEF WriteFails, Settle, Forget, memory
  <2>15. CASE Delete
    <3>1. \/ disk' = disk /\ currentSize' = currentSize
          \/ /\ disk' = [disk EXCEPT ![Current.key] = NoFile]
             /\ currentSize' = Minus(currentSize, disk[Current.key].size)
      BY <2>15 DEF Delete
    <3>2. currentSize' \in Nat
      BY <2>2, <2>3, <2>5, <2>15, <3>1 DEF Delete, Minus, Paths
    <3> QED
      BY <2>2, <2>15, <3>1, <3>2 DEF Delete, Settle, Forget, memory, errors
  <2>16. CASE ClearBegins \/ ClearRemoves
    BY <2>2, <2>16 DEF ClearBegins, ClearRemoves, Existing, memory, measures, errors
  <2>17. CASE ClearEnds
    BY <2>2, <2>17 DEF ClearEnds, Settle, Forget, memory
  <2>18. CASE Crash
    BY <2>2, <2>18 DEF Crash, Forget
  <2>19. CASE InitializeFails \/ \E c \in Clients : Call(c)
    BY <2>2, <2>19 DEF InitializeFails, Call, running, measures, errors
  <2>20. CASE UNCHANGED vars
    BY <2>2, <2>20 DEF vars, measures
  <2> QED
    BY <2>7, <2>8, <2>9, <2>10, <2>11, <2>12, <2>13, <2>14, <2>15, <2>16, <2>17,
       <2>18, <2>19, <2>20 DEF Next, Mutation, SetRejects, EvictFails
<1> QED
  BY <1>1, <1>2, InductiveInvariant, FilesAreFinite, PTL

-----------------------------------------------------------------------------
(* More of what the locals of a mutation are: a set() has a temporary file   *)
(* from the write to the rename only, what it writes has its size, and what  *)
(* it or a clear() may still remove is all there is to remove, but for what  *)
(* the set() did not find, which stays.  The entry it replaces is measured   *)
(* as it is or as nothing.  No entry is larger than the cache.               *)
TempFits ==
    /\ IF step \in {"write", "rename"} THEN temp \in Temps /\ disk[temp].exists
                                       ELSE temp = "none"
    /\ step = "rename" => disk[temp].size = Current.size
VictimsFit ==
    /\ step = "evict" => /\ victims \cup unlisted = Evictable(Current.key)
                         /\ victims \cap unlisted = {}
    /\ step = "clear" => victims = Existing(disk)
    /\ unlisted \subseteq Existing(disk) \ {temp}
    /\ step \in {"begin", "clear"} => unlisted = {}
SizesFit ==
    /\ step \in {"evict", "write", "rename"} =>
          Current.size <= MaxSize /\ measured \in {previous.size, 0}
    /\ \A k \in Keys : disk[k].size <= MaxSize
LInv == TempFits /\ VictimsFit /\ SizesFit

(* The locals of a mutation stay what they are said to be above.            *)
LEMMA LocalsAreKept == Init /\ [][Next]_vars => []LInv
<1>1. Init => LInv
  BY StoreAssumption DEF Init, LInv, TempFits, VictimsFit, SizesFit, NoFile, Paths
<1>2. IInv /\ TypeOK /\ LInv /\ [Next]_vars => LInv'
  <2> SUFFICES ASSUME IInv, TypeOK, LInv, [Next]_vars PROVE LInv'
    OBVIOUS
  <2> USE DEF LInv, TempFits, VictimsFit, SizesFit
  <2>1. disk \in [Paths -> Files] /\ Keys \subseteq Paths /\ Temps \subseteq Paths
        /\ Keys \cap Temps = {} /\ MaxSize \in Nat
    BY StoreAssumption DEF TypeOK, Paths
  <2>2. Runs("set") => Current.key \in Keys /\ Current.size \in Nat \ {0}
    BY SetHasKeyAndSize DEF IInv
  <2>3. NoFile.size = 0 /\ ~NoFile.exists
    BY DEF NoFile
  <2>4. CASE Settle /\ UNCHANGED disk
    BY <2>4 DEF Settle, Forget
  <2>5. CASE Initialize
    <3>1. step \in {"evict", "write", "rename", "clear"} => queue # << >>
      BY DEF IInv, LocalsFit, Runs
    <3>2. step = "begin"
      BY <2>5, <3>1 DEF Initialize, IInv, CallsAreTyped, Steps
    <3> QED
      BY <2>5, <3>2 DEF Initialize, running
  <2>6. CASE InitializeFails
    <3>1. step \in {"evict", "write", "rename", "clear"} => queue # << >>
      BY DEF IInv, LocalsFit, Runs
    <3>2. step = "begin"
      BY <2>6, <3>1 DEF InitializeFails, IInv, CallsAreTyped, Steps
    <3> QED
      BY <2>6, <3>2 DEF InitializeFails, running
  <2>7. ASSUME NEW c \in Clients, Call(c) PROVE LInv'
    <3>1. UNCHANGED <<disk, step, victims, unlisted, temp, previous, measured>>
      BY <2>7 DEF Call, running, measures
    <3>2. step # "begin" => Current' = Current
      BY <2>7, CallKeepsTheRunning
    <3> QED
      BY <3>1, <3>2 DEF Evictable, Existing
  <2>8. CASE SetBegins
    <3>1. /\ step' = "evict" /\ disk' = disk /\ Current' = Current /\ temp' = temp
          /\ step = "begin" /\ Current.size <= MaxSize
          /\ measured' \in {previous'.size, 0}
          /\ victims' \subseteq Evictable(Current.key)
          /\ unlisted' = Evictable(Current.key) \ victims'
      BY <2>8 DEF SetBegins, Current
    <3>2. Evictable(Current.key)' = Evictable(Current.key)
      BY <3>1 DEF Evictable, Existing
    <3>3. temp' = "none" /\ "none" \notin Paths /\ Evictable(Current.key) \subseteq Existing(disk)
      BY <3>1, StoreAssumption DEF Evictable, Paths
    <3>4. VictimsFit'
      BY <3>1, <3>2, <3>3 DEF Existing
    <3> QED
      BY <3>1, <3>3, <3>4
  <2>9. CASE Evict
    <3>1. PICK p \in victims : disk' = [disk EXCEPT ![p] = NoFile] /\ victims' = victims \ {p}
      BY <2>9 DEF Evict
    <3>2. /\ step = "evict" /\ step' = "evict" /\ Current' = Current
          /\ UNCHANGED <<temp, unlisted, previous, measured>>
      BY <2>9 DEF Evict, Current, measures
    <3>3. /\ victims \cup unlisted = Evictable(Current.key) /\ victims \cap unlisted = {}
          /\ unlisted \subseteq Existing(disk) \ {temp}
      BY <3>2
    <3>4. Evictable(Current.key)' = Evictable(Current.key) \ {p}
      BY <2>1, <2>3, <3>1, <3>2 DEF Evictable, Existing
    <3>5. victims' \cup unlisted = Evictable(Current.key)' /\ victims' \cap unlisted = {}
      BY <3>1, <3>3, <3>4
    <3>6. unlisted \subseteq Existing(disk') \ {temp}
      BY <2>1, <3>1, <3>3 DEF Existing
    <3>7. TempFits' /\ VictimsFit'
      BY <3>1, <3>2, <3>5, <3>6
    <3>8. SizesFit'
      BY <2>1, <2>3, <3>1, <3>2
    <3> QED
      BY <3>7, <3>8
  <2>10. CASE WriteBegins
    <3>1. PICK t \in Temps, s \in 0..(Current.size - 1) :
             disk' = [disk EXCEPT ![t] = File(s, stamp, FALSE)] /\ temp' = t
      BY <2>10 DEF WriteBegins, Target
    <3>2. /\ step = "evict" /\ step' = "write" /\ Current' = Current /\ ~disk[t].exists
          /\ UNCHANGED <<unlisted, previous, measured>>
      BY <2>10, <3>1 DEF WriteBegins, Current, measures, Target
    <3>3. disk'[temp'].exists
      BY <2>1, <3>1 DEF File
    <3>4. unlisted \subseteq Existing(disk') \ {temp'}
      <4>1. ~disk[temp'].exists
        BY <2>10 DEF WriteBegins, Target
      <4>2. \A q \in Paths : q # temp' => disk'[q] = disk[q]
        BY <2>1, <3>1
      <4> QED
        BY <4>1, <4>2 DEF Existing
    <3> QED
      BY <2>1, <3>1, <3>2, <3>3, <3>4
  <2>11. CASE WriteEnds
    <3>1. disk' = [disk EXCEPT ![temp] = File(Current.size, stamp, TRUE)] /\ temp' = temp
          /\ step = "write" /\ step' = "rename" /\ Current' = Current
          /\ UNCHANGED <<unlisted, previous, measured>>
      BY <2>11 DEF WriteEnds, Current, measures
    <3>2. disk'[temp'].exists /\ disk'[temp'].size = Current.size
      BY <2>1, <3>1 DEF File
    <3>3. unlisted \subseteq Existing(disk') \ {temp'}
      BY <2>1, <3>1 DEF Existing
    <3> QED
      BY <2>1, <3>1, <3>2, <3>3
  <2>12. CASE Rename
    <3>1. disk' = [disk EXCEPT ![Current.key] = disk[temp], ![temp] = NoFile]
          /\ step = "rename" /\ step' = "begin" /\ temp' = "none" /\ unlisted' = {}
      BY <2>12 DEF Rename, Settle, Forget
    <3> QED
      BY <2>1, <2>2, <2>3, <2>12, <3>1 DEF Rename
  <2>13. CASE WriteFails \/ Delete
    <3>1. \E p : disk' = disk \/ disk' = [disk EXCEPT ![p] = NoFile]
      BY <2>13 DEF WriteFails, Delete
    <3>2. step' = "begin" /\ temp' = "none" /\ unlisted' = {}
      BY <2>13 DEF WriteFails, Delete, Settle, Forget
    <3> QED
      BY <2>1, <2>3, <3>1, <3>2
  <2>14. CASE ClearBegins
    BY <2>14 DEF ClearBegins, Existing
  <2>15. CASE ClearRemoves
    <3>1. PICK p \in victims : disk' = [disk EXCEPT ![p] = NoFile] /\ victims' = victims \ {p}
      BY <2>15 DEF ClearRemoves
    <3>2. step = "clear" /\ step' = "clear" /\ temp' = temp /\ unlisted = {} /\ unlisted' = {}
      BY <2>15 DEF ClearRemoves
    <3>3. victims' = Existing(disk')
      BY <2>1, <2>3, <3>1, <3>2 DEF Existing
    <3> QED
      BY <2>1, <2>3, <3>1, <3>2, <3>3 DEF Existing
  <2>16. CASE Crash
    BY <2>16 DEF Crash, Forget
  <2>17. CASE UNCHANGED vars
    BY <2>17 DEF vars, Current, Evictable, Existing, measures
  <2> QED
    BY <2>4, <2>5, <2>6, <2>7, <2>8, <2>9, <2>10, <2>11, <2>12, <2>13, <2>14, <2>15,
       <2>16, <2>17 DEF Next, Mutation, SetRejects, EvictFails, ClearEnds
<1> QED
  BY <1>1, <1>2, InductiveInvariant, TypesAreKept, PTL

-----------------------------------------------------------------------------
(* How a change of the disk changes the sum: a file that goes, a file that   *)
(* is put at a path that had none, and files that stay.                      *)
LEMMA SumAfterRemoval ==
    ASSUME NEW d, NEW e, NEW S, Sized(d, S), NEW p \in S, NEW T, T = S \ {p},
           \A q \in T : e[q].size = d[q].size
    PROVE  /\ Sum(d, S) = d[p].size + Sum(e, T)
           /\ d[p].size \in Nat /\ Sum(e, T) \in Nat /\ Sized(e, T)
<1>1. Sized(d, T)
  BY FS_Subset DEF Sized
<1>2. Sum(d, T) = Sum(e, T) /\ Sized(e, T)
  BY <1>1, SumDependsOnSizes
<1>3. Sum(d, S) = d[p].size + Sum(d, S \ {p})
  BY SumWithout
<1>4. T \in SUBSET T
  OBVIOUS
<1> QED
  BY <1>2, <1>3, <1>4, SumUnfolds DEF Sized

(* The files of the cache: all but the temporary file of the running set().  *)
Cached == Existing(disk) \ {temp}
Torn == {p \in Cached : ~disk[p].whole}
Total == Sum(disk, Cached)

(* What SizeIsExact and SetMakesRoom say of the disk, in these terms.       *)
LEMMA CacheIsCounted ==
    /\ SizeOf(Existing(disk) \ InProgress) = Total
    /\ SizeOf(TornFiles) = Sum(disk, Torn) /\ SizeOf(TornFiles)' = Sum(disk, Torn)'
    /\ SizeOf(Existing(disk))' = Sum(disk', Existing(disk'))
    /\ SizeOf(unlisted) = Sum(disk, unlisted)
<1>1. Existing(disk) \ InProgress = Cached /\ TornFiles = Torn
  BY DEF InProgress, TornFiles, Torn, Cached
<1>2. TornFiles' = Torn'
  BY DEF InProgress, TornFiles, Torn, Cached
<1>3. Existing(disk)' = Existing(disk')
  BY DEF Existing
<1> QED
  BY <1>1, <1>2, <1>3, SizeOfIsSum DEF Total

(* What is counted is what is there: no less, unless a failure has left      *)
(* files out, and no more, unless a replaced entry was not measured.         *)
Counted ==
    initialized /\ step # "clear" =>
        (missed \/ currentSize >= Total) /\ (doubled \/ currentSize <= Total)

(* When a set() has given up evicting, the cache holds torn files, entries   *)
(* it did not find and the one that is replaced, and no more.                *)
RoomIsMade ==
    step \in {"write", "rename"} =>
        HasRoom \/ Total <= previous.size + Sum(disk, Torn) + Sum(disk, unlisted)

CacheIsSized ==
    /\ Sized(disk, Cached) /\ Sized(disk, Torn) /\ Sized(disk, Existing(disk))
    /\ Sized(disk, unlisted) /\ Sum(disk, unlisted) \in Nat
    /\ Total \in Nat /\ Sum(disk, Torn) \in Nat /\ currentSize \in Nat
    /\ DOMAIN disk = Paths /\ previous.size \in Nat /\ measured \in Nat
    /\ \A p \in Paths : disk[p].size \in Nat /\ (disk[p].exists \/ disk[p].size = 0)
    /\ step \notin {"write", "rename"} => temp = "none" /\ Cached = Existing(disk)
AllInv == IInv /\ TypeOK /\ IsFiniteSet(Existing(disk)) /\ LInv /\ CacheIsSized

(* Together with the invariants above, what the steps below use of them.    *)
LEMMA AllInvHolds == Init /\ [][Next]_vars => []AllInv
<1>1. IInv /\ TypeOK /\ IsFiniteSet(Existing(disk)) /\ LInv => AllInv
  <2> SUFFICES ASSUME IInv, TypeOK, IsFiniteSet(Existing(disk)), LInv PROVE CacheIsSized
    BY DEF AllInv
  <2>1. /\ disk \in [Paths -> Files] /\ previous \in Files /\ currentSize \in Nat
        /\ measured \in Nat
    BY DEF TypeOK
  <2>2. /\ Sized(disk, Cached) /\ Sized(disk, Torn) /\ Sized(disk, Existing(disk))
        /\ Sized(disk, unlisted)
    BY DiskIsSized DEF Cached, Torn, LInv, VictimsFit
  <2>3. Total \in Nat /\ Sum(disk, Torn) \in Nat /\ Sum(disk, unlisted) \in Nat
    <3>1. Cached \in SUBSET Cached /\ Torn \in SUBSET Torn /\ unlisted \in SUBSET unlisted
      OBVIOUS
    <3> QED
      BY <2>2, <3>1, SumUnfolds DEF Total
  <2>4. \A p \in Paths : disk[p].size \in Nat /\ (disk[p].exists \/ disk[p].size = 0)
    BY DiskIsSized
  <2>5. step \notin {"write", "rename"} => temp = "none" /\ Cached = Existing(disk)
    BY StoreAssumption DEF LInv, TempFits, Cached, Existing, Paths
  <2>6. previous.size \in Nat
    BY <2>1, FilesHaveSizes
  <2> QED
    BY <2>1, <2>2, <2>3, <2>4, <2>5, <2>6 DEF CacheIsSized
<1> QED
  BY <1>1, InductiveInvariant, TypesAreKept, FilesAreFinite, LocalsAreKept, PTL

(* A file leaves the cache and is counted out of it.                         *)
LEMMA FileLeaves ==
    ASSUME CacheIsSized, NEW p \in Cached, disk' = [disk EXCEPT ![p] = NoFile],
           Cached = Existing(disk), Cached' = Existing(disk'),
           currentSize' = Minus(currentSize, disk[p].size),
           initialized' = initialized, missed' = missed, doubled' = doubled,
           step # "clear", Counted
    PROVE  Counted'
<1>1. Cached' = Cached \ {p} /\ \A q \in Cached' : disk'[q].size = disk[q].size
  BY DEF CacheIsSized, Existing, NoFile
<1>2. Total = disk[p].size + Total' /\ disk[p].size \in Nat /\ Total' \in Nat
  <2>1. Sized(disk, Cached)
    BY DEF CacheIsSized
  <2>2. ASSUME NEW e, NEW T, T = Cached \ {p}, \A q \in T : e[q].size = disk[q].size
        PROVE  /\ Sum(disk, Cached) = disk[p].size + Sum(e, T)
               /\ disk[p].size \in Nat /\ Sum(e, T) \in Nat
    BY <2>1, <2>2, SumAfterRemoval
  <2>3. /\ Sum(disk, Cached) = disk[p].size + Sum(disk', Cached')
        /\ disk[p].size \in Nat /\ Sum(disk', Cached') \in Nat
    BY <1>1, <2>2
  <2> QED
    BY <2>3 DEF Total
<1>3. currentSize \in Nat
  BY DEF CacheIsSized
<1> QED
  BY <1>2, <1>3 DEF Counted, Minus

(* Files come and stay, and what is counted stays.                           *)
LEMMA FilesStay ==
    ASSUME CacheIsSized, Cached \subseteq Cached', Sized(disk, Cached)',
           \A p \in Cached : disk'[p].size = disk[p].size
    PROVE  Total <= Total' /\ (Cached' = Cached => Total' = Total)
<1>1. Sum(disk, Cached) = Sum(disk', Cached)
  BY SumDependsOnSizes DEF CacheIsSized
<1>2. Sum(disk', Cached) <= Sum(disk', Cached')
  BY SumIsMonotone
<1>3. Total \in Nat
  BY DEF CacheIsSized
<1> QED
  BY <1>1, <1>2, <1>3 DEF Total

(* A step that leaves the count alone, and the cache the files it has.       *)
LEMMA CountStays ==
    ASSUME CacheIsSized, CacheIsSized', Cached \subseteq Cached',
           \A p \in Cached : disk'[p].size = disk[p].size,
           Cached' = Cached \/ missed', missed => missed', doubled => doubled',
           currentSize' = currentSize, initialized' = initialized,
           step # "clear", Counted
    PROVE  Counted'
<1>1. Total <= Total' /\ (Cached' = Cached => Total' = Total)
  BY FilesStay DEF CacheIsSized
<1>2. Total \in Nat /\ Total' \in Nat /\ currentSize \in Nat
  BY DEF CacheIsSized
<1> QED
  BY <1>1, <1>2 DEF Counted

(* As long as the files of the cache stay, so do the sums over them.         *)
LEMMA SumsStay ==
    ASSUME CacheIsSized, Cached' = Cached, \A p \in Cached : disk'[p] = disk[p],
           unlisted \subseteq Cached
    PROVE  /\ Total' = Total /\ Torn' = Torn /\ Sum(disk', Torn') = Sum(disk, Torn)
           /\ Sum(disk', unlisted) = Sum(disk, unlisted)
<1>1. Torn' = Torn
  BY DEF Torn
<1>2. \A p \in Torn : disk'[p].size = disk[p].size
  BY DEF Torn
<1>3. \A p \in unlisted : disk'[p].size = disk[p].size
  OBVIOUS
<1>4. Sized(disk, Cached) /\ Sized(disk, Torn) /\ Sized(disk, unlisted)
  BY DEF CacheIsSized
<1>5. ASSUME NEW S, Sized(disk, S), \A p \in S : disk'[p].size = disk[p].size
      PROVE  Sum(disk', S) = Sum(disk, S)
  BY <1>5, SumDependsOnSizes
<1>6. Sum(disk', Cached) = Sum(disk, Cached)
  BY <1>4, <1>5
<1> QED
  BY <1>1, <1>2, <1>3, <1>4, <1>5, <1>6 DEF Total

(* A rename replaces the entry and accounts for it.                          *)
LEMMA RenameCounts ==
    ASSUME AllInv, AllInv', Rename, Counted
    PROVE  /\ Counted'
           /\ currentSize' = Minus(currentSize + Current.size, measured)
           /\ Total' = Current.size + (Total - previous.size) /\ Cached' = Existing(disk')
           /\ Torn' = Torn /\ \A p \in Torn : disk'[p] = disk[p]
<1> DEFINE key == Current.key
           others == Cached \ {key}
<1>1. /\ step = "rename" /\ Runs("set") /\ disk[key] = previous /\ temp \in Temps
      /\ disk[temp].whole /\ disk[temp].size = Current.size /\ disk[temp].exists
      /\ key \in Keys /\ Current.size \in Nat /\ step' = "begin" /\ temp' = "none"
      /\ initialized' = initialized /\ missed' = missed
      /\ doubled' = (doubled \/ measured # previous.size)
      /\ measured \in {previous.size, 0}
      /\ disk[key].exists => disk[key].whole
  BY SetHasKeyAndSize DEF Rename, Settle, Forget, memory, AllInv, IInv, LocalsFit, KeysAreWhole,
     LInv, TempFits, SizesFit
<1>2. disk' = [disk EXCEPT ![key] = disk[temp], ![temp] = NoFile]
  BY DEF Rename
<1>3. key \in Paths /\ temp \in Paths /\ temp # key /\ DOMAIN disk = Paths
  BY <1>1, StoreAssumption DEF Paths, AllInv, IInv
<1>4. /\ disk'[key] = disk[temp] /\ disk'[temp] = NoFile
      /\ \A p \in Paths \ {key, temp} : disk'[p] = disk[p]
  BY <1>2, <1>3
<1>5. Cached' = others \cup {key} /\ key \notin others /\ \A p \in others : disk'[p] = disk[p]
  <2>1. Cached' = Existing(disk')
    BY <1>1, StoreAssumption DEF Cached, Existing, Paths
  <2>2. ~NoFile.exists
    BY DEF NoFile
  <2> QED
    BY <1>1, <1>3, <1>4, <2>1, <2>2 DEF Cached, Existing
<1>6. Torn' = Torn /\ \A p \in Torn : disk'[p] = disk[p]
  <2>1. key \notin Torn
    BY <1>1 DEF Torn, Cached, Existing
  <2>2. Torn \subseteq others
    BY <2>1 DEF Torn
  <2>3. Torn' = {p \in Cached' : ~disk'[p].whole}
    BY DEF Torn
  <2>4. disk'[key].whole
    BY <1>1, <1>4
  <2> HIDE DEF others
  <2>5. Torn' = {p \in others : ~disk[p].whole}
    BY <1>5, <2>3, <2>4
  <2>6. {p \in others : ~disk[p].whole} = Torn
    BY <2>1 DEF others, Torn
  <2> QED
    BY <1>5, <2>2, <2>5, <2>6
<1>7. /\ currentSize \in Nat /\ Total \in Nat /\ Total' \in Nat /\ previous.size \in Nat
      /\ previous.exists \/ previous.size = 0
      /\ Sized(disk, Cached) /\ Sized(disk', Cached')
  <2>1. CacheIsSized /\ CacheIsSized'
    BY DEF AllInv
  <2> QED
    BY <1>1, <1>3, <2>1 DEF CacheIsSized
<1>8. Total' = Current.size + Sum(disk', others) /\ Sum(disk', others) \in Nat
  <2>1. ASSUME NEW e, NEW T, Sized(e, T), key \in T, T \ {key} = others
        PROVE  Sum(e, T) = e[key].size + Sum(e, others) /\ Sum(e, others) \in Nat
    <3>1. others \in SUBSET T
      BY <2>1
    <3>2. Sum(e, others) \in Nat
      BY <2>1, <3>1, SumUnfolds
    <3> QED
      BY <2>1, <3>2, SumWithout
  <2>2. key \in Cached' /\ Cached' \ {key} = others
    BY <1>5
  <2>3. Sum(disk', Cached') = disk'[key].size + Sum(disk', others) /\ Sum(disk', others) \in Nat
    BY <1>7, <2>1, <2>2
  <2> QED
    BY <1>1, <1>4, <2>3 DEF Total
<1>9. Total = previous.size + Sum(disk', others)
  <2>1. Sized(disk, others)
    BY <1>7, FS_Subset DEF Sized
  <2>2. Sum(disk', others) = Sum(disk, others)
    BY <1>5, <2>1, SumDependsOnSizes
  <2>3. CASE key \in Cached
    BY <1>1, <1>7, <2>2, <2>3, SumWithout DEF Total
  <2>4. CASE key \notin Cached
    <3>1. ~previous.exists /\ others = Cached
      BY <1>1, <1>3, <2>4 DEF Cached, Existing
    <3> QED
      BY <1>7, <2>2, <3>1 DEF Total
  <2> QED
    BY <2>3, <2>4
<1>10. currentSize' = Minus(currentSize + Current.size, measured)
  BY DEF Rename, Accounted
<1>11. Total' = Current.size + (Total - previous.size) /\ previous.size <= Total
  <2> HIDE DEF others
  <2> QED
    BY <1>1, <1>7, <1>8, <1>9
<1>12. Counted'
  <2> HIDE DEF others
  <2>1. initialized /\ step # "clear"
    BY <1>1 DEF AllInv, IInv, CallsAreTyped, Runs
  <2>2. missed \/ currentSize' >= Total'
    BY <1>1, <1>7, <1>10, <1>11, <2>1 DEF Counted, Minus
  <2>3. ASSUME ~doubled' PROVE currentSize' <= Total'
    <3>1. ~doubled /\ measured = previous.size
      BY <1>1, <2>3
    <3> QED
      BY <1>1, <1>7, <1>10, <1>11, <2>1, <3>1 DEF Counted, Minus
  <2> QED
    BY <1>1, <2>2, <2>3 DEF Counted
<1>13. Cached' = Existing(disk')
  BY <1>1, StoreAssumption DEF Cached, Existing, Paths
<1> QED
  BY <1>6, <1>10, <1>11, <1>12, <1>13

(* Every step of every mutation keeps the count and the room it has made.   *)
LEMMA SizesAreKept == Init /\ [][Next]_vars => [](Counted /\ RoomIsMade)
<1>1. Init => Counted /\ RoomIsMade
  BY DEF Init, Counted, RoomIsMade
<1>2. AllInv /\ AllInv' /\ Counted /\ [Next]_vars => Counted'
  <2> SUFFICES ASSUME AllInv, AllInv', Counted, [Next]_vars PROVE Counted'
    OBVIOUS
  <2>1. CacheIsSized /\ CacheIsSized' /\ IInv /\ LInv /\ LInv' /\ TypeOK
    BY DEF AllInv
  <2> USE <2>1
  <2>2. step \notin {"write", "rename"} => temp = "none" /\ Cached = Existing(disk)
    BY DEF CacheIsSized
  <2>3. step' \notin {"write", "rename"} => temp' = "none" /\ Cached' = Existing(disk')
    BY DEF CacheIsSized, Existing
  <2>4. CASE SetRejects \/ EvictFails \/ SetBegins
    <3>1. /\ step \in {"begin", "evict"} /\ step' \in {"begin", "evict"} /\ disk' = disk
          /\ currentSize' = currentSize /\ initialized' = initialized
          /\ missed' = missed /\ doubled' = doubled
      BY <2>4 DEF SetRejects, EvictFails, SetBegins, Settle, Forget, memory, errors
    <3>2. Cached' = Cached
      BY <2>2, <2>3, <3>1
    <3> QED
      BY <3>1, <3>2, CountStays
  <2>5. ASSUME NEW c \in Clients, Call(c) PROVE Counted'
    BY <2>5 DEF Call, running, errors, Counted, Total, Cached, Existing
  <2>6. CASE Initialize
    <3>1. PICK S \in Countable : currentSize' = SizeOf(S) /\ missed' = (S # Existing(disk))
      BY <2>6 DEF Initialize
    <3>2. disk' = disk /\ step' = step /\ temp' = temp /\ ~initialized
      BY <2>6 DEF Initialize, running
    <3>3. step = "begin"
      <4>1. queue = << >>
        BY <3>2 DEF IInv, CallsAreTyped
      <4> QED
        BY <4>1 DEF IInv, LocalsFit, CallsAreTyped, Steps, Runs
    <3>4. Cached' = Existing(disk) /\ Sized(disk, Existing(disk))
      BY <2>3, <3>2, <3>3 DEF CacheIsSized
    <3>5. S \subseteq Existing(disk)
      BY DEF Countable
    <3>6. Sum(disk, S) <= Sum(disk, Existing(disk))
      BY <3>4, <3>5, SumIsMonotone
    <3>7. currentSize' = Sum(disk, S) /\ Total' = Sum(disk, Existing(disk))
      BY <3>1, <3>2, <3>4, SizeOfIsSum DEF Total
    <3>8. S # Existing(disk) => missed'
      BY <3>1, Zenon
    <3>9. currentSize' \in Nat /\ Total' \in Nat
      BY DEF CacheIsSized
    <3> QED
      BY <3>6, <3>7, <3>8, <3>9 DEF Counted
  <2>7. CASE InitializeFails \/ Crash
    BY <2>7 DEF InitializeFails, Crash, Counted
  <2>8. CASE Evict
    <3>1. PICK p \in victims : /\ disk' = [disk EXCEPT ![p] = NoFile]
                               /\ currentSize' = Minus(currentSize, disk[p].size)
      BY <2>8 DEF Evict
    <3>2. /\ step = "evict" /\ step' = "evict" /\ initialized' = initialized
          /\ missed' = missed /\ doubled' = doubled
      BY <2>8 DEF Evict, memory, errors
    <3>3. p \in Existing(disk)
      BY <3>1, <3>2 DEF LInv, VictimsFit, Evictable
    <3> QED
      BY <2>2, <2>3, <3>1, <3>2, <3>3, FileLeaves DEF Existing
  <2>9. CASE WriteBegins
    <3>1. PICK t \in Temps, s \in 0..(Current.size - 1) :
             disk' = [disk EXCEPT ![t] = File(s, stamp, FALSE)] /\ temp' = t /\ ~disk[t].exists
      BY <2>9 DEF WriteBegins, Target
    <3>2. /\ step = "evict" /\ currentSize' = currentSize /\ initialized' = initialized
          /\ missed' = missed /\ doubled' = doubled
      BY <2>9 DEF WriteBegins, memory, errors
    <3>3. t \in Paths /\ t \notin Existing(disk) /\ DOMAIN disk = Paths
      BY <3>1 DEF Paths, Existing, CacheIsSized
    <3>4. \A p \in Paths \ {t} : disk'[p] = disk[p]
      BY <3>1, <3>3
    <3>5. Cached = Existing(disk)
      BY <2>2, <3>2
    <3>6. Cached' = Cached /\ \A p \in Cached : disk'[p] = disk[p]
      BY <3>1, <3>3, <3>4, <3>5 DEF Cached, Existing
    <3> QED
      BY <3>2, <3>6, CountStays
  <2>10. CASE WriteEnds
    <3>1. /\ disk' = [disk EXCEPT ![temp] = File(Current.size, stamp, TRUE)] /\ temp' = temp
          /\ step = "write" /\ currentSize' = currentSize /\ initialized' = initialized
          /\ missed' = missed /\ doubled' = doubled
      BY <2>10 DEF WriteEnds, memory, errors
    <3>2. Cached' = Cached /\ \A p \in Cached : disk'[p] = disk[p]
      BY <3>1 DEF Cached, Existing, CacheIsSized
    <3> QED
      BY <3>1, <3>2, CountStays
  <2>11. CASE Rename
    BY <2>11, RenameCounts
  <2>12. CASE WriteFails
    <3>1. /\ step \in {"evict", "write", "rename"} /\ step' = "begin"
          /\ currentSize' = currentSize /\ initialized' = initialized /\ doubled' = doubled
      BY <2>12 DEF WriteFails, Settle, Forget, memory
    <3>2. Cached' = Existing(disk')
      BY <2>3, <3>1
    <3>3. CASE disk' = disk /\ (missed' \/ (step = "evict" /\ missed' = missed))
      <4>1. Cached \subseteq Cached' /\ (Cached' = Cached \/ missed')
        BY <2>2, <3>2, <3>3 DEF Cached
      <4> QED
        BY <3>1, <3>3, <4>1, CountStays
    <3>4. CASE step # "evict" /\ disk' = [disk EXCEPT ![temp] = NoFile] /\ missed' = missed
      <4>1. Cached' = Cached /\ \A p \in Cached : disk'[p] = disk[p]
        BY <3>2, <3>4 DEF Cached, Existing, CacheIsSized, NoFile, LInv, TempFits
      <4> QED
        BY <3>1, <3>4, <4>1, CountStays
    <3> QED
      BY <2>12, <3>3, <3>4 DEF WriteFails
  <2>13. CASE Delete
    <3>1. /\ step = "begin" /\ step' = "begin" /\ initialized' = initialized
          /\ missed' = missed /\ doubled' = doubled /\ Current.key \in Keys
      BY <2>13, OperationsHaveKeys DEF Delete, Settle, Forget, memory, errors, IInv
    <3>2. CASE disk' = disk /\ currentSize' = currentSize
      <4>1. Cached' = Cached
        BY <2>2, <2>3, <3>1, <3>2
      <4> QED
        BY <3>1, <3>2, <4>1, CountStays
    <3>3. CASE /\ disk[Current.key].exists
               /\ disk' = [disk EXCEPT ![Current.key] = NoFile]
               /\ currentSize' = Minus(currentSize, disk[Current.key].size)
      <4>1. Current.key \in Cached
        BY <2>2, <3>1, <3>3 DEF Existing, Paths
      <4> QED
        BY <2>2, <2>3, <3>1, <3>3, <4>1, FileLeaves
    <3> QED
      BY <2>13, <3>2, <3>3 DEF Delete
  <2>14. CASE ClearBegins \/ ClearRemoves
    BY <2>14 DEF ClearBegins, ClearRemoves, Counted
  <2>15. CASE ClearEnds
    <3>1. /\ currentSize' = 0 /\ missed' = (victims # {}) /\ disk' = disk
          /\ step' = "begin" /\ victims = Existing(disk)
      BY <2>15 DEF ClearEnds, Settle, Forget, LInv, VictimsFit
    <3>2. Cached' = Existing(disk)
      BY <2>3, <3>1
    <3>3. Total' \in Nat
      BY DEF CacheIsSized
    <3>4. victims = {} => Total' = 0
      <4>1. Sized(disk', Cached') /\ Cached' \in SUBSET Cached'
        BY DEF CacheIsSized
      <4>2. ASSUME NEW e, NEW T, Sized(e, T), T = {} PROVE Sum(e, T) = 0
        BY <4>2, SumUnfolds
      <4> QED
        BY <3>1, <3>2, <4>1, <4>2 DEF Total
    <3>5. victims = {} \/ missed'
      BY <3>1, Zenon
    <3>6. currentSize' <= Total'
      BY <3>1, <3>3
    <3> QED
      BY <3>1, <3>4, <3>5, <3>6 DEF Counted
  <2>16. CASE UNCHANGED vars
    BY <2>16 DEF vars, errors, Counted, Total, Cached, Existing
  <2> QED
    BY <2>4, <2>5, <2>6, <2>7, <2>8, <2>9, <2>10, <2>11, <2>12, <2>13, <2>14, <2>15,
       <2>16 DEF Next, Mutation
<1>3. AllInv /\ AllInv' /\ Counted /\ RoomIsMade /\ [Next]_vars => RoomIsMade'
  <2> SUFFICES ASSUME AllInv, AllInv', Counted, RoomIsMade, [Next]_vars,
                      step' \in {"write", "rename"}
               PROVE  HasRoom' \/ Total' <= previous'.size + Sum(disk', Torn') + Sum(disk', unlisted')
    BY DEF RoomIsMade
  <2>1. CacheIsSized /\ CacheIsSized' /\ IInv /\ LInv /\ TypeOK
    BY DEF AllInv
  <2> USE <2>1
  <2>2. CASE WriteBegins
    <3>1. PICK t \in Temps, s \in 0..(Current.size - 1) :
             disk' = [disk EXCEPT ![t] = File(s, stamp, FALSE)] /\ temp' = t /\ ~disk[t].exists
      BY <2>2 DEF WriteBegins, Target
    <3>2. /\ step = "evict" /\ Runs("set") /\ (HasRoom \/ victims = {})
          /\ UNCHANGED <<currentSize, previous, measured, unlisted>> /\ Current' = Current
          /\ Cached = Existing(disk)
          /\ victims \cup unlisted = Evictable(Current.key) /\ unlisted \subseteq Cached
          /\ disk[Current.key] = previous /\ queue # << >>
      BY <2>2 DEF WriteBegins, Current, CacheIsSized, LInv, VictimsFit, IInv, LocalsFit, Runs,
                  measures
    <3>3. CASE HasRoom
      BY <3>2, <3>3 DEF HasRoom
    <3>4. CASE victims = {}
      <4>1. Current.key \in Paths /\ (previous.exists => previous.whole)
        BY <3>2, SetHasKeyAndSize DEF IInv, KeysAreWhole, Paths
      <4>2. unlisted = Evictable(Current.key)
        BY <3>2, <3>4
      <4>3. /\ Torn \subseteq Cached \ {Current.key}
            /\ (Cached \ {Current.key}) \ Torn = unlisted
        BY <3>2, <4>1, <4>2 DEF Evictable, Torn, Existing
      <4>4. Sized(disk, Cached \ {Current.key})
        BY FS_Subset DEF CacheIsSized, Sized
      <4>5. Sum(disk, Cached \ {Current.key}) = Sum(disk, Torn) + Sum(disk, unlisted)
        BY <4>3, <4>4, SumOfParts
      <4>6. Total <= previous.size + Sum(disk, Torn) + Sum(disk, unlisted)
        <5>1. CASE Current.key \in Cached
          <6>1. Sized(disk, Cached)
            BY DEF CacheIsSized
          <6>2. Sum(disk, Cached) = disk[Current.key].size + Sum(disk, Cached \ {Current.key})
            BY <5>1, <6>1, SumWithout
          <6>3. /\ previous.size \in Nat /\ Sum(disk, Torn) \in Nat
                /\ Sum(disk, unlisted) \in Nat
            BY DEF CacheIsSized
          <6>4. Total = previous.size + (Sum(disk, Torn) + Sum(disk, unlisted))
            BY <3>2, <4>5, <6>2 DEF Total
          <6> QED
            BY <6>3, <6>4
        <5>2. CASE Current.key \notin Cached
          <6>1. Cached \ {Current.key} = Cached
            BY <5>2
          <6> QED
            BY <4>5, <6>1 DEF Total, CacheIsSized
        <5> QED
          BY <5>1, <5>2
      <4>7. t \in Paths /\ t \notin Existing(disk) /\ DOMAIN disk = Paths
        BY <3>1 DEF Paths, Existing, CacheIsSized
      <4>8. \A p \in Paths \ {t} : disk'[p] = disk[p]
        BY <3>1, <4>7
      <4>9. Cached' = Cached /\ \A p \in Cached : disk'[p] = disk[p]
        BY <3>1, <3>2, <4>7, <4>8 DEF Cached, Existing
      <4> QED
        BY <3>2, <4>6, <4>9, SumsStay
    <3> QED
      BY <3>2, <3>3, <3>4
  <2>3. CASE WriteEnds
    <3>1. /\ disk' = [disk EXCEPT ![temp] = File(Current.size, stamp, TRUE)] /\ temp' = temp
          /\ step = "write" /\ UNCHANGED <<currentSize, previous, measured, unlisted>>
          /\ Current' = Current /\ unlisted \subseteq Cached
      BY <2>3 DEF WriteEnds, Current, measures, LInv, VictimsFit, Cached
    <3>2. Cached' = Cached /\ \A p \in Cached : disk'[p] = disk[p]
      BY <3>1 DEF Cached, Existing, CacheIsSized
    <3> QED
      BY <3>1, <3>2, SumsStay DEF RoomIsMade, HasRoom
  <2>4. ASSUME UNCHANGED <<disk, step, temp, previous, measured, unlisted, currentSize>>,
               step # "begin" => Current' = Current
        PROVE  HasRoom' \/ Total' <= previous'.size + Sum(disk', Torn') + Sum(disk', unlisted')
    <3>1. Torn' = Torn /\ Total' = Total
      BY <2>4 DEF Torn, Total, Cached, Existing
    <3> QED
      BY <2>4, <3>1 DEF RoomIsMade, HasRoom
  <2>5. CASE \E c \in Clients : Call(c)
    BY <2>4, <2>5, CallKeepsTheRunning DEF Call, running, measures
  <2>6. CASE Initialize \/ InitializeFails
    <3>1. step = "begin" /\ step' = step
      <4>1. queue = << >> /\ step' = step
        BY <2>6 DEF Initialize, InitializeFails, running, IInv, CallsAreTyped
      <4> QED
        BY <4>1 DEF IInv, LocalsFit, CallsAreTyped, Steps, Runs
    <3> QED
      BY <3>1
  <2>7. CASE UNCHANGED vars
    BY <2>4, <2>7 DEF vars, measures, Current
  <2> QED
    BY <2>2, <2>3, <2>5, <2>6, <2>7 DEF Next, Mutation, SetRejects, SetBegins, Evict, EvictFails,
       Rename, WriteFails, Delete, ClearBegins, ClearRemoves, ClearEnds, Crash, Settle, Forget
<1> QED
  BY <1>1, <1>2, <1>3, AllInvHolds, PTL

(* After any interleaving of calls, failures and crashes, currentSize is     *)
(* what the files of the cache occupy at every await of a mutation: no less, *)
(* but after the failures that leave files out, and no more, but after a     *)
(* failing stat of an entry that is replaced (cache/store.ts).               *)
THEOREM SizeIsAccounted == Spec => []SizeIsExact
<1>1. AllInv /\ Counted => SizeIsExact
  BY CacheIsCounted DEF Counted, SizeIsExact
<1> QED
  BY <1>1, AllInvHolds, SizesAreKept, PTL DEF Spec

(* A set() leaves the cache within its limit but for torn files and entries  *)
(* it could not find, whatever failed before it.                             *)
THEOREM RoomIsMadeBySet == Spec => SetMakesRoom
<1> DEFINE Limit == MaxSize + SizeOf(unlisted) + SizeOf(TornFiles)'
           A == Runs("set") /\ step = "rename" /\ initialized' /\ ~disk'[temp].exists =>
                  /\ ~missed => SizeOf(Existing(disk))' <= Limit
                  /\ ~doubled' => currentSize' <= Limit
<1>1. AllInv /\ AllInv' /\ Counted /\ Counted' /\ RoomIsMade /\ [Next]_vars => A
  <2> SUFFICES ASSUME AllInv, AllInv', Counted, Counted', RoomIsMade, [Next]_vars,
                      Runs("set"), step = "rename", initialized', ~disk'[temp].exists
               PROVE  LET limit == MaxSize + Sum(disk, unlisted) + Sum(disk', Torn')
                      IN  /\ ~missed => Sum(disk', Existing(disk')) <= limit
                          /\ ~doubled' => currentSize' <= limit
    BY CacheIsCounted
  <2>1. /\ CacheIsSized /\ CacheIsSized' /\ IInv /\ LInv /\ MaxSize \in Nat
        /\ Current.size \in Nat /\ Current.size <= MaxSize /\ previous.size <= MaxSize
        /\ measured \in {previous.size, 0} /\ temp \in Temps /\ disk[temp].exists
    BY StoreAssumption, SetHasKeyAndSize
       DEF AllInv, LInv, SizesFit, TempFits, IInv, LocalsFit, CacheIsSized
  <2> USE <2>1
  <2>2. /\ Sum(disk, Torn) \in Nat /\ Sum(disk', Torn') \in Nat /\ Sum(disk, unlisted) \in Nat
        /\ currentSize \in Nat /\ currentSize' \in Nat /\ Total \in Nat /\ Total' \in Nat
        /\ previous.size \in Nat
    BY DEF CacheIsSized
  <2>3. initialized /\ queue # << >>
    BY DEF IInv, CallsAreTyped, Runs
  <2>4. HasRoom \/ Total <= previous.size + Sum(disk, Torn) + Sum(disk, unlisted)
    BY DEF RoomIsMade
  <2>5. (missed \/ currentSize >= Total) /\ (doubled \/ currentSize <= Total)
    BY <2>3 DEF Counted
  <2>6. CASE Rename
    <3>1. /\ currentSize' = Minus(currentSize + Current.size, measured)
          /\ Total' = Current.size + (Total - previous.size)
          /\ Total' = Sum(disk', Existing(disk'))
          /\ Torn' = Torn /\ \A p \in Torn : disk'[p] = disk[p]
      BY <2>6, RenameCounts DEF Total
    <3>2. Sum(disk', Torn') = Sum(disk, Torn)
      BY <3>1, SumDependsOnSizes DEF CacheIsSized
    <3>3. doubled' \/ currentSize' <= Total'
      <4>1. step' = "begin"
        BY <2>6 DEF Rename, Settle, Forget
      <4> QED
        BY <4>1 DEF Counted
    <3>4. CASE HasRoom
      <4>1. currentSize + Minus(Current.size, measured) <= MaxSize
        BY <3>4 DEF HasRoom
      <4>2. currentSize' <= MaxSize
        BY <2>2, <3>1, <4>1 DEF Minus
      <4>3. ~missed => Total' <= MaxSize
        BY <2>2, <2>5, <3>1, <4>1 DEF Minus
      <4> QED
        BY <2>2, <3>1, <4>2, <4>3
    <3>5. CASE Total <= previous.size + Sum(disk, Torn) + Sum(disk, unlisted)
      <4>1. Total' <= MaxSize + Sum(disk, unlisted) + Sum(disk', Torn')
        BY <2>2, <3>1, <3>2, <3>5
      <4> QED
        BY <2>2, <3>1, <3>3, <4>1
    <3> QED
      BY <2>4, <3>4, <3>5
  <2>7. CASE WriteFails
    <3>1. /\ currentSize' = currentSize /\ temp' = "none" /\ doubled' = doubled
          /\ disk' = [disk EXCEPT ![temp] = NoFile]
      BY <2>7 DEF WriteFails, Settle, Forget
    <3>2. /\ Cached' = Cached /\ Cached' = Existing(disk')
          /\ \A p \in Cached : disk'[p] = disk[p]
      BY <3>1, StoreAssumption DEF Cached, Existing, CacheIsSized, Paths, NoFile
    <3>3. /\ Total' = Total /\ Total' = Sum(disk', Existing(disk'))
          /\ Sum(disk', Torn') = Sum(disk, Torn)
      BY <3>2, SumsStay DEF Total, LInv, VictimsFit, Cached
    <3>4. CASE HasRoom
      <4>1. currentSize <= MaxSize
        BY <2>2, <3>4 DEF HasRoom, Minus, CacheIsSized
      <4> QED
        BY <2>2, <2>5, <3>1, <3>3, <4>1
    <3>5. CASE Total <= previous.size + Sum(disk, Torn) + Sum(disk, unlisted)
      BY <2>2, <2>5, <3>1, <3>3, <3>5
    <3> QED
      BY <2>4, <3>4, <3>5
  <2>8. ~UNCHANGED disk
    OBVIOUS
  <2> QED
    BY <2>3, <2>6, <2>7, <2>8 DEF Next, Mutation, SetRejects, SetBegins, Evict, EvictFails,
       WriteBegins, WriteEnds, Delete, ClearBegins, ClearRemoves, ClearEnds, Crash, Call, running,
       Initialize, InitializeFails, vars, Runs
<1> QED
  BY <1>1, AllInvHolds, SizesAreKept, PTL DEF Spec, SetMakesRoom

-----------------------------------------------------------------------------
(* No key twice.                                                            *)
Distinct(s) == \A i, j \in 1 .. Len(s) : s[i] = s[j] => i = j
(* s is how t begins.                                                       *)
Begins(s, t) == Len(s) <= Len(t) /\ \A i \in 1 .. Len(s) : s[i] = t[i]

(* The elements of a sequence are those at its indices.                     *)
LEMMA ElementsOf ==
    ASSUME NEW K, NEW s \in Seq(K)
    PROVE  /\ Len(s) \in Nat /\ DOMAIN s = 1 .. Len(s)
           /\ ToSet(s) = {s[i] : i \in 1 .. Len(s)}
           /\ ToSet(s) \subseteq K
BY LenProperties, ElementOfSeq DEF ToSet

(* A set of natural numbers that is not empty has a least element.          *)
LEMMA MinIsLeast ==
    ASSUME NEW S, S \subseteq Nat, S # {}
    PROVE  Min(S) \in S
<1>1. \E x \in S : \A y \in S : ~(<<y, x>> \in OpToRel(<, Nat))
  BY NatLessThanWellFounded, WFMin
<1>2. \A x, y \in Nat : y < x => <<y, x>> \in OpToRel(<, Nat)
  BY DEF OpToRel
<1>3. \E x \in S : \A y \in S : ~(y < x)
  BY <1>1, <1>2
<1>4. \E x \in S : \A y \in S : x <= y
  BY <1>3
<1> QED
  BY <1>4 DEF Min

(* A set of numbers up to n that is not empty has a greatest element.       *)
LEMMA MaxIsGreatest ==
    ASSUME NEW n \in Nat, NEW S \in SUBSET (0 .. n), S # {}
    PROVE  Max(S) \in S
<1> DEFINE R == {n - x : x \in S}
<1>0. \A x \in S : x \in 0 .. n /\ n - x \in Nat
  <2> SUFFICES ASSUME NEW x \in S PROVE x \in 0 .. n /\ n - x \in Nat
    OBVIOUS
  <2>1. x \in 0 .. n
    OBVIOUS
  <2> QED
    BY <2>1
<1>1. R \subseteq Nat /\ R # {}
  BY <1>0
<1>2. PICK y \in R : \A z \in R : ~(<<z, y>> \in OpToRel(<, Nat))
  <2> HIDE DEF R
  <2> QED
    BY <1>1, NatLessThanWellFounded, WFMin
<1>3. \A z \in R : ~(z < y)
  <2>1. \A x, z \in Nat : z < x => <<z, x>> \in OpToRel(<, Nat)
    BY DEF OpToRel
  <2> HIDE DEF R
  <2> QED
    BY <1>1, <1>2, <2>1
<1>4. PICK x \in S : y = n - x
  BY <1>2
<1>5. \A z \in S : ~((n - z) < (n - x))
  BY <1>3, <1>4
<1>6. \A z \in S : x >= z
  <2> SUFFICES ASSUME NEW z \in S PROVE x >= z
    OBVIOUS
  <2>1. x \in 0 .. n /\ z \in 0 .. n /\ ~((n - z) < (n - x))
    BY <1>0, <1>5
  <2> QED
    BY <2>1
<1> QED
  BY <1>6 DEF Max

(* removeNode(): what RemoveFirst leaves, index by index, when no key is    *)
(* twice in the list.                                                       *)
LEMMA RemoveFirstIs ==
    ASSUME NEW K, NEW s \in Seq(K), Distinct(s), NEW p \in 1 .. Len(s)
    PROVE  LET r == RemoveFirst(s, s[p]) IN
           /\ r \in Seq(K) /\ Len(r) = Len(s) - 1
           /\ \A j \in 1 .. Len(s) - 1 : r[j] = IF j < p THEN s[j] ELSE s[j + 1]
<1>1. Len(s) \in Nat
  BY ElementsOf
<1> DEFINE I == {i \in 1 .. Len(s) : s[i] = s[p]}
<1>2. I = {p}
  BY DEF Distinct
<1>3. SelectInSeq(s, LAMBDA v : v = s[p]) = Min(I)
  BY <1>2 DEF SelectInSeq
<1>4. Min(I) = p
  <2>1. {p} \subseteq Nat /\ {p} # {}
    BY <1>1
  <2>2. Min({p}) \in {p}
    BY <2>1, MinIsLeast
  <2> QED
    BY <1>2, <2>2
<1>5. RemoveFirst(s, s[p]) = RemoveAt(s, p)
  BY <1>3, <1>4 DEF RemoveFirst
<1> DEFINE a == SubSeq(s, 1, p - 1)
           b == SubSeq(s, p + 1, Len(s))
<1>6. /\ a \in Seq(K) /\ Len(a) = p - 1
      /\ \A i \in 1 .. p - 1 : a[i] = s[i]
  <2>1. \A i \in 1 .. p - 1 : s[i] \in K
    BY <1>1, ElementOfSeq
  <2>2. p - 1 \in Int /\ p \in Nat /\ 1 \in Int
    BY <1>1
  <2>3. /\ a \in Seq(K) /\ Len(a) = IF 1 <= p - 1 THEN (p - 1) - 1 + 1 ELSE 0
        /\ \A i \in 1 .. (p - 1) - 1 + 1 : a[i] = s[1 + i - 1]
    BY <2>1, <2>2, SubSeqProperties
  <2> QED
    BY <2>2, <2>3
<1>7. /\ b \in Seq(K) /\ Len(b) = Len(s) - p
      /\ \A i \in 1 .. Len(s) - p : b[i] = s[p + i]
  <2>1. \A i \in p + 1 .. Len(s) : s[i] \in K
    BY <1>1, ElementOfSeq
  <2>2. p + 1 \in Int /\ p \in Nat /\ Len(s) \in Int
    BY <1>1
  <2>3. /\ b \in Seq(K) /\ Len(b) = IF p + 1 <= Len(s) THEN Len(s) - (p + 1) + 1 ELSE 0
        /\ \A i \in 1 .. Len(s) - (p + 1) + 1 : b[i] = s[(p + 1) + i - 1]
    BY <2>1, <2>2, SubSeqProperties
  <2> QED
    BY <1>1, <2>2, <2>3
<1> DEFINE r == a \o b
<1>8. RemoveFirst(s, s[p]) = r
  BY <1>5 DEF RemoveAt
<1> HIDE DEF a, b
<1>9. /\ r \in Seq(K) /\ Len(r) = Len(a) + Len(b)
      /\ \A j \in 1 .. Len(a) + Len(b) : r[j] = IF j <= Len(a) THEN a[j] ELSE b[j - Len(a)]
  BY <1>6, <1>7, ConcatProperties
<1> HIDE DEF r
<1>10. ASSUME NEW j \in 1 .. Len(s) - 1
       PROVE  r[j] = IF j < p THEN s[j] ELSE s[j + 1]
  <2>1. r[j] = IF j <= p - 1 THEN a[j] ELSE b[j - (p - 1)]
    <3>1. j \in 1 .. Len(a) + Len(b)
      BY <1>1, <1>6, <1>7
    <3> QED
      BY <1>6, <1>9, <3>1
  <2>2. CASE j < p
    <3>1. j \in 1 .. p - 1 /\ j <= p - 1
      BY <1>1, <2>2
    <3> QED
      BY <1>6, <2>1, <2>2, <3>1
  <2>3. CASE ~(j < p)
    <3>1. j - (p - 1) \in 1 .. Len(s) - p /\ p + (j - (p - 1)) = j + 1 /\ ~(j <= p - 1)
      BY <1>1, <2>3
    <3>2. b[j - (p - 1)] = s[p + (j - (p - 1))]
      BY <1>7, <3>1
    <3> QED
      BY <2>1, <2>3, <3>1, <3>2
  <2> QED
    BY <2>2, <2>3
<1>11. Len(r) = Len(s) - 1
  BY <1>1, <1>6, <1>7, <1>9
<1>12. r \in Seq(K)
  BY <1>9
<1>13. \A j \in 1 .. Len(s) - 1 : r[j] = IF j < p THEN s[j] ELSE s[j + 1]
  BY <1>10
<1> QED
  BY <1>8, <1>11, <1>12, <1>13

(* removeNode(): the list has lost that key and no other.                   *)
LEMMA RemoveFirstOf ==
    ASSUME NEW K, NEW s \in Seq(K), Distinct(s), NEW k
    PROVE  LET r == RemoveFirst(s, k) IN
           /\ r \in Seq(K) /\ Distinct(r) /\ ToSet(r) = ToSet(s) \ {k}
<1>1. /\ Len(s) \in Nat /\ DOMAIN s = 1 .. Len(s)
      /\ ToSet(s) = {s[i] : i \in 1 .. Len(s)}
  BY ElementsOf
<1>2. CASE k \notin ToSet(s)
  <2>1. RemoveFirst(s, k) = s
    BY <1>1, <1>2 DEF RemoveFirst
  <2> QED
    BY <1>2, <2>1
<1>3. ASSUME NEW p \in 1 .. Len(s), k = s[p]
      PROVE  LET r == RemoveFirst(s, k) IN
             /\ r \in Seq(K) /\ Distinct(r) /\ ToSet(r) = ToSet(s) \ {k}
  <2> DEFINE r == RemoveFirst(s, s[p])
  <2>1. /\ r \in Seq(K) /\ Len(r) = Len(s) - 1
        /\ \A j \in 1 .. Len(s) - 1 : r[j] = IF j < p THEN s[j] ELSE s[j + 1]
    BY RemoveFirstIs
  <2> HIDE DEF r
  <2>2. Distinct(r)
    BY <1>1, <2>1 DEF Distinct
  <2>3. ToSet(r) = {r[j] : j \in 1 .. Len(s) - 1}
    BY <2>1, ElementsOf
  <2>4. \A j \in 1 .. Len(s) - 1 : r[j] \in ToSet(s) \ {k}
    BY <1>1, <1>3, <2>1 DEF Distinct
  <2>5. ASSUME NEW i \in 1 .. Len(s), s[i] # k PROVE \E j \in 1 .. Len(s) - 1 : r[j] = s[i]
    <3>1. CASE i < p
      BY <1>1, <2>1, <3>1
    <3>2. CASE i > p
      <4>1. i - 1 \in 1 .. Len(s) - 1 /\ ~(i - 1 < p) /\ (i - 1) + 1 = i
        BY <1>1, <3>2
      <4> QED
        BY <2>1, <4>1
    <3>3. i # p
      BY <1>3, <2>5
    <3> QED
      BY <1>1, <3>1, <3>2, <3>3
  <2>6. ToSet(r) = ToSet(s) \ {k}
    BY <1>1, <2>3, <2>4, <2>5
  <2> QED
    BY <1>3, <2>1, <2>2, <2>6 DEF r
<1> QED
  BY <1>1, <1>2, <1>3

(* addToFront(): what Cons makes, index by index.                           *)
LEMMA ConsIs ==
    ASSUME NEW K, NEW s \in Seq(K), NEW k \in K
    PROVE  /\ Cons(k, s) \in Seq(K) /\ Len(Cons(k, s)) = Len(s) + 1
           /\ Cons(k, s)[1] = k
           /\ \A i \in 1 .. Len(s) : Cons(k, s)[i + 1] = s[i]
<1> DEFINE one == <<k>>
           c == one \o s
<1>1. one \in Seq(K) /\ Len(one) = 1 /\ one[1] = k
  OBVIOUS
<1>2. Len(s) \in Nat
  BY ElementsOf
<1> HIDE DEF one
<1>3. /\ c \in Seq(K) /\ Len(c) = Len(one) + Len(s)
      /\ \A i \in 1 .. Len(one) + Len(s) : c[i] = IF i <= Len(one) THEN one[i] ELSE s[i - Len(one)]
  BY <1>1, ConcatProperties
<1> HIDE DEF c
<1>4. c[1] = k /\ \A i \in 1 .. Len(s) : c[i + 1] = s[i]
  <2>1. c[1] = k
    BY <1>1, <1>2, <1>3
  <2>2. ASSUME NEW i \in 1 .. Len(s) PROVE c[i + 1] = s[i]
    <3>1. i + 1 \in 1 .. 1 + Len(s) /\ ~(i + 1 <= 1) /\ (i + 1) - 1 = i
      BY <1>2
    <3> QED
      BY <1>1, <1>3, <3>1
  <2> QED
    BY <2>1, <2>2
<1>5. Cons(k, s) = c
  BY DEF Cons, c, one
<1> QED
  BY <1>1, <1>2, <1>3, <1>4, <1>5

(* addToFront(): the list has gained that key.                              *)
LEMMA ConsOf ==
    ASSUME NEW K, NEW s \in Seq(K), Distinct(s), NEW k \in K, k \notin ToSet(s)
    PROVE  LET c == Cons(k, s) IN
           /\ c \in Seq(K) /\ Distinct(c) /\ ToSet(c) = ToSet(s) \cup {k}
<1> DEFINE c == Cons(k, s)
<1>1. /\ c \in Seq(K) /\ Len(c) = Len(s) + 1
      /\ c[1] = k /\ \A i \in 1 .. Len(s) : c[i + 1] = s[i]
  BY ConsIs
<1> HIDE DEF c
<1>2. /\ Len(s) \in Nat /\ ToSet(s) = {s[i] : i \in 1 .. Len(s)}
      /\ ToSet(c) = {c[i] : i \in 1 .. Len(s) + 1}
  BY <1>1, ElementsOf
<1>3. \A i \in 1 .. Len(s) + 1 : i = 1 \/ (i - 1 \in 1 .. Len(s) /\ c[i] = s[i - 1])
  <2> SUFFICES ASSUME NEW i \in 1 .. Len(s) + 1, i # 1
               PROVE  i - 1 \in 1 .. Len(s) /\ c[i] = s[i - 1]
    OBVIOUS
  <2>1. i - 1 \in 1 .. Len(s) /\ (i - 1) + 1 = i
    BY <1>2
  <2> QED
    BY <1>1, <2>1
<1>4. Distinct(c)
  <2> SUFFICES ASSUME NEW i \in 1 .. Len(s) + 1, NEW j \in 1 .. Len(s) + 1, c[i] = c[j]
               PROVE  i = j
    BY <1>1 DEF Distinct
  <2>1. CASE i = 1 \/ j = 1
    BY <1>1, <1>2, <1>3, <2>1
  <2>2. CASE i # 1 /\ j # 1
    <3>1. i - 1 = j - 1
      BY <1>2, <1>3, <2>2 DEF Distinct
    <3> QED
      BY <1>2, <3>1
  <2> QED
    BY <2>1, <2>2
<1>5. ToSet(c) = ToSet(s) \cup {k}
  <2>1. \A i \in 1 .. Len(s) + 1 : c[i] \in ToSet(s) \cup {k}
    BY <1>1, <1>2, <1>3
  <2>2. k \in ToSet(c)
    BY <1>1, <1>2
  <2>3. \A i \in 1 .. Len(s) : s[i] \in ToSet(c)
    <3> SUFFICES ASSUME NEW i \in 1 .. Len(s) PROVE s[i] \in ToSet(c)
      OBVIOUS
    <3>1. i + 1 \in 1 .. Len(s) + 1
      BY <1>2
    <3> QED
      BY <1>1, <1>2, <3>1
  <2> QED
    BY <1>2, <2>1, <2>2, <2>3
<1> QED
  BY <1>1, <1>4, <1>5 DEF c

(* The two halves of a list, index by index.                                *)
LEMMA SubSeqIs ==
    ASSUME NEW K, NEW s \in Seq(K), NEW n \in 0 .. Len(s)
    PROVE  /\ SubSeq(s, 1, n) \in Seq(K) /\ Len(SubSeq(s, 1, n)) = n
           /\ \A i \in 1 .. n : SubSeq(s, 1, n)[i] = s[i]
           /\ SubSeq(s, n + 1, Len(s)) \in Seq(K) /\ Len(SubSeq(s, n + 1, Len(s))) = Len(s) - n
           /\ \A i \in 1 .. Len(s) - n : SubSeq(s, n + 1, Len(s))[i] = s[n + i]
<1>1. Len(s) \in Nat
  BY ElementsOf
<1> DEFINE a == SubSeq(s, 1, n)
           b == SubSeq(s, n + 1, Len(s))
<1>2. a \in Seq(K) /\ Len(a) = n /\ \A i \in 1 .. n : a[i] = s[i]
  <2>1. \A i \in 1 .. n : s[i] \in K
    BY <1>1, ElementOfSeq
  <2>2. n \in Int /\ 1 \in Int
    BY <1>1
  <2>3. /\ a \in Seq(K) /\ Len(a) = IF 1 <= n THEN n - 1 + 1 ELSE 0
        /\ \A i \in 1 .. n - 1 + 1 : a[i] = s[1 + i - 1]
    BY <2>1, <2>2, SubSeqProperties
  <2> QED
    BY <1>1, <2>2, <2>3
<1>3. b \in Seq(K) /\ Len(b) = Len(s) - n /\ \A i \in 1 .. Len(s) - n : b[i] = s[n + i]
  <2>1. \A i \in n + 1 .. Len(s) : s[i] \in K
    BY <1>1, ElementOfSeq
  <2>2. n + 1 \in Int /\ n \in Int /\ Len(s) \in Int
    BY <1>1
  <2>3. /\ b \in Seq(K) /\ Len(b) = IF n + 1 <= Len(s) THEN Len(s) - (n + 1) + 1 ELSE 0
        /\ \A i \in 1 .. Len(s) - (n + 1) + 1 : b[i] = s[(n + 1) + i - 1]
    BY <2>1, <2>2, SubSeqProperties
  <2> QED
    BY <1>1, <2>2, <2>3
<1> QED
  BY <1>2, <1>3

(* The eviction loop takes the end of the list and leaves its beginning.    *)
LEMMA SplitOf ==
    ASSUME NEW K, NEW s \in Seq(K), Distinct(s), NEW n \in 0 .. Len(s)
    PROVE  /\ SubSeq(s, 1, n) \in Seq(K) /\ Distinct(SubSeq(s, 1, n))
           /\ Begins(SubSeq(s, 1, n), s)
           /\ ToSet(SubSeq(s, 1, n)) = ToSet(s) \ Behind(n, s)
           /\ Behind(n, s) \subseteq ToSet(s)
<1> DEFINE a == SubSeq(s, 1, n)
           b == SubSeq(s, n + 1, Len(s))
<1>1. /\ a \in Seq(K) /\ Len(a) = n /\ \A i \in 1 .. n : a[i] = s[i]
      /\ b \in Seq(K) /\ Len(b) = Len(s) - n /\ \A i \in 1 .. Len(s) - n : b[i] = s[n + i]
  BY SubSeqIs
<1> HIDE DEF a, b
<1>2. /\ Len(s) \in Nat /\ ToSet(s) = {s[i] : i \in 1 .. Len(s)}
      /\ ToSet(a) = {a[i] : i \in 1 .. n}
      /\ ToSet(b) = {b[i] : i \in 1 .. Len(s) - n}
  BY <1>1, ElementsOf
<1>3. Distinct(a) /\ Begins(a, s)
  BY <1>1, <1>2 DEF Distinct, Begins
<1>4. \A i \in 1 .. Len(s) : i \in 1 .. n \/ (i - n \in 1 .. Len(s) - n /\ b[i - n] = s[i])
  <2> SUFFICES ASSUME NEW i \in 1 .. Len(s), i \notin 1 .. n
               PROVE  i - n \in 1 .. Len(s) - n /\ b[i - n] = s[i]
    OBVIOUS
  <2>1. i - n \in 1 .. Len(s) - n /\ n + (i - n) = i
    BY <1>2
  <2> QED
    BY <1>1, <2>1
<1>5. ToSet(b) \subseteq ToSet(s)
  <2>1. \A i \in 1 .. Len(s) - n : n + i \in 1 .. Len(s)
    BY <1>2
  <2> QED
    BY <1>1, <1>2, <2>1
<1>6. ToSet(a) \subseteq ToSet(s) \ ToSet(b)
  <2>1. \A i \in 1 .. n : i \in 1 .. Len(s)
    BY <1>2
  <2>2. \A i \in 1 .. Len(s) - n : n + i \in 1 .. Len(s)
    BY <1>2
  <2>3. \A i \in 1 .. n, j \in 1 .. Len(s) - n : i # n + j
    BY <1>2
  <2>4. \A i \in 1 .. n, j \in 1 .. Len(s) - n : a[i] # b[j]
    BY <1>1, <2>1, <2>2, <2>3 DEF Distinct
  <2> QED
    BY <1>1, <1>2, <2>1, <2>4
<1>7. ToSet(s) \ ToSet(b) \subseteq ToSet(a)
  BY <1>1, <1>2, <1>4
<1>8. ToSet(b) = Behind(n, s)
  BY DEF Behind, b
<1> QED
  BY <1>1, <1>3, <1>5, <1>6, <1>7, <1>8 DEF a

(* What begins with a list still does when a key is taken out of both.      *)
LEMMA BeginsAfterRemoval ==
    ASSUME NEW K, NEW s \in Seq(K), NEW t \in Seq(K), Distinct(t), Begins(s, t), NEW k
    PROVE  Begins(RemoveFirst(s, k), RemoveFirst(t, k))
<1>1. /\ Len(s) \in Nat /\ ToSet(s) = {s[i] : i \in 1 .. Len(s)}
      /\ Len(t) \in Nat /\ ToSet(t) = {t[i] : i \in 1 .. Len(t)}
      /\ DOMAIN s = 1 .. Len(s) /\ DOMAIN t = 1 .. Len(t)
  BY ElementsOf
<1>2. Distinct(s)
  BY <1>1 DEF Begins, Distinct
<1>3. CASE k \notin ToSet(t)
  <2>1. k \notin ToSet(s)
    BY <1>1, <1>3 DEF Begins
  <2>2. RemoveFirst(s, k) = s /\ RemoveFirst(t, k) = t
    BY <1>1, <1>3, <2>1 DEF RemoveFirst
  <2> QED
    BY <2>2
<1>4. ASSUME NEW p \in 1 .. Len(t), k = t[p]
      PROVE  Begins(RemoveFirst(s, k), RemoveFirst(t, k))
  <2> DEFINE r == RemoveFirst(t, t[p])
  <2>1. /\ r \in Seq(K) /\ Len(r) = Len(t) - 1
        /\ \A j \in 1 .. Len(t) - 1 : r[j] = IF j < p THEN t[j] ELSE t[j + 1]
    BY RemoveFirstIs
  <2> HIDE DEF r
  <2>2. CASE p \in 1 .. Len(s)
    <3> DEFINE q == RemoveFirst(s, s[p])
    <3>1. /\ q \in Seq(K) /\ Len(q) = Len(s) - 1
          /\ \A j \in 1 .. Len(s) - 1 : q[j] = IF j < p THEN s[j] ELSE s[j + 1]
      BY <1>2, <2>2, RemoveFirstIs
    <3> HIDE DEF q
    <3>2. Begins(q, r)
      BY <1>1, <2>1, <3>1 DEF Begins
    <3>3. s[p] = k
      BY <1>4, <2>2 DEF Begins
    <3> QED
      BY <1>4, <3>2, <3>3 DEF q, r
  <2>3. CASE p \notin 1 .. Len(s)
    <3>1. k \notin ToSet(s)
      BY <1>1, <1>4, <2>3 DEF Begins, Distinct
    <3>2. RemoveFirst(s, k) = s
      BY <1>1, <3>1 DEF RemoveFirst
    <3>3. Begins(s, r)
      BY <1>1, <2>1, <2>3 DEF Begins
    <3> QED
      BY <1>4, <3>2, <3>3 DEF r
  <2> QED
    BY <2>2, <2>3
<1> QED
  BY <1>1, <1>3, <1>4

(* ... and when one key is put before both.                                 *)
LEMMA BeginsAfterCons ==
    ASSUME NEW K, NEW s \in Seq(K), NEW t \in Seq(K), Begins(s, t), NEW k \in K
    PROVE  Begins(Cons(k, s), Cons(k, t))
<1> DEFINE c == Cons(k, s)
           d == Cons(k, t)
<1>0. k \in K /\ s \in Seq(K) /\ t \in Seq(K)
  OBVIOUS
<1>1. /\ c \in Seq(K) /\ Len(c) = Len(s) + 1
      /\ c[1] = k /\ \A i \in 1 .. Len(s) : c[i + 1] = s[i]
  BY <1>0, ConsIs
<1>4. /\ d \in Seq(K) /\ Len(d) = Len(t) + 1
      /\ d[1] = k /\ \A i \in 1 .. Len(t) : d[i + 1] = t[i]
  BY <1>0, ConsIs
<1>2. Len(s) \in Nat /\ Len(t) \in Nat
  BY ElementsOf
<1> HIDE DEF c, d
<1>3. ASSUME NEW i \in 1 .. Len(s) + 1 PROVE c[i] = d[i]
  <2>1. CASE i = 1
    BY <1>1, <1>4, <2>1
  <2>2. CASE i # 1
    <3>1. i - 1 \in 1 .. Len(s) /\ i - 1 \in 1 .. Len(t) /\ (i - 1) + 1 = i
      BY <1>2, <2>2 DEF Begins
    <3>2. c[i] = s[i - 1] /\ d[i] = t[i - 1]
      BY <1>1, <1>4, <3>1
    <3> QED
      BY <3>1, <3>2 DEF Begins
  <2> QED
    BY <2>1, <2>2
<1> QED
  BY <1>1, <1>2, <1>3, <1>4 DEF Begins, c, d

(* Begins is the IsPrefix that the property speaks of.                      *)
LEMMA BeginsIsPrefix ==
    ASSUME NEW K, NEW s \in Seq(K), NEW t \in Seq(K), Begins(s, t)
    PROVE  IsPrefix(s, t)
<1>1. Len(s) \in Nat /\ Len(t) \in Nat /\ Len(s) \in 0 .. Len(s) /\ Len(s) \in 0 .. Len(t)
  BY ElementsOf DEF Begins
<1> DEFINE a == SubSeq(s, 1, Len(s))
           b == SubSeq(t, 1, Len(s))
<1>2. /\ a \in Seq(K) /\ Len(a) = Len(s) /\ \A i \in 1 .. Len(s) : a[i] = s[i]
      /\ b \in Seq(K) /\ Len(b) = Len(s) /\ \A i \in 1 .. Len(s) : b[i] = t[i]
  BY <1>1, SubSeqIs
<1> HIDE DEF a, b
<1>3. a = b
  BY <1>2, SeqEqual DEF Begins
<1> QED
  BY <1>3 DEF IsPrefix, Begins, a, b

-----------------------------------------------------------------------------
(* A sum is that of a part and that of the rest.                            *)
LEMMA SumSplits ==
    ASSUME NEW d, NEW S, Sized(d, S), NEW A \in SUBSET S
    PROVE  /\ Sum(d, A) \in Nat /\ Sum(d, S \ A) \in Nat
           /\ Sum(d, S) = Sum(d, A) + Sum(d, S \ A)
<1> DEFINE Bad == {B \in SUBSET S : ~(Sum(d, S) = Sum(d, B) + Sum(d, S \ B))}
<1>1. \A B \in SUBSET S : Sized(d, B) /\ Sum(d, B) \in Nat
  BY SumUnfolds, FS_Subset DEF Sized
<1>2. Bad = {}
  <2> SUFFICES ASSUME Bad # {} PROVE FALSE
    OBVIOUS
  <2>1. PICK B \in Bad : \A C \in Bad : C \subseteq B => C = B
    <3>1. Bad \subseteq SUBSET S /\ IsFiniteSet(S)
      BY DEF Sized
    <3> HIDE DEF Bad
    <3> QED
      BY <3>1, SmallestSubset
  <2>2. B # {}
    <3>1. Sum(d, {}) = 0 /\ Sum(d, S) \in Nat /\ S \ {} = S
      BY <1>1, SumUnfolds
    <3>2. Sum(d, S) = Sum(d, {}) + Sum(d, S \ {})
      BY <3>1
    <3> QED
      BY <2>1, <3>2
  <2>3. PICK p \in B : TRUE
    BY <2>2
  <2> DEFINE C == B \ {p}
             E == S \ C
  <2>4. /\ C \in SUBSET S /\ C \subseteq B /\ C # B /\ B \in SUBSET S
        /\ E \in SUBSET S /\ p \in E /\ S \ B = E \ {p} /\ S \ B \in SUBSET S
    BY <2>1, <2>3
  <2>5. Sum(d, S) = Sum(d, C) + Sum(d, E)
    BY <2>1, <2>4
  <2>6. Sum(d, B) = d[p].size + Sum(d, C)
    BY <1>1, <2>3, <2>4, SumWithout
  <2>7. Sum(d, E) = d[p].size + Sum(d, S \ B)
    <3>1. Sum(d, E) = d[p].size + Sum(d, E \ {p})
      <4> HIDE DEF E
      <4> QED
        BY <1>1, <2>4, SumWithout
    <3> QED
      BY <2>4, <3>1
  <2>8. d[p].size \in Nat
    BY <2>4 DEF Sized
  <2>9. Sum(d, C) \in Nat /\ Sum(d, S \ B) \in Nat
    BY <1>1, <2>4
  <2> HIDE DEF C, E
  <2>10. Sum(d, C) + (d[p].size + Sum(d, S \ B)) = (d[p].size + Sum(d, C)) + Sum(d, S \ B)
    BY <2>8, <2>9
  <2>11. Sum(d, S) = Sum(d, B) + Sum(d, S \ B)
    BY <2>5, <2>6, <2>7, <2>10
  <2> QED
    BY <2>1, <2>11
<1>3. S \ A \in SUBSET S
  OBVIOUS
<1> QED
  BY <1>1, <1>2, <1>3

-----------------------------------------------------------------------------
(* The LRU cache, as long as no node has been displaced: nothing is used    *)
(* twice in the history, the list is how the history begins, and the Map    *)
(* holds the nodes of the list.                                             *)
LruGood ==
    /\ order \in Seq(LruKeys) /\ uses \in Seq(LruKeys)
    /\ Distinct(uses) /\ Begins(order, uses)
    /\ DOMAIN cache = ToSet(order)
    /\ \A k \in DOMAIN cache : cache[k].size \in Nat
    /\ lruSize = Sum(cache, DOMAIN cache) /\ lruSize <= LruMax
LruInv == ~displaced => LruGood

(* What the invariant means for the list.                                   *)
LEMMA ListIsSound ==
    ASSUME LruGood
    PROVE  /\ Distinct(order) /\ IsFiniteSet(DOMAIN cache) /\ Sized(cache, DOMAIN cache)
           /\ lruSize \in Nat
<1>1. /\ Len(order) \in Nat /\ ToSet(order) = {order[i] : i \in 1 .. Len(order)}
      /\ Len(uses) \in Nat
  BY ElementsOf DEF LruGood
<1>2. Distinct(order)
  BY <1>1 DEF LruGood, Distinct, Begins
<1>3. IsFiniteSet({order[i] : i \in 1 .. Len(order)})
  <2>1. IsFiniteSet(1 .. Len(order))
    BY <1>1, FS_Interval
  <2> DEFINE T == {order[i] : i \in 1 .. Len(order)}
  <2>2. order \in Surjection(1 .. Len(order), T)
    <3>1. order \in [1 .. Len(order) -> LruKeys]
      BY LenProperties DEF LruGood
    <3> QED
      BY <3>1 DEF Surjection
  <2> HIDE DEF T
  <2> QED
    BY <2>1, <2>2, FS_Surjection DEF T
<1>4. Sized(cache, DOMAIN cache)
  BY <1>1, <1>3 DEF LruGood, Sized
<1> QED
  BY <1>1, <1>2, <1>3, <1>4, SumUnfolds DEF LruGood

(* The beginning of a beginning is a beginning.                             *)
LEMMA BeginsIsTransitive ==
    ASSUME NEW K, NEW r \in Seq(K), NEW s \in Seq(K), NEW t \in Seq(K),
           Begins(r, s), Begins(s, t)
    PROVE  Begins(r, t)
<1>1. Len(r) \in Nat /\ Len(s) \in Nat /\ Len(t) \in Nat
  BY ElementsOf
<1> QED
  BY <1>1 DEF Begins

(* get() *)
LEMMA GetKeepsTheOrder ==
    ASSUME LruGood, NEW k \in LruKeys, LruGet(k)
    PROVE  LruGood'
<1> DEFINE u == RemoveFirst(uses, k)
           o == RemoveFirst(order, k)
<1>1. /\ order \in Seq(LruKeys) /\ uses \in Seq(LruKeys)
      /\ Distinct(uses) /\ Distinct(order) /\ Begins(order, uses)
      /\ k \in ToSet(order) /\ k \in DOMAIN cache
  BY ListIsSound DEF LruGood, LruGet, Has
<1>2. /\ u \in Seq(LruKeys) /\ Distinct(u) /\ ToSet(u) = ToSet(uses) \ {k}
      /\ o \in Seq(LruKeys) /\ Distinct(o) /\ ToSet(o) = ToSet(order) \ {k}
  BY <1>1, RemoveFirstOf
<1>3. Begins(o, u)
  BY <1>1, BeginsAfterRemoval
<1>4. uses' = Cons(k, u)
  BY DEF LruGet, Used
<1> HIDE DEF u, o
<1>5. uses' \in Seq(LruKeys) /\ Distinct(uses')
  BY <1>2, <1>4, ConsOf
<1>6. order' \in Seq(LruKeys) /\ ToSet(order') = ToSet(order) /\ Begins(order', uses')
  <2>1. CASE order # << >> /\ Head(order) = k
    <3>1. order' = order /\ order[1] = k
      BY <2>1 DEF LruGet, MoveToFront
    <3>2. /\ Len(order) \in Nat \ {0} /\ Len(uses) \in Nat /\ Len(order) <= Len(uses)
          /\ 1 \in 1 .. Len(order) /\ 1 \in 1 .. Len(uses)
      BY <1>1, <2>1, ElementsOf, EmptySeq DEF Begins
    <3>3. uses[1] = k
      BY <1>1, <3>1, <3>2 DEF Begins
    <3>4. /\ Len(u) = Len(uses) - 1
          /\ \A j \in 1 .. Len(uses) - 1 : u[j] = IF j < 1 THEN uses[j] ELSE uses[j + 1]
      <4>1. u = RemoveFirst(uses, uses[1]) /\ 1 \in 1 .. Len(uses)
        BY <3>2, <3>3 DEF u
      <4>2. /\ Len(RemoveFirst(uses, uses[1])) = Len(uses) - 1
            /\ \A j \in 1 .. Len(uses) - 1 :
                 RemoveFirst(uses, uses[1])[j] = IF j < 1 THEN uses[j] ELSE uses[j + 1]
        BY <1>1, <4>1, RemoveFirstIs
      <4> QED
        BY <4>1, <4>2
    <3>5. /\ Len(uses') = Len(u) + 1 /\ uses'[1] = k
          /\ \A i \in 1 .. Len(u) : uses'[i + 1] = u[i]
      <4>1. /\ Len(Cons(k, u)) = Len(u) + 1 /\ Cons(k, u)[1] = k
            /\ \A i \in 1 .. Len(u) : Cons(k, u)[i + 1] = u[i]
        <5>1. k \in LruKeys /\ u \in Seq(LruKeys)
          BY <1>2
        <5>2. /\ Cons(k, u) \in Seq(LruKeys) /\ Len(Cons(k, u)) = Len(u) + 1
              /\ Cons(k, u)[1] = k
              /\ \A i \in 1 .. Len(u) : Cons(k, u)[i + 1] = u[i]
          BY ONLY <5>1, ConsIs
        <5> QED
          BY <5>2
      <4> QED
        BY <1>4, <4>1
    <3>6. ASSUME NEW i \in 1 .. Len(uses) PROVE uses'[i] = uses[i]
      <4>1. CASE i = 1
        BY <3>3, <3>5, <4>1
      <4>2. CASE i # 1
        <5>1. i - 1 \in 1 .. Len(uses) - 1 /\ (i - 1) + 1 = i /\ ~(i - 1 < 1)
          BY <3>2, <4>2
        <5>2. i - 1 \in 1 .. Len(u)
          BY <3>2, <3>4, <5>1
        <5> QED
          BY <3>4, <3>5, <5>1, <5>2
      <4> QED
        BY <4>1, <4>2
    <3>7. Len(uses') = Len(uses)
      BY <3>2, <3>4, <3>5
    <3>8. Begins(order, uses')
      BY <1>1, <3>2, <3>6, <3>7 DEF Begins
    <3> QED
      BY <1>1, <3>1, <3>8
  <2>2. CASE ~(order # << >> /\ Head(order) = k)
    <3>1. order' = Cons(k, o)
      BY <2>2 DEF LruGet, MoveToFront, AddedToFront, Unlinked, o
    <3>2. order' \in Seq(LruKeys) /\ ToSet(order') = ToSet(o) \cup {k}
      BY <1>2, <3>1, ConsOf
    <3>3. Begins(order', uses')
      BY <1>2, <1>3, <1>4, <3>1, BeginsAfterCons
    <3> QED
      BY <1>1, <1>2, <3>2, <3>3
  <2> QED
    BY <2>1, <2>2
<1>7. cache' = cache /\ lruSize' = lruSize
  BY DEF LruGet
<1> QED
  BY <1>5, <1>6, <1>7 DEF LruGood

(* delete() *)
LEMMA DeleteKeepsTheOrder ==
    ASSUME LruGood, NEW k \in LruKeys, LruDelete(k)
    PROVE  LruGood'
<1> DEFINE rest == DOMAIN cache \ {k}
<1>1. /\ order \in Seq(LruKeys) /\ uses \in Seq(LruKeys)
      /\ Distinct(uses) /\ Distinct(order) /\ Begins(order, uses)
      /\ DOMAIN cache = ToSet(order) /\ k \in DOMAIN cache
      /\ Sized(cache, DOMAIN cache) /\ lruSize \in Nat
  BY ListIsSound DEF LruGood, LruDelete, Has
<1>2. /\ uses' \in Seq(LruKeys) /\ Distinct(uses')
      /\ order' \in Seq(LruKeys) /\ ToSet(order') = ToSet(order) \ {k}
  BY <1>1, RemoveFirstOf DEF LruDelete, Forgotten, Unlinked
<1>3. Begins(order', uses')
  BY <1>1, BeginsAfterRemoval DEF LruDelete, Forgotten, Unlinked
<1>4. /\ DOMAIN cache' = rest /\ \A j \in rest : cache'[j] = cache[j]
      /\ lruSize' = lruSize - cache[k].size
  BY DEF LruDelete
<1>5. /\ Sum(cache, DOMAIN cache) = cache[k].size + Sum(cache', rest)
      /\ cache[k].size \in Nat /\ Sum(cache', rest) \in Nat /\ Sized(cache', rest)
  BY <1>1, <1>4, SumAfterRemoval
<1>6. lruSize' = Sum(cache', rest) /\ lruSize' <= LruMax
  BY <1>4, <1>5, LruAssumption DEF LruGood
<1> QED
  BY <1>1, <1>2, <1>3, <1>4, <1>5, <1>6 DEF LruGood, Sized

(* set(): whatever it evicts, unless it displaces a node.                   *)
LEMMA SetKeepsTheOrder ==
    ASSUME LruGood, NEW k \in LruKeys, NEW size \in LruSizes, LruSet(k, size), ~displaced'
    PROVE  LruGood'
<1> DEFINE D == DOMAIN cache
           rest == IF Has(k) THEN Unlinked(k) ELSE order
           total == IF Has(k) THEN lruSize - cache[k].size ELSE lruSize
           kept == EvictUntilRoom(rest, total, size)
           evicted == Behind(kept, rest)
           left == total - SumOf(evicted)
           fits == left + size <= LruMax
           keys == (D \ evicted) \cup (IF fits THEN {k} ELSE {})
           begin == SubSeq(rest, 1, kept)
           u == RemoveFirst(uses, k)
<1>1. /\ cache' = [j \in keys |-> IF j = k /\ fits THEN Node(size) ELSE cache[j]]
      /\ order' = IF fits THEN AddedToFront(k, begin) ELSE begin
      /\ lruSize' = IF fits THEN left + size ELSE left
      /\ displaced' = (Has(k) /\ ~fits)
      /\ IF fits THEN Used(k) ELSE Forgotten(k)
  BY DEF LruSet
<1>2. /\ order \in Seq(LruKeys) /\ uses \in Seq(LruKeys)
      /\ Distinct(uses) /\ Distinct(order) /\ Begins(order, uses)
      /\ D = ToSet(order) /\ Sized(cache, D) /\ lruSize \in Nat
      /\ lruSize = Sum(cache, D) /\ lruSize <= LruMax
      /\ size \in Nat /\ LruMax \in Nat
  BY ListIsSound, LruAssumption DEF LruGood
<1>3. /\ u \in Seq(LruKeys) /\ Distinct(u) /\ ToSet(u) = ToSet(uses) \ {k}
  BY <1>2, RemoveFirstOf
<1>4. rest = RemoveFirst(order, k)
  <2>1. ~Has(k) => RemoveFirst(order, k) = order
    BY <1>2, ElementsOf DEF Has, RemoveFirst
  <2> QED
    BY <2>1 DEF Unlinked
<1>5. rest \in Seq(LruKeys) /\ Distinct(rest) /\ ToSet(rest) = D \ {k} /\ Begins(rest, u)
  BY <1>2, <1>4, RemoveFirstOf, BeginsAfterRemoval
<1>6. total = Sum(cache, D \ {k}) /\ total \in Nat /\ Sized(cache, D \ {k}) /\ total <= LruMax
  <2>1. CASE Has(k)
    <3>1. /\ Sum(cache, D) = cache[k].size + Sum(cache, D \ {k})
          /\ cache[k].size \in Nat /\ Sum(cache, D \ {k}) \in Nat /\ Sized(cache, D \ {k})
      BY <1>2, <2>1, SumAfterRemoval DEF Has
    <3>2. total = lruSize - cache[k].size
      BY <2>1
    <3> QED
      BY <1>2, <3>1, <3>2
  <2>2. CASE ~Has(k)
    <3>1. D \ {k} = D /\ total = lruSize
      BY <2>2 DEF Has
    <3> QED
      BY <1>2, <3>1
  <2> QED
    BY <2>1, <2>2
<1> HIDE DEF rest, total
<1>7. kept \in 0 .. Len(rest)
  <2>1. Len(rest) \in Nat
    BY <1>5, ElementsOf
  <2> DEFINE enough == {n \in 0 .. Len(rest) : (total - SumOf(Behind(n, rest))) + size <= LruMax}
  <2>2. kept = IF enough = {} THEN 0 ELSE Max(enough)
    BY DEF EvictUntilRoom
  <2>3. enough \in SUBSET (0 .. Len(rest))
    OBVIOUS
  <2> HIDE DEF enough, kept
  <2>4. enough # {} => Max(enough) \in enough
    BY <2>1, <2>3, MaxIsGreatest
  <2> QED
    BY <2>1, <2>2, <2>3, <2>4
<1> HIDE DEF kept
<1>8. /\ begin \in Seq(LruKeys) /\ Distinct(begin) /\ Begins(begin, rest)
      /\ ToSet(begin) = ToSet(rest) \ evicted /\ evicted \subseteq ToSet(rest)
  BY <1>5, <1>7, SplitOf
<1> HIDE DEF begin, evicted
<1>9. Begins(begin, u)
  BY <1>3, <1>5, <1>8, BeginsIsTransitive
<1>10. SumOf(evicted) = Sum(cache, evicted)
  BY DEF SumOf, Sum, MapThenSumSet, MapThenFoldSet
<1> DEFINE K == (D \ {k}) \ evicted
<1>11. /\ left = Sum(cache, K) /\ left \in Nat /\ left <= total
       /\ Sized(cache, K)
  <2>1. evicted \in SUBSET (D \ {k})
    BY <1>5, <1>8
  <2>2. /\ Sum(cache, evicted) \in Nat /\ Sum(cache, K) \in Nat
        /\ Sum(cache, D \ {k}) = Sum(cache, evicted) + Sum(cache, K)
    <3> DEFINE R == D \ {k}
    <3>1. Sized(cache, R) /\ evicted \in SUBSET R
      BY <1>6, <2>1
    <3> HIDE DEF R
    <3>2. /\ Sum(cache, evicted) \in Nat /\ Sum(cache, R \ evicted) \in Nat
          /\ Sum(cache, R) = Sum(cache, evicted) + Sum(cache, R \ evicted)
      BY <3>1, SumSplits
    <3> QED
      BY <3>2 DEF R
  <2>3. Sized(cache, K)
    BY <1>6, FS_Subset DEF Sized
  <2> QED
    BY <1>6, <1>10, <2>2, <2>3
<1> HIDE DEF left
<1>12. ToSet(begin) = K /\ k \notin K
  BY <1>5, <1>8
<1>13. CASE fits
  <2>1. keys = K \cup {k}
    BY <1>5, <1>8, <1>13
  <2>2. /\ DOMAIN cache' = K \cup {k} /\ cache'[k] = Node(size)
        /\ \A j \in K : cache'[j] = cache[j]
    BY <1>1, <1>12, <1>13, <2>1
  <2>3. Sum(cache', K) = Sum(cache, K) /\ Sized(cache', K)
    BY <1>11, <2>2, SumDependsOnSizes
  <2>4. Sized(cache', K \cup {k}) /\ cache'[k].size = size
    <3>1. IsFiniteSet(K \cup {k})
      <4>1. IsFiniteSet(K)
        BY <2>3 DEF Sized
      <4> HIDE DEF K
      <4> QED
        BY <4>1, FS_AddElement
    <3>2. cache'[k].size = size
      BY <2>2 DEF Node
    <3> QED
      BY <1>2, <2>3, <3>1, <3>2 DEF Sized
  <2>5. Sum(cache', K \cup {k}) = size + Sum(cache', K)
    <3>1. (K \cup {k}) \ {k} = K /\ k \in K \cup {k}
      BY <1>12
    <3> QED
      BY <2>4, <3>1, SumWithout
  <2>6. lruSize' = left + size /\ left + size <= LruMax
    BY <1>1, <1>13
  <2>7. lruSize' = Sum(cache', DOMAIN cache') /\ lruSize' <= LruMax
    BY <1>2, <1>11, <2>2, <2>3, <2>5, <2>6
  <2>8. order' = Cons(k, begin) /\ uses' = Cons(k, u)
    BY <1>1, <1>13 DEF AddedToFront, Used
  <2>9. /\ order' \in Seq(LruKeys) /\ ToSet(order') = K \cup {k}
        /\ uses' \in Seq(LruKeys) /\ Distinct(uses')
    <3>1. /\ order' \in Seq(LruKeys) /\ ToSet(order') = K \cup {k}
      BY <1>8, <1>12, <2>8, ConsOf
    <3>2. uses' \in Seq(LruKeys) /\ Distinct(uses')
      <4> HIDE DEF u
      <4> QED
        BY <1>3, <2>8, ConsOf
    <3> QED
      BY <3>1, <3>2
  <2>10. Begins(order', uses')
    <3> HIDE DEF u
    <3> QED
      BY <1>3, <1>8, <1>9, <2>8, BeginsAfterCons
  <2>11. \A j \in DOMAIN cache' : cache'[j].size \in Nat
    BY <2>2, <2>4 DEF Sized
  <2> QED
    BY <2>2, <2>7, <2>9, <2>10, <2>11 DEF LruGood
<1>14. CASE ~fits
  <2>1. ~Has(k) /\ keys = K
    BY <1>1, <1>14 DEF Has
  <2>2. /\ DOMAIN cache' = K /\ \A j \in K : cache'[j] = cache[j]
        /\ order' = begin /\ lruSize' = left /\ uses' = u
    BY <1>1, <1>14, <2>1 DEF Forgotten
  <2>3. Sum(cache', K) = Sum(cache, K) /\ Sized(cache', K)
    BY <1>11, <2>2, SumDependsOnSizes
  <2>4. lruSize' = Sum(cache', DOMAIN cache') /\ lruSize' <= LruMax
    BY <1>2, <1>6, <1>11, <2>2, <2>3
  <2> QED
    BY <1>3, <1>8, <1>9, <1>12, <2>2, <2>3, <2>4 DEF LruGood, Sized
<1> QED
  BY <1>13, <1>14

(* A cache with nothing in it.                                              *)
LEMMA EmptyIsGood ==
    /\ cache = << >> /\ order = << >> /\ uses = << >> /\ lruSize = 0 => LruGood
    /\ cache' = << >> /\ order' = << >> /\ uses' = << >> /\ lruSize' = 0 => LruGood'
<1>1. /\ << >> \in Seq(LruKeys) /\ Len(<< >>) = 0
      /\ ToSet(<< >>) = {} /\ DOMAIN << >> = {}
  <2>1. << >> \in Seq(LruKeys) /\ Len(<< >>) = 0
    BY EmptySeq
  <2>2. DOMAIN << >> = {}
    OBVIOUS
  <2> QED
    BY <2>1, <2>2 DEF ToSet
<1>2. Distinct(<< >>) /\ Begins(<< >>, << >>)
  BY <1>1 DEF Distinct, Begins
<1>3. \A d : Sum(d, {}) = 0
  <2> SUFFICES ASSUME NEW d PROVE Sum(d, {}) = 0
    OBVIOUS
  <2>1. Sized(d, {})
    BY FS_EmptySet DEF Sized
  <2> QED
    BY <2>1, SumUnfolds
<1>4. 0 <= LruMax
  BY LruAssumption
<1> QED
  BY <1>1, <1>2, <1>3, <1>4 DEF LruGood

(* Every call of every method keeps the invariant.                          *)
LEMMA LruInductive == LruSpec => []LruInv
<1>1. LruInit => LruInv
  BY EmptyIsGood DEF LruInit, LruInv
<1>2. LruInv /\ [LruNext]_lru => LruInv'
  <2> SUFFICES ASSUME LruInv, [LruNext]_lru, ~displaced' PROVE LruGood'
    BY DEF LruInv
  <2>1. CASE LruClear
    BY <2>1, EmptyIsGood DEF LruClear
  <2>2. ASSUME ~displaced, NEW k \in LruKeys, LruGet(k) PROVE LruGood'
    BY <2>2, GetKeepsTheOrder DEF LruInv
  <2>3. ASSUME ~displaced, NEW k \in LruKeys, LruDelete(k) PROVE LruGood'
    BY <2>3, DeleteKeepsTheOrder DEF LruInv
  <2>4. ASSUME ~displaced, NEW k \in LruKeys, NEW size \in LruSizes, LruSet(k, size)
        PROVE  LruGood'
    BY <2>4, SetKeepsTheOrder DEF LruInv
  <2>5. CASE UNCHANGED lru
    BY <2>5 DEF lru, LruInv, LruGood, Begins, Distinct, ToSet
  <2> QED
    BY <2>1, <2>2, <2>3, <2>4, <2>5 DEF LruNext
<1> QED
  BY <1>1, <1>2, PTL DEF LruSpec

(* After any sequence of calls with any keys and sizes, the Map and the     *)
(* list agree, the size is counted and within the limit, and what is left   *)
(* was used after everything that was evicted (cache/lru.ts).               *)
THEOREM RecentValuesAreKept == LruSpec => []LruKeepsTheMostRecent
<1>1. LruInv => LruKeepsTheMostRecent
  <2> SUFFICES ASSUME LruGood
               PROVE  /\ DOMAIN cache = ToSet(order)
                      /\ lruSize = SumOf(DOMAIN cache) /\ lruSize <= LruMax
                      /\ IsPrefix(order, uses)
    BY DEF LruInv, LruKeepsTheMostRecent
  <2>1. SumOf(DOMAIN cache) = Sum(cache, DOMAIN cache)
    BY DEF SumOf, Sum, MapThenSumSet, MapThenFoldSet
  <2>2. IsPrefix(order, uses)
    BY BeginsIsPrefix DEF LruGood
  <2> QED
    BY <2>1, <2>2 DEF LruGood
<1> QED
  BY <1>1, LruInductive, PTL
=============================================================================
