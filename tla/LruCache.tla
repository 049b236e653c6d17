------------------------------ MODULE LruCache ------------------------------
(***************************************************************************)
(* LRUCache (cache/lru.ts), the in-memory cache with a size limit: a Map   *)
(* from keys to nodes, and a doubly linked list that has the most recently *)
(* used node first.  Every method runs to its end in one task.             *)
(*                                                                         *)
(* The list is the sequence of its keys.  Mutants stand above what they    *)
(* mutate.                                                                 *)
(***************************************************************************)
EXTENDS Integers, SequencesExt

CONSTANTS
    LruKeys,    \* keys
    LruSizes,   \* sizes of the values
    LruMax      \* maxSize

ASSUME LruAssumption == LruSizes \subseteq Nat /\ LruMax \in Nat

VARIABLES
    cache,          \* Map: key -> node
    order,          \* the list from head to tail
    lruSize,        \* currentSize, a name CacheStore has taken
    uses,           \* history: keys that were set, the last used one first
    displaced       \* history: a value that is too large has replaced a smaller one

lru == <<cache, order, lruSize, uses, displaced>>

Node(size) == [size |-> size]
Has(k) == k \in DOMAIN cache

LruInit ==
    /\ cache = << >>
    /\ order = << >>
    /\ lruSize = 0
    /\ uses = << >> /\ displaced = FALSE

(* addToFront and removeNode *)
AddedToFront(k, list) == Cons(k, list)
Unlinked(k) == RemoveFirst(order, k)
Used(k) == uses' = Cons(k, RemoveFirst(uses, k))
Forgotten(k) == uses' = RemoveFirst(uses, k)

(* get(): the node moves to the front.  The mutant does not move it.        *)
MoveToFrontNever(k) == UNCHANGED order
MoveToFront(k) ==
    order' = IF order # << >> /\ Head(order) = k THEN order ELSE AddedToFront(k, Unlinked(k))

LruGet(k) ==
    /\ Has(k)
    /\ MoveToFront(k)
    /\ Used(k)
    /\ UNCHANGED <<cache, lruSize, displaced>>

(* How many nodes of a list evictLRU() in a loop leaves: the most recent    *)
(* ones that have room beside the new value, or none.                       *)
SumOf(keys) == MapThenSumSet(LAMBDA k : cache[k].size, keys)
Behind(n, list) == ToSet(SubSeq(list, n + 1, Len(list)))
EvictUntilRoom(list, total, size) ==
    LET enough == {n \in 0..Len(list) : (total - SumOf(Behind(n, list))) + size <= LruMax}
    IN IF enough = {} THEN 0 ELSE Max(enough)

(* set(): the node it replaces leaves the list but not yet the Map, older   *)
(* nodes are evicted, and if that makes room the new node is added.         *)
LruSet(k, size) ==
    LET rest == IF Has(k) THEN Unlinked(k) ELSE order
        total == IF Has(k) THEN lruSize - cache[k].size ELSE lruSize
        kept == EvictUntilRoom(rest, total, size)
        evicted == Behind(kept, rest)
        left == total - SumOf(evicted)
        fits == left + size <= LruMax
        keys == (DOMAIN cache \ evicted) \cup (IF fits THEN {k} ELSE {})
    IN /\ cache' = [j \in keys |-> IF j = k /\ fits THEN Node(size) ELSE cache[j]]
       /\ order' = IF fits THEN AddedToFront(k, SubSeq(rest, 1, kept)) ELSE SubSeq(rest, 1, kept)
       /\ lruSize' = IF fits THEN left + size ELSE left
       /\ displaced' = (Has(k) /\ ~fits)
       /\ IF fits THEN Used(k) ELSE Forgotten(k)

LruDelete(k) ==
    /\ Has(k)
    /\ cache' = [j \in DOMAIN cache \ {k} |-> cache[j]]
    /\ order' = Unlinked(k)
    /\ lruSize' = lruSize - cache[k].size
    /\ Forgotten(k)
    /\ UNCHANGED displaced

LruClear ==
    /\ cache' = << >>
    /\ order' = << >> /\ lruSize' = 0
    /\ uses' = << >>
    /\ displaced' = FALSE

(* Bound: when set() has left a node in the Map that is not in the list,    *)
(* get() and set() of its key take the list to pieces, one after the other. *)
(* That is followed no further than to the next clear().                    *)
LruNext ==
    \/ ~displaced /\ \E k \in LruKeys : LruGet(k) \/ LruDelete(k) \/ \E size \in LruSizes : LruSet(k, size)
    \/ LruClear

LruSpec == LruInit /\ [][LruNext]_lru

-----------------------------------------------------------------------------
(* Safety: the Map and the list hold the same nodes, their sizes are        *)
(* counted and stay within the limit, and what was evicted was used longer  *)
(* ago than anything that is left - after any sequence of calls, but for    *)
(* one: set() of a value larger than the whole cache under a key that has   *)
(* one already takes the old node out of the list and leaves it in the Map, *)
(* and from then on, until a clear(), nothing of this is sure.              *)
LruKeepsTheMostRecent ==
    ~displaced =>
        /\ DOMAIN cache = ToSet(order)
        /\ lruSize = SumOf(DOMAIN cache) /\ lruSize <= LruMax
        /\ IsPrefix(order, uses)
=============================================================================
