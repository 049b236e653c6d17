----------------------------- MODULE CacheStore -----------------------------
(***************************************************************************)
(* CacheStore (cache/store.ts): the file cache with atomic writes and a    *)
(* size limit.                                                             *)
(*                                                                         *)
(* set(), delete() and clear() run one at a time, in call order, through   *)
(* mutationQueue; get() and has() read the disk at any time.  Between two  *)
(* awaits of a mutation the process may crash, which leaves the disk as it *)
(* is and forgets everything else.  Steps of a mutation that only read the *)
(* disk are merged with the step that follows, since no other mutation     *)
(* runs in between.                                                        *)
(*                                                                         *)
(* A path is the file of a key or a temporary name; a file is its size,    *)
(* the createdAt inside it and whether its content parses: a write that    *)
(* was cut short leaves a torn file.  Mutants stand above what they mutate.*)
(***************************************************************************)
EXTENDS Integers, Sequences, FiniteSetsExt

CONSTANTS
    Clients,    \* callers that share one store
    Keys,       \* the path of a key stands for the key
    Temps,      \* names left for temporary files (randomUUID)
    Sizes,      \* serialized sizes of the values that are set
    MaxSize,    \* options.maxSize
    MaxClock,   \* bound on Date.now()
    MaxCounted  \* a stat of an old file fails up to this currentSize: each
                \* failure makes it larger, without end

ASSUME StoreAssumption ==
    /\ Keys \cap Temps = {}
    /\ "none" \notin Keys \cup Temps
    /\ Sizes \subseteq Nat \ {0}
    /\ MaxSize \in Nat /\ MaxClock \in Nat /\ MaxCounted \in Nat

VARIABLES
    disk,           \* path -> file or NoFile; survives a crash
    clock,          \* Date.now(); survives a crash
    initialized,    \* sizeInitialized
    currentSize,    \* currentSize
    waiting,        \* clients that await initializationPromise
    queue,          \* clients in mutationQueue, the running one first
    op,             \* the operation each client awaits
    step,           \* how far the running operation is
    victims,        \* paths it may still remove
    unlisted,       \* history: paths it could remove, but did not find
    temp,           \* its tempPath
    stamp,          \* entry.createdAt of the running set()
    previous,       \* the file at the path of the running set()
    measured,       \* its previousSize
    missed,         \* history: a failed call has left files out of the count
    doubled         \* history: a failed stat has left a replaced file in it

vars == <<disk, clock, initialized, currentSize, waiting, queue, op, step,
          victims, unlisted, temp, stamp, previous, measured, missed, doubled>>
memory == <<initialized, waiting>>
errors == <<missed, doubled>>
measures == <<stamp, previous, measured>>
running == <<step, victims, unlisted, temp, measures>>

Paths == Keys \cup Temps
NoFile == [size |-> 0, createdAt |-> 0, whole |-> FALSE, exists |-> FALSE]
File(s, t, w) == [size |-> s, createdAt |-> t, whole |-> w, exists |-> TRUE]
Files == {NoFile} \cup [size : Nat, createdAt : 0..MaxClock, whole : BOOLEAN,
                        exists : {TRUE}]

Idle == [kind |-> "none"]
Ops == {Idle} \cup [kind : {"set"}, key : Keys, size : Sizes]
              \cup [kind : {"delete"}, key : Keys] \cup {[kind |-> "clear"]}

AtMost(a, b) == IF a < b THEN a ELSE b
Minus(a, b) == IF a > b THEN a - b ELSE 0      \* Math.max(0, a - b)
Existing(d) == {p \in Paths : d[p].exists}
SizeOf(S) == MapThenSumSet(LAMBDA p : disk[p].size, S)

Current == op[Head(queue)]
Runs(kind) == queue # << >> /\ Current.kind = kind

TypeOK ==
    /\ disk \in [Paths -> Files]
    /\ clock \in 0..MaxClock
    /\ initialized \in BOOLEAN
    /\ currentSize \in Nat
    /\ waiting \in Seq(Clients) /\ queue \in Seq(Clients)
    /\ op \in [Clients -> Ops]
    /\ step \in {"begin", "evict", "write", "rename", "clear"}
    /\ victims \subseteq Paths /\ unlisted \subseteq Paths
    /\ temp \in Temps \cup {"none"}
    /\ stamp \in 0..MaxClock
    /\ previous \in Files /\ measured \in Nat
    /\ missed \in BOOLEAN /\ doubled \in BOOLEAN

Init ==
    /\ disk = [p \in Paths |-> NoFile]
    /\ clock = 0
    /\ initialized = FALSE
    /\ currentSize = 0
    /\ waiting = << >> /\ queue = << >>
    /\ op = [c \in Clients |-> Idle]
    /\ step = "begin" /\ victims = {} /\ unlisted = {} /\ temp = "none"
    /\ stamp = 0 /\ previous = NoFile /\ measured = 0
    /\ missed = FALSE /\ doubled = FALSE

(* The locals of the running operation are gone. *)
Forget ==
    /\ step' = "begin" /\ victims' = {} /\ unlisted' = {} /\ temp' = "none"
    /\ stamp' = 0 /\ previous' = NoFile /\ measured' = 0

(* A client calls set, delete or clear: it awaits initialize() if the store *)
(* is not initialized, else it joins the queue.                             *)
Call(c) ==
    /\ op[c] = Idle
    /\ \E o \in Ops \ {Idle} : op' = [op EXCEPT ![c] = o]
    /\ IF initialized
       THEN queue' = Append(queue, c) /\ UNCHANGED waiting
       ELSE waiting' = Append(waiting, c) /\ UNCHANGED queue
    /\ UNCHANGED <<disk, clock, initialized, currentSize, running, errors>>

(* What calculateDirectorySize counts: every file, or fewer when a directory*)
(* cannot be read, since it swallows the error.                             *)
Countable == SUBSET Existing(disk)

Initialize ==
    /\ ~initialized /\ waiting # << >>
    /\ initialized' = TRUE
    /\ \E S \in Countable :
          /\ currentSize' = SizeOf(S)
          /\ missed' = (S # Existing(disk))
    /\ doubled' = FALSE
    /\ queue' = queue \o waiting
    /\ waiting' = << >>
    /\ UNCHANGED <<disk, clock, op, running>>

(* mkdir fails: every caller that shares the promise is rejected, and the   *)
(* next call tries again.                                                   *)
InitializeFails ==
    /\ ~initialized /\ waiting # << >>
    /\ op' = [c \in Clients |->
                 IF \E i \in DOMAIN waiting : waiting[i] = c THEN Idle ELSE op[c]]
    /\ waiting' = << >>
    /\ UNCHANGED <<disk, clock, initialized, currentSize, queue, running, errors>>

(* The running operation settles, fulfilled or rejected, and the next one   *)
(* of the queue may start: mutationQueue.then(operation, operation).        *)
SettleIfDone ==
    /\ op' = [op EXCEPT ![Head(queue)] = Idle]
    /\ queue' = IF step \in {"rename", "clear"} THEN Tail(queue) ELSE queue
    /\ Forget
Settle ==
    /\ op' = [op EXCEPT ![Head(queue)] = Idle]
    /\ queue' = Tail(queue)
    /\ Forget

(* ensureSpace() has room for what the file at the key will grow by. *)
HasRoomForGrowth == currentSize <= MaxSize
HasRoom == currentSize + Minus(Current.size, measured) <= MaxSize

(* The files ensureSpace() may evict, if collectEntries finds them: those   *)
(* that parse, a temporary file with a complete entry included, but the     *)
(* path being replaced is protected.                                        *)
EvictableAll(k) == {p \in Existing(disk) : disk[p].whole}
Evictable(k) == {p \in Existing(disk) \ {k} : disk[p].whole}

(* set() rejects at once: mkdir fails, or the entry is larger than the cache.*)
SetRejects ==
    /\ Runs("set") /\ step = "begin"
    /\ Settle
    /\ UNCHANGED <<disk, clock, memory, currentSize, errors>>

(* set() starts: the file it replaces is measured, as nothing if its stat   *)
(* fails, and the files it may evict are listed, but for those in           *)
(* directories and files that cannot be read: both errors are swallowed.    *)
SetBegins ==
    /\ Runs("set") /\ step = "begin"
    /\ Current.size <= MaxSize
    /\ step' = "evict"
    /\ \E t \in {clock, AtMost(clock + 1, MaxClock)} :
          stamp' = t /\ clock' = t
    /\ previous' = disk[Current.key]
    /\ \/ measured' = disk[Current.key].size
       \/ measured' = 0 /\ currentSize <= MaxCounted
    /\ victims' \in SUBSET Evictable(Current.key)
    /\ unlisted' = Evictable(Current.key) \ victims'
    /\ UNCHANGED <<disk, memory, currentSize, temp, queue, op, errors>>

(* One turn of the eviction loop: the oldest file that is left goes. *)
Evict ==
    /\ Runs("set") /\ step = "evict" /\ ~HasRoom
    /\ \E p \in victims :
          /\ \A q \in victims : disk[p].createdAt <= disk[q].createdAt
          /\ disk' = [disk EXCEPT ![p] = NoFile]
          /\ currentSize' = Minus(currentSize, disk[p].size)
          /\ victims' = victims \ {p}
    /\ UNCHANGED <<clock, memory, queue, op, step, unlisted, temp, measures, errors>>

(* unlink fails: the error leaves ensureSpace() and rejects the set(). *)
EvictFails ==
    /\ Runs("set") /\ step = "evict" /\ ~HasRoom /\ victims # {}
    /\ Settle
    /\ UNCHANGED <<disk, clock, memory, currentSize, errors>>

(* Where the entry is written before the rename. *)
Target == {t \in Temps : ~disk[t].exists}

(* There is room, or nothing is left to evict: writeFile creates the file   *)
(* and has written some of it.                                              *)
WriteBegins ==
    /\ Runs("set") /\ step = "evict"
    /\ HasRoom \/ victims = {}
    /\ \E t \in Target, s \in 0..(Current.size - 1) :
          /\ disk' = [disk EXCEPT ![t] = File(s, stamp, FALSE)]
          /\ temp' = t
    /\ step' = "write"
    /\ victims' = {}
    /\ UNCHANGED <<clock, memory, currentSize, queue, op, unlisted, measures, errors>>

WriteEnds ==
    /\ Runs("set") /\ step = "write"
    /\ disk' = [disk EXCEPT ![temp] = File(Current.size, stamp, TRUE)]
    /\ step' = "rename"
    /\ UNCHANGED <<clock, memory, currentSize, queue, op, victims, unlisted, temp,
                   measures, errors>>

(* The size bookkeeping after a rename. *)
AccountedAsNew == currentSize + Current.size
Accounted == Minus(currentSize + Current.size, measured)

(* rename() puts the entry in place; the accounting follows in its reaction.*)
Rename ==
    /\ Runs("set") /\ step = "rename"
    /\ disk' = [disk EXCEPT ![Current.key] = disk[temp], ![temp] = NoFile]
    /\ currentSize' = Accounted
    /\ doubled' = (doubled \/ measured # previous.size)
    /\ Settle
    /\ UNCHANGED <<clock, memory, missed>>

(* writeFile or rename fails: the temporary file, if it was created, is     *)
(* removed, if that works, and the set() rejects.                           *)
WriteFails ==
    /\ Runs("set")
    /\ \/ /\ step = "evict" /\ (HasRoom \/ victims = {})
          /\ UNCHANGED <<disk, missed>>
       \/ /\ step \in {"write", "rename"}
          /\ disk' = [disk EXCEPT ![temp] = NoFile]
          /\ UNCHANGED missed
       \/ /\ step \in {"write", "rename"}
          /\ missed' = TRUE
          /\ UNCHANGED disk
    /\ Settle
    /\ UNCHANGED <<clock, memory, currentSize, doubled>>

(* delete(): false if there is no file or it cannot be removed. *)
Delete ==
    /\ Runs("delete") /\ step = "begin"
    /\ \/ /\ disk[Current.key].exists
          /\ disk' = [disk EXCEPT ![Current.key] = NoFile]
          /\ currentSize' = Minus(currentSize, disk[Current.key].size)
       \/ UNCHANGED <<disk, currentSize>>
    /\ Settle
    /\ UNCHANGED <<clock, memory, errors>>

(* clear() removes the files one by one ... *)
ClearBegins ==
    /\ Runs("clear") /\ step = "begin"
    /\ step' = "clear"
    /\ victims' = Existing(disk)
    /\ UNCHANGED <<disk, clock, memory, currentSize, queue, op, unlisted, temp,
                   measures, errors>>

ClearRemoves ==
    /\ Runs("clear") /\ step = "clear"
    /\ \E p \in victims :
          /\ disk' = [disk EXCEPT ![p] = NoFile]
          /\ victims' = victims \ {p}
    /\ UNCHANGED <<clock, memory, currentSize, queue, op, step, unlisted, temp,
                   measures, errors>>

(* ... and sets the size to 0, errors or not. *)
ClearEnds ==
    /\ Runs("clear") /\ step = "clear"
    /\ currentSize' = 0
    /\ missed' = (victims # {}) /\ doubled' = FALSE
    /\ Settle
    /\ UNCHANGED <<disk, clock, memory>>

(* The process dies and a new one opens the same directory. *)
Crash ==
    /\ initialized' = FALSE
    /\ currentSize' = 0
    /\ waiting' = << >> /\ queue' = << >>
    /\ op' = [c \in Clients |-> Idle]
    /\ Forget
    /\ missed' = FALSE /\ doubled' = FALSE
    /\ UNCHANGED <<disk, clock>>

Mutation ==
    \/ SetRejects \/ SetBegins \/ Evict \/ EvictFails
    \/ WriteBegins \/ WriteEnds \/ Rename \/ WriteFails
    \/ Delete
    \/ ClearBegins \/ ClearRemoves \/ ClearEnds

Next ==
    \/ \E c \in Clients : Call(c)
    \/ Initialize
    \/ InitializeFails
    \/ Mutation
    \/ Crash

(* Every file system call of a process that lives returns, with an error or *)
(* not.                                                                     *)
Spec ==
    /\ Init /\ [][Next]_vars
    /\ WF_vars(Initialize \/ InitializeFails)
    /\ WF_vars(Mutation)

-----------------------------------------------------------------------------
(* The temporary file of the running set(), not yet part of the cache.      *)
InProgress == {temp} \cap Existing(disk)
TornFiles == {p \in Existing(disk) \ InProgress : ~disk[p].whole}

(* Safety: whatever is overwritten, evicted, deleted, cleared, rejected by  *)
(* the file system or left by a crash, currentSize is exactly what the      *)
(* files of the cache occupy, at every await of every mutation; and a       *)
(* swallowed failure makes it wrong on one side only.  A directory that     *)
(* cannot be read, a file clear() cannot remove and a temporary file that   *)
(* cannot be removed make it too small, never too large, whatever is        *)
(* subtracted and clipped at 0 later; an old entry that cannot be measured  *)
(* makes it too large, never too small.                                     *)
SizeIsExact ==
    LET occupied == SizeOf(Existing(disk) \ InProgress) IN
    initialized /\ step # "clear" =>
        /\ ~missed => currentSize >= occupied
        /\ ~doubled => currentSize <= occupied

(* Action property: a set() that ends, but one that fails and cannot remove *)
(* its temporary file, leaves the cache within its limit, on disk and by    *)
(* its own account, but for the files that torn writes left behind, which   *)
(* are counted and cannot be evicted, and the entries its listing missed    *)
(* because they could not be read.  The disk is meant when no file is       *)
(* missing from the count, the account when none is twice in it.            *)
(* (A crash may leave a complete temporary file that takes the cache over   *)
(* its limit; the next set() that needs room evicts it.)                    *)
SetMakesRoom ==
    [][Runs("set") /\ step = "rename" /\ initialized' /\ ~disk'[temp].exists =>
         LET limit == MaxSize + SizeOf(unlisted) + SizeOf(TornFiles)' IN
         /\ ~missed => SizeOf(Existing(disk))' <= limit
         /\ ~doubled' => currentSize' <= limit]_vars

(* Safety: the file of a key never holds a partial entry, during a write,   *)
(* after a crash or after a failed one; and until its rename, a set() has   *)
(* left the entry it replaces alone: if it fails or crashes on the way,     *)
(* get() still finds the old value.                                         *)
EntriesAreKeptWhole ==
    /\ \A k \in Keys : disk[k].exists => disk[k].whole
    /\ Runs("set") /\ step \in {"evict", "write", "rename"} =>
          disk[Current.key] = previous

(* Liveness: an operation that fails never keeps the ones behind it waiting:*)
(* every call settles, or dies with its process.                            *)
QueueIsServed == \A c \in Clients : op[c] # Idle ~> op[c] = Idle

=============================================================================
