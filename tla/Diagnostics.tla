----------------------------- MODULE Diagnostics ----------------------------
(***************************************************************************)
(* collectDiagnostics (analysis/diagnostics): the linters of the           *)
(* repository run as child processes through spawnWithSignal               *)
(* (cancellation/subprocess.ts), a few at a time, under the review's abort *)
(* signal.  No caller gives spawnWithSignal a timeout, so its timeout is   *)
(* left out.                                                               *)
(*                                                                         *)
(* The promise of a tool and its child process are two things: the promise *)
(* may settle while the child lives on.  A child may ignore SIGTERM, and   *)
(* it may hang.  The diagnostics of a tool are abstracted to whether its   *)
(* output reached the result.  Mutants stand above what they mutate.       *)
(***************************************************************************)
EXTENDS Naturals, FiniteSets

CONSTANTS
    NumTools,       \* the tools of the detected languages, in table order
    Concurrency     \* limit of the pool

ASSUME DiagnosticsAssumption ==
    /\ NumTools \in Nat
    /\ Concurrency \in Nat \ {0}

Tools == 1..NumTools

VARIABLES
    aborted,    \* signal.aborted
    stage,      \* where collectDiagnostics stands, or how it settled
    tool,       \* where runTool stands for each tool, or how it settled
    child,      \* its child process
    stubborn,   \* the children that ignore SIGTERM
    json,       \* the tools that print JSON
    exit,       \* how the child ended, as it saw it
    results     \* the Map results: the tools, and whether output was kept

given == <<stubborn, json>>
vars == <<aborted, stage, tool, child, given, exit, results>>

(* A linter without complaint, one with complaints (exit code 1), a failing *)
(* one, and one that a signal ended.                                        *)
Exits == {"clean", "issues", "crashed", "signalled"}
Ended == {"returned", "threw"}

TypeOK ==
    /\ aborted \in BOOLEAN
    /\ stage \in {"start", "detecting", "running"} \cup Ended
    /\ tool \in [Tools -> {"new", "queued", "probing", "running"} \cup Ended]
    /\ child \in [Tools -> {"none", "alive", "gone"}]
    /\ stubborn \in SUBSET Tools /\ json \in SUBSET Tools
    /\ exit \in [Tools -> Exits \cup {"none"}]
    /\ results \in [Tools -> {"absent", "empty", "output"}]
    /\ \A t \in Tools : tool[t] = "returned" <=> results[t] # "absent"

Init ==
    /\ aborted \in BOOLEAN
    /\ stage = "start"
    /\ tool = [t \in Tools |-> "new"]
    /\ child = [t \in Tools |-> "none"]
    /\ stubborn \in SUBSET Tools /\ json \in SUBSET Tools
    /\ exit = [t \in Tools |-> "none"]
    /\ results = [t \in Tools |-> "absent"]

(* Without files there is nothing to do; an aborted signal is an error.     *)
Begin ==
    /\ stage = "start"
    /\ \/ stage' = "returned"
       \/ stage' = IF aborted THEN "threw" ELSE "detecting"
    /\ UNCHANGED <<aborted, tool, child, given, exit, results>>

(* detectTools() has probed every tool of the languages; the look for the   *)
(* command in the PATH never says no, so all of them enter the pool.        *)
Detect ==
    /\ stage = "detecting"
    /\ stage' = IF Tools = {} THEN "returned" ELSE "running"
    /\ tool' = [t \in Tools |-> "queued"]
    /\ UNCHANGED <<aborted, child, given, exit, results>>

Active == {t \in Tools : tool[t] \in {"probing", "running"}}
NextInQueue(t) == tool[t] = "queued" /\ \A u \in Tools : tool[u] = "queued" => t <= u

(* runTool() keeps what was printed, or nothing.                            *)
Record(t, kept) ==
    /\ tool' = [tool EXCEPT ![t] = "returned"]
    /\ results' = [results EXCEPT ![t] = kept]

(* runTool() begins: it throws if the signal is aborted, which rejects      *)
(* pool.map() and leaves the tools behind it in the queue.                  *)
BeginToolUnchecked(t) ==
    tool' = [tool EXCEPT ![t] = "probing"] /\ UNCHANGED stage
BeginTool(t) ==
    IF aborted
    THEN tool' = [tool EXCEPT ![t] = "threw"] /\ stage' = "threw"
    ELSE tool' = [tool EXCEPT ![t] = "probing"] /\ UNCHANGED stage

StartTool(t) ==
    /\ NextInQueue(t)
    /\ Cardinality(Active) < Concurrency
    /\ BeginTool(t)
    /\ UNCHANGED <<aborted, child, given, exit, results>>

(* spawn() with a signal: one that is aborted does not keep the child from  *)
(* being spawned; it is killed, and the promise rejects, in the next tick.  *)
SpawnWithSignal(t) ==
    /\ child' = [child EXCEPT ![t] = "alive"]
    /\ IF aborted THEN Record(t, "empty")
       ELSE tool' = [tool EXCEPT ![t] = "running"] /\ UNCHANGED results

(* The local binary has been looked for. *)
Spawn(t) ==
    /\ tool[t] = "probing"
    /\ SpawnWithSignal(t)
    /\ UNCHANGED <<aborted, stage, given, exit>>

(* runTool() catches what spawnWithSignal() rejects with.                   *)
Degrade(t) == Record(t, "empty") /\ UNCHANGED stage

(* There is no such command. *)
SpawnFails(t) ==
    /\ tool[t] = "probing"
    /\ Degrade(t)
    /\ UNCHANGED <<aborted, child, given, exit>>

(* The exits that spawnWithSignal() resolves; it rejects every exit code    *)
(* but 0.  Output that is not JSON, or is cut off, is dropped.              *)
Resolved == {"clean", "signalled"}
KeptOutput(t, e) ==
    IF t \notin json THEN {"empty"}
    ELSE IF e = "clean" THEN {"output"} ELSE {"output", "empty"}

(* A child ends by itself, or by the SIGTERM of the abort. *)
ChildExits(t) ==
    /\ child[t] = "alive"
    /\ child' = [child EXCEPT ![t] = "gone"]
    /\ \E e \in Exits :
          /\ exit' = [exit EXCEPT ![t] = e]
          /\ IF tool[t] # "running" THEN UNCHANGED <<tool, stage, results>>
             ELSE IF e \in Resolved
             THEN UNCHANGED stage /\ \E kept \in KeptOutput(t, e) : Record(t, kept)
             ELSE Degrade(t)
    /\ UNCHANGED <<aborted, given>>

(* The abort kills every child with SIGTERM, and in the same task their     *)
(* promises reject: runTool() returns nothing for them.                     *)
SettleOnAbortWithKill(t) == FALSE
SettleOnAbort(t) == tool[t] = "running"

Abort ==
    /\ ~aborted
    /\ aborted' = TRUE
    /\ tool' = [t \in Tools |-> IF SettleOnAbort(t) THEN "returned" ELSE tool[t]]
    /\ results' = [t \in Tools |-> IF SettleOnAbort(t) THEN "empty" ELSE results[t]]
    /\ UNCHANGED <<stage, child, given, exit>>

(* Every promise has resolved: deduplication, and the result. *)
Return ==
    /\ stage = "running"
    /\ \A t \in Tools : tool[t] = "returned"
    /\ stage' = "returned"
    /\ UNCHANGED <<aborted, tool, child, given, exit, results>>

Next ==
    \/ Begin \/ Detect \/ Return \/ Abort
    \/ \E t \in Tools : StartTool(t) \/ Spawn(t) \/ SpawnFails(t) \/ ChildExits(t)

(* The abort handler sends a SIGTERM.  The SIGKILL that should follow never *)
(* does, because child.killed only says that a signal was sent.             *)
ObeysSigterm(t) == aborted /\ t \notin stubborn

(* Reactions and file system calls end.  A child need not: only one that    *)
(* got a SIGTERM and does not ignore it is sure to end.                     *)
Fairness ==
    /\ WF_vars(Begin \/ Detect \/ Return)
    /\ \A t \in Tools :
          /\ WF_vars(StartTool(t) \/ Spawn(t) \/ SpawnFails(t))
          /\ WF_vars(ObeysSigterm(t) /\ ChildExits(t))

Spec == Init /\ [][Next]_vars /\ Fairness

-----------------------------------------------------------------------------
(* Safety: no more children live at a time than the pool has slots, even    *)
(* though an abort gives slots back while children that ignore SIGTERM live *)
(* on, and queued tools go on being started.                                *)
ChildrenWithinLimit ==
    Cardinality({t \in Tools : child[t] = "alive"}) <= Concurrency

(* Liveness: once the review is cancelled the collection settles, although  *)
(* linters may hang and ignore SIGTERM.                                     *)
AbortSettles == aborted ~> stage \in Ended

(* tools.ts:224 says of the results: "Exit code 1 is often "found issues"   *)
(* which is expected": what a linter complains about reaches the review.    *)
ComplaintsAreCollected ==
    stage = "returned" /\ ~aborted =>
        \A t \in json : exit[t] = "issues" => results[t] = "output"
=============================================================================
