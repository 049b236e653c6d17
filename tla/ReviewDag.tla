------------------------------ MODULE ReviewDag -----------------------------
(***************************************************************************)
(* executeReviewDAG (review/dag.ts): the structural reviewer runs first,   *)
(* then the semantic and the security reviewer that the diff triggers run  *)
(* together; each is one call of model.generate(), seen through the        *)
(* interface ModelCalls that ModelClient implements.                       *)
(*                                                                         *)
(* A promise settles (SettleCall) in one step and the code awaiting it     *)
(* runs in a later one, so whatever happens in between, an abort above     *)
(* all, is allowed for.  Promise.all rejects with the first branch that    *)
(* throws while the other branch goes on: BranchDone stays enabled after   *)
(* the DAG has thrown.                                                     *)
(*                                                                         *)
(* The diff is abstracted to what ReviewTriggers makes of it, a finding to *)
(* its reviewer.                                                           *)
(* Mutants stand above the operator they mutate, as in ModelClient.        *)
(***************************************************************************)
EXTENDS ReviewBounds, ReviewTriggers, Sequences

VARIABLES
    aborted,    \* signal.aborted
    settled,    \* the promise of model.generate() of each role
    docOnly,    \* every changed file is documentation or a test
    triggered,  \* triggeredReviewers
    stage,      \* where executeReviewDAG stands, or how it settled
    joined,     \* the reviewers whose branch has run to its end
    findings,   \* the findings array, each finding being its reviewer
    rawCounts,  \* rawCounts
    warnings,   \* the roles in the warnings array, in order
    failed      \* failedReviewers

Roles == {"structural", "semantic", "security"}

INSTANCE ModelCalls WITH Calls <- Roles

dagVars == <<docOnly, triggered, stage, joined, findings, rawCounts, warnings,
             failed>>
vars == <<aborted, settled, docOnly, triggered, stage, joined, findings,
          rawCounts, warnings, failed>>

Running  == {"start", "structural", "conditional"}
Threw    == {"threwAbort", "threwModelError"}

TypeOK ==
    /\ CallsTypeOK
    /\ docOnly \in BOOLEAN
    /\ triggered \in SUBSET Roles
    /\ stage \in Running \cup Threw \cup {"returned"}
    /\ joined \in SUBSET Roles
    /\ findings \in Seq(Roles)
    /\ rawCounts \in [Roles -> 0..MaxFindings]
    /\ warnings \in Seq(Roles)
    /\ failed \in SUBSET Roles

Init ==
    /\ CallsInit
    /\ \E plan \in Plans : docOnly = plan.docOnly /\ triggered = plan.triggered
    /\ stage = "start"
    /\ joined = {}
    /\ findings = << >>
    /\ rawCounts = [r \in Roles |-> 0]
    /\ warnings = << >>
    /\ failed = {}

(* The roles filtered from triggeredReviewers for the second stage. *)
Conditional == triggered \ {"structural"}

(* isAbortError: the signal is aborted, or the error's name or text says so.*)
IsAbortError(r) ==
    settled[r] # "ok" /\ (aborted \/ settled[r] \in {"aborted", "failedSaysAborted"})

(* A reviewer answered with n findings. *)
RecordResponse(r, n) ==
    /\ rawCounts' = [rawCounts EXCEPT ![r] = n]
    /\ findings' = findings \o [i \in 1..n |-> r]
    /\ UNCHANGED <<warnings, failed>>

(* A reviewer failed and the review goes on without it. *)
RecordFailureWarnOnly(r) ==
    /\ warnings' = Append(warnings, r)
    /\ UNCHANGED <<rawCounts, findings, failed>>
RecordFailure(r) ==
    /\ warnings' = Append(warnings, r)
    /\ failed' = failed \cup {r}
    /\ UNCHANGED <<rawCounts, findings>>

(* The try block of one reviewer runs to its end; the catch block rethrows  *)
(* an abort and turns any other error into a warning.                       *)
Join(r) ==
    /\ settled[r] \in Outcomes
    /\ joined' = joined \cup {r}
    /\ \/ settled[r] = "ok" /\ \E n \in 0..MaxFindings : RecordResponse(r, n)
       \/ IsAbortError(r) /\ UNCHANGED <<findings, rawCounts, warnings, failed>>
       \/ settled[r] # "ok" /\ ~IsAbortError(r) /\ RecordFailure(r)

(* The fault tolerance check before the return: all failed, so it throws.   *)
VerdictAnyFailed(lost) == IF lost # {} THEN "threwModelError" ELSE "returned"
Verdict(lost) == IF lost = triggered THEN "threwModelError" ELSE "returned"

(* Documentation-only and test-only diffs never reach the model. *)
FastPath ==
    /\ stage = "start" /\ docOnly
    /\ stage' = "returned"
    /\ UNCHANGED <<aborted, settled, docOnly, triggered, joined, findings,
                   rawCounts, warnings, failed>>

(* signal.throwIfAborted() before a stage starts. *)
MayStart == ~aborted

(* The structural reviewer is called. *)
Start ==
    /\ stage = "start" /\ ~docOnly
    /\ IF MayStart
       THEN StartCalls({"structural"}) /\ stage' = "structural"
       ELSE UNCHANGED <<aborted, settled>> /\ stage' = "threwAbort"
    /\ UNCHANGED <<docOnly, triggered, joined, findings, rawCounts, warnings,
                   failed>>

(* Its promise has settled: record, check for cancellation, and call every *)
(* conditional reviewer in the same task, or finish if there is none.      *)
StructuralDone ==
    /\ stage = "structural"
    /\ Join("structural")
    /\ IF IsAbortError("structural") \/ ~MayStart
       THEN stage' = "threwAbort" /\ UNCHANGED <<aborted, settled>>
       ELSE IF Conditional = {}
       THEN stage' = Verdict(failed') /\ UNCHANGED <<aborted, settled>>
       ELSE stage' = "conditional" /\ StartCalls(Conditional)
    /\ UNCHANGED <<docOnly, triggered>>

(* A conditional reviewer's promise has settled.  The first branch that    *)
(* throws rejects the DAG; the last one that ends lets Promise.all resolve.*)
BranchDone(r) ==
    /\ r \in Conditional \ joined
    /\ stage \in {"conditional"} \cup Threw
    /\ Join(r)
    /\ stage' = IF stage # "conditional" THEN stage
                ELSE IF IsAbortError(r) THEN "threwAbort"
                ELSE IF joined' = triggered THEN Verdict(failed')
                ELSE stage
    /\ UNCHANGED <<aborted, settled, docOnly, triggered>>

Next ==
    \/ FastPath
    \/ Start
    \/ StructuralDone
    \/ \E r \in Roles : BranchDone(r)
    \/ \E r \in Roles, o \in Outcomes : SettleCall(r, o) /\ UNCHANGED dagVars
    \/ AbortCalls /\ UNCHANGED dagVars

(* Promise reactions always run, and generate() settles (EveryCallSettles   *)
(* of ModelClient).                                                         *)
Fairness ==
    /\ WF_vars(FastPath \/ Start \/ StructuralDone)
    /\ \A r \in Roles :
          /\ WF_vars(BranchDone(r))
          /\ WF_vars(\E o \in Outcomes : SettleCall(r, o) /\ UNCHANGED dagVars)

Spec == Init /\ [][Next]_vars /\ Fairness

-----------------------------------------------------------------------------
Succeeded == {r \in Roles : settled[r] = "ok"}
CountOf(r) == Cardinality({i \in DOMAIN findings : findings[i] = r})

(* Safety: a DAG that returns has heard every reviewer it triggered, and    *)
(* each one either contributed all of its findings or is named in exactly   *)
(* one warning: no reviewer is silently lost, counted twice or left running.*)
ReturnAccountsForEveryReviewer ==
    stage = "returned" /\ ~docOnly =>
        /\ Succeeded \cup failed = triggered
        /\ Succeeded \cap failed = {}
        /\ \A r \in Roles : CountOf(r) = rawCounts[r]
        /\ \A r \in Roles :
              Cardinality({i \in DOMAIN warnings : warnings[i] = r})
                = IF r \in failed THEN 1 ELSE 0

(* Safety: an empty review is never mistaken for a clean one, and one       *)
(* failing reviewer costs only its own findings: a DAG that called the      *)
(* model returns only if at least one reviewer answered, and reports a      *)
(* model error only if none did.                                            *)
AnswersDecideTheVerdict ==
    /\ stage = "returned" /\ ~docOnly => Succeeded # {}
    /\ stage = "threwModelError" => failed = triggered /\ findings = << >>

(* Action property: after the signal is aborted no failure is recorded as a *)
(* degraded reviewer, so a cancelled review cannot pass for a partial one.  *)
AbortIsNotDegradation == [][aborted => warnings' = warnings]_vars

=============================================================================
