--------------------------- MODULE ReviewDagProofs --------------------------
(***************************************************************************)
(* Proofs about the review DAG, for any bound on the findings of one       *)
(* response.                                                               *)
(***************************************************************************)
EXTENDS ReviewDag, FiniteSetTheorems, TLAPS

(* What ties the bookkeeping of the DAG to the promises it awaits: only a   *)
(* branch that has run to its end has left something behind, what it left   *)
(* fits how its promise settled, and the DAG has settled only after all of  *)
(* its branches unless it threw.                                            *)
JoinedAfterSettling ==
    /\ joined \subseteq triggered
    /\ \A r \in joined : settled[r] \in Outcomes
FailedDidNotAnswer == failed \subseteq {r \in joined : settled[r] # "ok"}
FindingsFromAnswers ==
    \A i \in DOMAIN findings : findings[i] \in joined /\ settled[findings[i]] = "ok"
JoinedIsRecorded ==
    stage \notin Threw => \A r \in joined : settled[r] = "ok" \/ r \in failed
StageFits ==
    /\ stage \in {"start", "structural"} => joined = {}
    /\ stage = "returned" /\ ~docOnly => joined = triggered /\ failed # triggered
    /\ stage = "threwModelError" => joined = triggered /\ failed = triggered
    /\ docOnly => stage \in {"start", "returned"}
    /\ "structural" \in triggered

IInv ==
    /\ TypeOK
    /\ JoinedAfterSettling
    /\ FailedDidNotAnswer
    /\ FindingsFromAnswers
    /\ JoinedIsRecorded
    /\ StageFits

(* Whatever has changed, the structural reviewer is triggered, and nobody   *)
(* but the reviewers.                                                       *)
LEMMA PlansAreSound ==
    \A plan \in Plans :
        plan.docOnly \in BOOLEAN /\ "structural" \in plan.triggered
                                /\ plan.triggered \subseteq Roles
<1>1. ASSUME NEW change \in Changes
      PROVE  /\ AllDocOrTest(change) \in BOOLEAN
             /\ "structural" \in TriggeredReviewers(change)
             /\ TriggeredReviewers(change) \subseteq Roles
  BY DEF AllDocOrTest, TriggeredReviewers, Roles
<1> QED
  BY <1>1 DEF Plans

(* t is s with n times r after it.                                          *)
Extends(t, s, r, n) ==
    /\ Len(t) = Len(s) + n
    /\ \A i \in 1..Len(t) : t[i] = IF i <= Len(s) THEN s[i] ELSE r

(* Appending n findings of one reviewer keeps a sequence of roles, and adds *)
(* nothing but that reviewer.                                               *)
LEMMA AppendFindings ==
    ASSUME NEW s \in Seq(Roles), NEW r \in Roles, NEW n \in Nat,
           NEW t, t = s \o [j \in 1..n |-> r]
    PROVE  t \in Seq(Roles) /\ Extends(t, s, r, n)
<1> DEFINE u == [j \in 1..n |-> r]
<1>1. u \in Seq(Roles) /\ Len(u) = n
  OBVIOUS
<1>2. t = s \o u
  OBVIOUS
<1>3. \A i \in 1..n : u[i] = r
  OBVIOUS
<1> HIDE DEF u
<1>4. t \in Seq(Roles) /\ Len(t) = Len(s) + n
  BY <1>1, <1>2
<1>5. ASSUME NEW i \in 1..(Len(s) + n)
      PROVE  t[i] = IF i <= Len(s) THEN s[i] ELSE u[i - Len(s)]
  BY <1>1, <1>2
<1>6. ASSUME NEW i \in 1..(Len(s) + n), ~(i <= Len(s))
      PROVE  i - Len(s) \in 1..n
  BY <1>6
<1> QED
  BY <1>3, <1>4, <1>5, <1>6 DEF Extends

(* Running a branch to its end: what Join may leave behind. *)
LEMMA JoinEffect ==
    ASSUME TypeOK, NEW r \in Roles, Join(r)
    PROVE  /\ joined' = joined \cup {r}
           /\ settled[r] \in Outcomes
           /\ findings' \in Seq(Roles) /\ rawCounts' \in [Roles -> 0..MaxFindings]
           /\ warnings' \in Seq(Roles)
           /\ failed' \subseteq failed \cup (IF settled[r] = "ok" THEN {} ELSE {r})
           /\ failed \subseteq failed'
           /\ settled[r] = "ok" \/ IsAbortError(r) \/ r \in failed'
           /\ \A i \in DOMAIN findings' :
                 \/ findings'[i] = r /\ settled[r] = "ok"
                 \/ i \in DOMAIN findings /\ findings'[i] = findings[i]
<1>1. /\ findings \in Seq(Roles) /\ rawCounts \in [Roles -> 0..MaxFindings]
      /\ warnings \in Seq(Roles) /\ failed \subseteq Roles
  BY DEF TypeOK
<1>2. joined' = joined \cup {r} /\ settled[r] \in Outcomes
  BY DEF Join
<1>3. CASE settled[r] = "ok"
  <2>1. PICK n \in 0..MaxFindings : RecordResponse(r, n)
    BY <1>3 DEF Join, IsAbortError
  <2>2. n \in Nat
    BY <2>1, DagAssumption
  <2>3. /\ findings' = findings \o [i \in 1..n |-> r]
        /\ rawCounts' = [rawCounts EXCEPT ![r] = n]
        /\ warnings' = warnings
        /\ failed' = failed
    BY <2>1 DEF RecordResponse
  <2>4. findings' \in Seq(Roles)
    BY <1>1, <2>2, <2>3, AppendFindings
  <2>5. \A i \in DOMAIN findings' :
           findings'[i] = r \/ (i \in DOMAIN findings /\ findings'[i] = findings[i])
    BY <1>1, <2>2, <2>3, AppendFindings DEF Extends
  <2>6. rawCounts' \in [Roles -> 0..MaxFindings]
    BY <1>1, <2>3
  <2> QED
    BY <1>1, <1>2, <1>3, <2>3, <2>4, <2>5, <2>6
<1>4. CASE settled[r] # "ok" /\ IsAbortError(r)
  <2>1. UNCHANGED <<findings, rawCounts, warnings, failed>>
    BY <1>4 DEF Join
  <2> QED
    BY <1>1, <1>2, <1>4, <2>1
<1>5. CASE settled[r] # "ok" /\ ~IsAbortError(r)
  <2>1. /\ warnings' = Append(warnings, r)
        /\ failed' = failed \cup {r}
        /\ UNCHANGED <<rawCounts, findings>>
    BY <1>5 DEF Join, RecordFailure
  <2> QED
    BY <1>1, <1>2, <1>5, <2>1
<1> QED
  BY <1>3, <1>4, <1>5

(* A promise that has settled keeps its outcome, whatever is called, settles *)
(* or is aborted next.                                                      *)
LEMMA OutcomesAreFinal ==
    ASSUME CallsTypeOK,
           \/ \E S \in SUBSET Roles : StartCalls(S)
           \/ \E r \in Roles, o \in Outcomes : SettleCall(r, o)
           \/ AbortCalls
           \/ UNCHANGED <<aborted, settled>>
    PROVE  /\ CallsTypeOK'
           /\ \A q \in Roles : settled[q] \in Outcomes => settled'[q] = settled[q]
<1> USE DEF CallsTypeOK, Outcomes
<1>1. ASSUME NEW S \in SUBSET Roles, StartCalls(S)
      PROVE  /\ CallsTypeOK'
             /\ \A q \in Roles : settled[q] \in Outcomes => settled'[q] = settled[q]
  BY <1>1 DEF StartCalls
<1>2. ASSUME NEW r \in Roles, NEW o \in Outcomes, SettleCall(r, o)
      PROVE  /\ CallsTypeOK'
             /\ \A q \in Roles : settled[q] \in Outcomes => settled'[q] = settled[q]
  BY <1>2 DEF SettleCall
<1>3. CASE AbortCalls
  BY <1>3 DEF AbortCalls
<1>4. CASE UNCHANGED <<aborted, settled>>
  BY <1>4
<1> QED
  BY <1>1, <1>2, <1>3, <1>4

(* The invariant survives a step that leaves the DAG alone and lets a call  *)
(* settle or the signal abort.                                              *)
LEMMA CallStepKeepsIInv ==
    ASSUME IInv, CallsTypeOK', UNCHANGED dagVars,
           \A q \in Roles : settled[q] \in Outcomes => settled'[q] = settled[q]
    PROVE  IInv'
<1> USE DEF IInv, dagVars
<1>1. TypeOK'
  BY DEF TypeOK
<1>2. joined \subseteq Roles /\ \A r \in joined : settled'[r] = settled[r]
  BY DEF TypeOK, JoinedAfterSettling
<1>3. JoinedAfterSettling' /\ FailedDidNotAnswer' /\ FindingsFromAnswers' /\ JoinedIsRecorded'
  BY <1>2 DEF JoinedAfterSettling, FailedDidNotAnswer, FindingsFromAnswers,
              JoinedIsRecorded, Threw
<1>4. StageFits'
  BY DEF StageFits
<1> QED
  BY <1>1, <1>3, <1>4

(* A branch that ends leaves the bookkeeping consistent.                    *)
LEMMA JoinKeepsRecords ==
    ASSUME IInv, NEW r \in triggered, Join(r), triggered' = triggered,
           CallsTypeOK',
           \A q \in Roles : settled[q] \in Outcomes => settled'[q] = settled[q]
    PROVE  /\ JoinedAfterSettling' /\ FailedDidNotAnswer' /\ FindingsFromAnswers'
           /\ \A q \in joined' \ {r} : settled[q] = "ok" \/ q \in failed =>
                  settled'[q] = "ok" \/ q \in failed'
           /\ settled'[r] = "ok" \/ IsAbortError(r) \/ r \in failed'
<1>1. TypeOK /\ r \in Roles /\ joined \subseteq Roles
  BY DEF IInv, TypeOK
<1>2. /\ joined' = joined \cup {r}
      /\ settled[r] \in Outcomes
      /\ failed' \subseteq failed \cup (IF settled[r] = "ok" THEN {} ELSE {r})
      /\ failed \subseteq failed'
      /\ settled[r] = "ok" \/ IsAbortError(r) \/ r \in failed'
      /\ \A i \in DOMAIN findings' :
            \/ findings'[i] = r /\ settled[r] = "ok"
            \/ i \in DOMAIN findings /\ findings'[i] = findings[i]
  BY <1>1, JoinEffect
<1>3. \A q \in joined' : settled[q] \in Outcomes /\ settled'[q] = settled[q]
  BY <1>1, <1>2 DEF IInv, JoinedAfterSettling
<1>4. JoinedAfterSettling'
  BY <1>2, <1>3 DEF IInv, JoinedAfterSettling
<1>5. FailedDidNotAnswer'
  BY <1>2, <1>3 DEF IInv, FailedDidNotAnswer
<1>6. FindingsFromAnswers'
  BY <1>2, <1>3 DEF IInv, FindingsFromAnswers
<1> QED
  BY <1>2, <1>3, <1>4, <1>5, <1>6

LEMMA StructuralDoneKeepsIInv ==
    ASSUME IInv, StructuralDone
    PROVE  IInv'
<1> DEFINE r == "structural"
<1>1. /\ TypeOK /\ stage = "structural" /\ Join(r) /\ r \in triggered
      /\ joined = {} /\ ~docOnly
      /\ UNCHANGED <<docOnly, triggered>>
  BY DEF StructuralDone, IInv, StageFits
<1>2. \/ \E S \in SUBSET Roles : StartCalls(S)
      \/ UNCHANGED <<aborted, settled>>
  BY <1>1 DEF StructuralDone, Conditional, TypeOK
<1>3. /\ CallsTypeOK'
      /\ \A q \in Roles : settled[q] \in Outcomes => settled'[q] = settled[q]
  BY <1>1, <1>2, OutcomesAreFinal DEF TypeOK
<1>4. /\ JoinedAfterSettling' /\ FailedDidNotAnswer' /\ FindingsFromAnswers'
      /\ settled'[r] = "ok" \/ IsAbortError(r) \/ r \in failed'
  BY <1>1, <1>3, JoinKeepsRecords
<1>5. /\ joined' = {r} /\ findings' \in Seq(Roles)
      /\ rawCounts' \in [Roles -> 0..MaxFindings] /\ warnings' \in Seq(Roles)
      /\ failed' \subseteq {r} /\ r \in Roles
  <2>1. failed = {}
    BY <1>1 DEF IInv, FailedDidNotAnswer
  <2> QED
    BY <1>1, <2>1, JoinEffect DEF Roles
<1>6. \/ stage' = "threwAbort"
      \/ /\ ~IsAbortError(r) /\ triggered = {r} /\ stage' = Verdict(failed')
      \/ /\ ~IsAbortError(r) /\ stage' = "conditional"
  BY <1>1 DEF StructuralDone, Conditional
<1>7. stage' \in Running \cup Threw \cup {"returned"}
  BY <1>6 DEF Running, Threw, Verdict
<1>8. TypeOK'
  BY <1>1, <1>3, <1>5, <1>7 DEF TypeOK
<1>9. JoinedIsRecorded'
  BY <1>4, <1>5, <1>6 DEF JoinedIsRecorded, Threw
<1>10. StageFits'
  BY <1>1, <1>5, <1>6 DEF StageFits, Verdict
<1> QED
  BY <1>4, <1>8, <1>9, <1>10 DEF IInv

LEMMA BranchDoneKeepsIInv ==
    ASSUME IInv, NEW r \in Roles, BranchDone(r)
    PROVE  IInv'
<1>1. /\ TypeOK /\ Join(r) /\ r \in triggered \ joined
      /\ stage \in {"conditional"} \cup Threw /\ ~docOnly
      /\ UNCHANGED <<aborted, settled, docOnly, triggered>>
      /\ stage # "threwModelError"
  BY DEF BranchDone, Conditional, IInv, StageFits, Threw
<1>2. /\ CallsTypeOK'
      /\ \A q \in Roles : settled[q] \in Outcomes => settled'[q] = settled[q]
  BY <1>1 DEF TypeOK, CallsTypeOK
<1>3. /\ JoinedAfterSettling' /\ FailedDidNotAnswer' /\ FindingsFromAnswers'
      /\ \A q \in joined' \ {r} : settled[q] = "ok" \/ q \in failed =>
             settled'[q] = "ok" \/ q \in failed'
      /\ settled'[r] = "ok" \/ IsAbortError(r) \/ r \in failed'
  BY <1>1, <1>2, JoinKeepsRecords
<1>4. /\ joined' = joined \cup {r} /\ findings' \in Seq(Roles)
      /\ rawCounts' \in [Roles -> 0..MaxFindings] /\ warnings' \in Seq(Roles)
      /\ failed' \subseteq failed \cup {r}
  BY <1>1, JoinEffect
<1>5. \/ stage' = "threwAbort"
      \/ /\ stage = "conditional" /\ ~IsAbortError(r)
         /\ joined' = triggered /\ stage' = Verdict(failed')
      \/ /\ stage = "conditional" /\ ~IsAbortError(r) /\ stage' = "conditional"
  BY <1>1 DEF BranchDone, Threw
<1>6. stage' \in Running \cup Threw \cup {"returned"}
  BY <1>5 DEF Running, Threw, Verdict
<1>7. TypeOK'
  <2>1. joined \subseteq Roles /\ failed \subseteq Roles
    BY <1>1 DEF TypeOK
  <2> QED
    BY <1>1, <1>2, <1>4, <1>6, <2>1 DEF TypeOK
<1>8. JoinedIsRecorded'
  BY <1>3, <1>4, <1>5 DEF IInv, JoinedIsRecorded, Threw
<1>9. StageFits'
  BY <1>1, <1>5 DEF IInv, StageFits, Verdict
<1> QED
  BY <1>3, <1>7, <1>8, <1>9 DEF IInv

(* It does not take the fairness of Spec.                                   *)
LEMMA InductiveInvariant == Init /\ [][Next]_vars => []IInv
<1>1. Init => IInv
  <2> SUFFICES ASSUME Init PROVE IInv
    OBVIOUS
  <2>1. TypeOK
    <3>1. CallsTypeOK
      BY DEF Init, CallsInit, CallsTypeOK
    <3>2. docOnly \in BOOLEAN /\ triggered \in SUBSET Roles
      BY PlansAreSound DEF Init, Roles
    <3>3. rawCounts \in [Roles -> 0..MaxFindings]
      BY DagAssumption DEF Init
    <3> QED
      BY <3>1, <3>2, <3>3 DEF Init, TypeOK, Running
  <2>2. joined = {} /\ failed = {} /\ findings = << >> /\ stage = "start"
        /\ "structural" \in triggered
    BY PlansAreSound DEF Init
  <2> QED
    BY <2>1, <2>2 DEF IInv, JoinedAfterSettling, FailedDidNotAnswer,
                      FindingsFromAnswers, JoinedIsRecorded, StageFits
<1>2. IInv /\ [Next]_vars => IInv'
  <2> SUFFICES ASSUME IInv, [Next]_vars PROVE IInv'
    OBVIOUS
  <2>1. CASE FastPath
    <3>1. /\ TypeOK /\ docOnly /\ stage = "start" /\ stage' = "returned"
          /\ UNCHANGED <<aborted, settled, docOnly, triggered, joined, findings,
                         rawCounts, warnings, failed>>
      BY <2>1 DEF FastPath, IInv
    <3> QED
      BY <3>1 DEF IInv, TypeOK, CallsTypeOK, JoinedAfterSettling,
         FailedDidNotAnswer, FindingsFromAnswers, JoinedIsRecorded, StageFits,
         Threw
  <2>2. CASE Start
    <3>1. /\ TypeOK /\ ~docOnly /\ stage = "start" /\ joined = {}
          /\ failed = {} /\ stage' \in {"structural", "threwAbort"}
          /\ UNCHANGED <<docOnly, triggered, joined, findings, rawCounts,
                         warnings, failed>>
      BY <2>2 DEF Start, IInv, StageFits, FailedDidNotAnswer
    <3>2. CallsTypeOK'
      <4>1. StartCalls({"structural"}) \/ UNCHANGED <<aborted, settled>>
        BY <2>2 DEF Start
      <4> QED
        BY <3>1, <4>1, OutcomesAreFinal DEF TypeOK, Roles
    <3>3. TypeOK'
      BY <3>1, <3>2 DEF TypeOK, Running, Threw
    <3>4. DOMAIN findings = {}
      BY <3>1 DEF IInv, FindingsFromAnswers
    <3> QED
      BY <3>1, <3>3, <3>4 DEF IInv, JoinedAfterSettling, FailedDidNotAnswer,
         FindingsFromAnswers, JoinedIsRecorded, StageFits
  <2>3. CASE StructuralDone
    BY <2>3, StructuralDoneKeepsIInv
  <2>4. ASSUME NEW r \in Roles, BranchDone(r) PROVE IInv'
    BY <2>4, BranchDoneKeepsIInv
  <2>5. ASSUME NEW r \in Roles, NEW o \in Outcomes,
               SettleCall(r, o) /\ UNCHANGED dagVars
        PROVE  IInv'
    BY <2>5, OutcomesAreFinal, CallStepKeepsIInv DEF IInv, TypeOK
  <2>6. CASE AbortCalls /\ UNCHANGED dagVars
    BY <2>6, OutcomesAreFinal, CallStepKeepsIInv DEF IInv, TypeOK
  <2>7. CASE UNCHANGED vars
    <3>1. UNCHANGED <<aborted, settled>> /\ UNCHANGED dagVars
      BY <2>7 DEF vars, dagVars
    <3> QED
      BY <3>1, OutcomesAreFinal, CallStepKeepsIInv DEF IInv, TypeOK
  <2> QED
    BY <2>1, <2>2, <2>3, <2>4, <2>5, <2>6, <2>7 DEF Next
<1> QED
  BY <1>1, <1>2, PTL

-----------------------------------------------------------------------------
(* The variables of the DAG keep their types, for any size of a response.   *)
THEOREM TypeCorrect == Spec => []TypeOK
BY InductiveInvariant, PTL DEF Spec, IInv

(* A DAG that returns has heard somebody, and one that threw a model error  *)
(* nobody.                                                                  *)
LEMMA AnswersFollow == IInv => AnswersDecideTheVerdict
<1> SUFFICES ASSUME IInv PROVE AnswersDecideTheVerdict
  OBVIOUS
<1>1. ASSUME stage = "returned", ~docOnly
      PROVE  Succeeded # {}
  <2>1. joined = triggered /\ failed # triggered /\ triggered \subseteq Roles
    BY <1>1 DEF IInv, StageFits, TypeOK
  <2>2. PICK r \in triggered : r \notin failed
    BY <2>1 DEF IInv, FailedDidNotAnswer
  <2>3. settled[r] = "ok"
    BY <1>1, <2>1, <2>2 DEF IInv, JoinedIsRecorded, Threw
  <2> QED
    BY <2>1, <2>2, <2>3 DEF Succeeded
<1>2. ASSUME stage = "threwModelError"
      PROVE  failed = triggered /\ findings = << >>
  <2>1. failed = triggered /\ joined = triggered
    BY <1>2 DEF IInv, StageFits
  <2>2. DOMAIN findings = {}
    BY <2>1 DEF IInv, FindingsFromAnswers, FailedDidNotAnswer
  <2>3. findings \in Seq(Roles)
    BY DEF IInv, TypeOK
  <2> QED
    BY <2>1, <2>2, <2>3
<1> QED
  BY <1>1, <1>2 DEF AnswersDecideTheVerdict

(* The answers decide how the DAG ends: executeReviewDAG never passes an    *)
(* empty review off as a clean one, and the failure of one reviewer never   *)
(* throws away the findings of another.                                     *)
THEOREM AnswersDecide == Spec => []AnswersDecideTheVerdict
BY AnswersFollow, InductiveInvariant, PTL DEF Spec

(* Before the DAG starts, and when nothing but documentation and tests has  *)
(* changed, no reviewer has been called.                                    *)
NotCalledYet ==
    stage = "start" \/ docOnly => \A r \in Roles : settled[r] = "idle"

LEMMA NobodyIsCalledEarly == Init /\ [][Next]_vars => []NotCalledYet
<1>1. Init => NotCalledYet
  BY DEF Init, CallsInit, NotCalledYet
<1>2. IInv /\ NotCalledYet /\ [Next]_vars => NotCalledYet'
  <2> SUFFICES ASSUME IInv, NotCalledYet, [Next]_vars,
                      stage' = "start" \/ docOnly', NEW q \in Roles
               PROVE  settled'[q] = "idle"
    BY DEF NotCalledYet
  <2>1. (stage = "start" \/ docOnly) /\ UNCHANGED settled => settled'[q] = "idle"
    BY DEF NotCalledYet
  <2>2. docOnly => stage \in {"start", "returned"}
    BY DEF IInv, StageFits
  <2>3. CASE FastPath \/ Start
    BY <2>1, <2>2, <2>3 DEF FastPath, Start
  <2>4. CASE StructuralDone
    BY <2>2, <2>4 DEF StructuralDone, Verdict
  <2>5. ASSUME NEW r \in Roles, BranchDone(r) PROVE settled'[q] = "idle"
    BY <2>2, <2>5 DEF BranchDone, Threw, Verdict
  <2>6. ASSUME NEW r \in Roles, NEW o \in Outcomes, SettleCall(r, o), UNCHANGED dagVars
        PROVE  settled'[q] = "idle"
    BY <2>6 DEF SettleCall, dagVars, NotCalledYet
  <2>7. CASE (AbortCalls /\ UNCHANGED dagVars) \/ UNCHANGED vars
    BY <2>1, <2>7 DEF AbortCalls, dagVars, vars
  <2> QED
    BY <2>3, <2>4, <2>5, <2>6, <2>7 DEF Next
<1> QED
  BY <1>1, <1>2, InductiveInvariant, PTL

(* Once the signal is aborted a step records no failure as a degraded       *)
(* reviewer, and starts none.                                               *)
LEMMA StepAfterAbort ==
    ASSUME CallsTypeOK, [Next]_vars, aborted
    PROVE  /\ warnings' = warnings
           /\ \A r \in Roles : settled[r] = "idle" => settled'[r] = "idle"
<1>1. ASSUME NEW r, Join(r) PROVE warnings' = warnings
  BY <1>1 DEF Join, IsAbortError, RecordResponse
<1>2. ASSUME NEW q \in Roles, settled[q] = "idle",
             NEW r \in Roles, NEW o \in Outcomes, SettleCall(r, o)
      PROVE  settled'[q] = "idle"
  <2>1. q # r
    BY <1>2 DEF SettleCall
  <2>2. settled' = [settled EXCEPT ![r] = o]
    BY <1>2 DEF SettleCall
  <2> QED
    BY <1>2, <2>1, <2>2 DEF CallsTypeOK
<1>3. CASE StructuralDone
  BY <1>1, <1>3 DEF StructuralDone, MayStart
<1>4. ASSUME NEW r \in Roles, BranchDone(r)
      PROVE  warnings' = warnings /\ UNCHANGED settled
  BY <1>1, <1>4 DEF BranchDone
<1> QED
  BY <1>2, <1>3, <1>4 DEF Next, FastPath, Start, MayStart, AbortCalls, dagVars, vars

(* No failure is recorded as a degraded reviewer once the signal is aborted.*)
THEOREM AbortNeverDegrades == Spec => AbortIsNotDegradation
<1>1. IInv => CallsTypeOK
  BY DEF IInv, TypeOK
<1>2. IInv /\ [Next]_vars => [aborted => warnings' = warnings]_vars
  BY <1>1, StepAfterAbort
<1> QED
  BY <1>2, InductiveInvariant, PTL DEF Spec, AbortIsNotDegradation

(* Action property: after the signal is aborted no reviewer is started.     *)
NoReviewerAfterAbort ==
    [][\A r \in Roles : aborted /\ settled[r] = "idle" => settled'[r] = "idle"]_vars

(* No reviewer is called once the signal is aborted.                        *)
THEOREM AbortStartsNoReviewer == Spec => NoReviewerAfterAbort
<1>1. IInv => CallsTypeOK
  BY DEF IInv, TypeOK
<1>2. IInv /\ [Next]_vars =>
        [\A r \in Roles : aborted /\ settled[r] = "idle" => settled'[r] = "idle"]_vars
  BY <1>1, StepAfterAbort
<1> QED
  BY <1>2, InductiveInvariant, PTL DEF Spec, NoReviewerAfterAbort

-----------------------------------------------------------------------------
(* The bookkeeping is exact: every finding is counted, every failure warned *)
(* of once, and only triggered reviewers are called.                        *)
WarningsOf(r) == Cardinality({i \in DOMAIN warnings : warnings[i] = r})

Records ==
    /\ \A r \in Roles : CountOf(r) = rawCounts[r]
    /\ \A r \in Roles : WarningsOf(r) = IF r \in failed THEN 1 ELSE 0
    /\ \A r \in Roles : settled[r] # "idle" => r \in triggered

Positions(s, q) == {i \in DOMAIN s : s[i] = q}

(* A sequence that goes on with n times r has n more of r, and as many of   *)
(* every other element.                                                     *)
LEMMA CountExtended ==
    ASSUME NEW s \in Seq(Roles), NEW t \in Seq(Roles), NEW n \in Nat, NEW r, NEW q,
           Extends(t, s, r, n)
    PROVE  Cardinality(Positions(t, q))
             = Cardinality(Positions(s, q)) + (IF q = r THEN n ELSE 0)
<1> DEFINE Old == Positions(s, q)
           New == IF q = r THEN (Len(s) + 1)..(Len(s) + n) ELSE {}
<1>1. Positions(t, q) = Old \cup New
  BY DEF Positions, Extends
<1>2. Old \cap New = {}
  BY DEF Positions
<1>3. IsFiniteSet(Old) /\ Cardinality(Old) \in Nat
  <2>1. IsFiniteSet(1..Len(s))
    BY FS_Interval
  <2>2. Old \subseteq 1..Len(s)
    BY DEF Positions
  <2> QED
    BY <2>1, <2>2, FS_Subset, FS_CardinalityType
<1>4. IsFiniteSet(New) /\ Cardinality(New) = IF q = r THEN n ELSE 0
  <2>1. CASE q = r
    <3>1. /\ IsFiniteSet((Len(s) + 1)..(Len(s) + n))
          /\ Cardinality((Len(s) + 1)..(Len(s) + n)) = n
      BY FS_Interval
    <3> QED
      BY <2>1, <3>1
  <2>2. CASE q # r
    BY <2>2, FS_EmptySet
  <2> QED
    BY <2>1, <2>2
<1> HIDE DEF Old, New
<1>5. Cardinality(Old \cup New)
        = Cardinality(Old) + Cardinality(New) - Cardinality(Old \cap New)
  BY <1>3, <1>4, FS_Union
<1>6. Cardinality(Old \cap New) = 0
  BY <1>2, FS_EmptySet
<1>7. Cardinality(Old \cup New) = Cardinality(Old) + (IF q = r THEN n ELSE 0)
  BY <1>3, <1>4, <1>5, <1>6
<1> QED
  BY <1>1, <1>7 DEF Old

(* A branch that ends keeps the bookkeeping exact, if it has not ended      *)
(* before.                                                                  *)
LEMMA JoinKeepsCounts ==
    ASSUME IInv, Records, NEW r \in Roles \ joined, Join(r), NEW q \in Roles
    PROVE  /\ CountOf(q)' = rawCounts'[q]
           /\ WarningsOf(q)' = IF q \in failed' THEN 1 ELSE 0
<1>1. /\ findings \in Seq(Roles) /\ warnings \in Seq(Roles)
      /\ rawCounts \in [Roles -> 0..MaxFindings]
      /\ CountOf(q) = rawCounts[q] /\ WarningsOf(q) = IF q \in failed THEN 1 ELSE 0
  BY DEF IInv, TypeOK, Records
<1>2. r \notin failed /\ \A i \in DOMAIN findings : findings[i] # r
  BY DEF IInv, FailedDidNotAnswer, FindingsFromAnswers
<1>3. CountOf(r) = 0
  <2>1. {i \in DOMAIN findings : findings[i] = r} = {}
    BY <1>2
  <2> QED
    BY <2>1, FS_EmptySet DEF CountOf
<1>4. ASSUME NEW n \in 0..MaxFindings, RecordResponse(r, n)
      PROVE  CountOf(q)' = rawCounts'[q]
  <2>1. rawCounts' = [rawCounts EXCEPT ![r] = n]
    BY <1>4 DEF RecordResponse
  <2>2. n \in Nat /\ findings' \in Seq(Roles) /\ Extends(findings', findings, r, n)
    <3>1. n \in Nat /\ findings' = findings \o [j \in 1..n |-> r] /\ r \in Roles
      BY <1>4, DagAssumption DEF RecordResponse
    <3> QED
      BY <1>1, <3>1, AppendFindings
  <2>3. Cardinality(Positions(findings', q))
          = Cardinality(Positions(findings, q)) + (IF q = r THEN n ELSE 0)
    BY <1>1, <2>2, CountExtended
  <2>4. CountOf(q)' = CountOf(q) + (IF q = r THEN n ELSE 0)
    BY <2>3 DEF CountOf, Positions
  <2> QED
    BY <1>1, <1>3, <2>1, <2>4
<1>5. ASSUME RecordFailure(r)
      PROVE  WarningsOf(q)' = IF q \in failed' THEN 1 ELSE 0
  <2>1. warnings' = Append(warnings, r) /\ failed' = failed \cup {r}
    BY <1>5 DEF RecordFailure
  <2>2. warnings' \in Seq(Roles) /\ Extends(warnings', warnings, r, 1)
    BY <1>1, <2>1 DEF Extends
  <2>3. Cardinality(Positions(warnings', q))
          = Cardinality(Positions(warnings, q)) + (IF q = r THEN 1 ELSE 0)
    BY <1>1, <2>2, CountExtended
  <2>4. WarningsOf(q)' = WarningsOf(q) + (IF q = r THEN 1 ELSE 0)
    BY <2>3 DEF WarningsOf, Positions
  <2> QED
    BY <1>1, <1>2, <2>1, <2>4
<1>6. UNCHANGED <<findings, rawCounts>> => CountOf(q)' = rawCounts'[q]
  BY <1>1 DEF CountOf
<1>7. UNCHANGED <<warnings, failed>> => WarningsOf(q)' = IF q \in failed' THEN 1 ELSE 0
  BY <1>1 DEF WarningsOf
<1> QED
  BY <1>4, <1>5, <1>6, <1>7 DEF Join, RecordResponse, RecordFailure

(* Only triggered reviewers are called, and what is called stays called.    *)
LEMMA CalledAreTriggered ==
    ASSUME IInv, Records, [Next]_vars, NEW q \in Roles, settled'[q] # "idle"
    PROVE  q \in triggered'
<1>1. /\ triggered' = triggered /\ "structural" \in triggered /\ CallsTypeOK
      /\ settled[q] # "idle" => q \in triggered
  BY DEF Next, FastPath, Start, StructuralDone, BranchDone, dagVars, vars, IInv, StageFits,
         TypeOK, Records
<1>2. ASSUME NEW S, S \subseteq triggered, StartCalls(S) PROVE q \in triggered
  BY <1>1, <1>2 DEF StartCalls
<1>3. ASSUME NEW r \in Roles, NEW o \in Outcomes, SettleCall(r, o) PROVE q \in triggered
  <2>1. CASE q = r
    BY <1>1, <1>3, <2>1 DEF SettleCall
  <2>2. CASE q # r
    BY <1>1, <1>3, <2>2 DEF SettleCall, CallsTypeOK
  <2> QED
    BY <2>1, <2>2
<1>4. UNCHANGED settled => q \in triggered
  BY <1>1
<1>5. Start => q \in triggered
  BY <1>1, <1>2, <1>4 DEF Start
<1>6. StructuralDone => q \in triggered
  BY <1>1, <1>2, <1>4 DEF StructuralDone, Conditional
<1> QED
  BY <1>1, <1>3, <1>4, <1>5, <1>6 DEF Next, FastPath, BranchDone, AbortCalls, vars

LEMMA RecordsAreExact == Init /\ [][Next]_vars => []Records
<1>1. Init => Records
  <2> SUFFICES ASSUME Init PROVE Records
    OBVIOUS
  <2>1. ASSUME NEW r \in Roles PROVE CountOf(r) = 0 /\ WarningsOf(r) = 0
    <3>1. {i \in DOMAIN findings : findings[i] = r} = {}
          /\ {i \in DOMAIN warnings : warnings[i] = r} = {}
      BY DEF Init
    <3> QED
      BY <3>1, FS_EmptySet DEF CountOf, WarningsOf
  <2> QED
    BY <2>1 DEF Init, CallsInit, Records
<1>2. IInv /\ Records /\ [Next]_vars => Records'
  <2> SUFFICES ASSUME IInv, Records, [Next]_vars, NEW q \in Roles
               PROVE  /\ CountOf(q)' = rawCounts'[q]
                      /\ WarningsOf(q)' = IF q \in failed' THEN 1 ELSE 0
    BY CalledAreTriggered DEF Records
  <2>1. CASE UNCHANGED <<findings, rawCounts, warnings, failed>>
    BY <2>1 DEF Records, CountOf, WarningsOf
  <2>2. CASE StructuralDone
    <3>1. "structural" \in Roles \ joined
      BY <2>2 DEF StructuralDone, IInv, StageFits, Roles
    <3> QED
      BY <2>2, <3>1, JoinKeepsCounts DEF StructuralDone
  <2>3. ASSUME NEW r \in Roles, BranchDone(r)
        PROVE  /\ CountOf(q)' = rawCounts'[q]
               /\ WarningsOf(q)' = IF q \in failed' THEN 1 ELSE 0
    BY <2>3, JoinKeepsCounts DEF BranchDone
  <2> QED
    BY <2>1, <2>2, <2>3 DEF Next, FastPath, Start, dagVars, vars
<1> QED
  BY <1>1, <1>2, InductiveInvariant, PTL

(* A DAG that has returned has lost no reviewer.                            *)
LEMMA ReturnFollows == IInv /\ Records => ReturnAccountsForEveryReviewer
<1> SUFFICES ASSUME IInv, Records, stage = "returned", ~docOnly
             PROVE  Succeeded \cup failed = triggered /\ Succeeded \cap failed = {}
  BY DEF ReturnAccountsForEveryReviewer, Records, WarningsOf
<1>1. joined = triggered /\ triggered \subseteq Roles
  BY DEF IInv, StageFits, TypeOK
<1>2. failed \subseteq {r \in triggered : settled[r] # "ok"}
  BY <1>1 DEF IInv, FailedDidNotAnswer
<1>3. \A r \in triggered : settled[r] = "ok" \/ r \in failed
  BY <1>1 DEF IInv, JoinedIsRecorded, Threw
<1>4. Succeeded \subseteq triggered
  BY DEF Succeeded, Records
<1> QED
  BY <1>1, <1>2, <1>3, <1>4 DEF Succeeded

(* However the calls interleave and fail, a DAG that returns has counted    *)
(* every finding and warned exactly once of every reviewer that failed.     *)
THEOREM ReturnAccounts == Spec => []ReturnAccountsForEveryReviewer
BY ReturnFollows, InductiveInvariant, RecordsAreExact, PTL DEF Spec
=============================================================================
