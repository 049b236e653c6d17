------------------------- MODULE ReviewCommandProofs ------------------------
(***************************************************************************)
(* Proofs about the review command, for any set of configurations and any  *)
(* number of findings in a response.                                       *)
(*                                                                         *)
(* The command runs the reviewer DAG: RunDag is a step of ReviewDag, the   *)
(* first SIGINT is its abort, and nothing else touches its variables.  So  *)
(* what ReviewDagProofs proves of every behaviour of the DAG holds inside  *)
(* the command (TheDagIsInside), and the command needs an invariant of its *)
(* own only for what the DAG does not know.                                *)
(***************************************************************************)
EXTENDS ReviewCommand, WellFoundedInduction, TLAPS

DagFacts == INSTANCE ReviewDagProofs WITH stage <- dagStage

-----------------------------------------------------------------------------
(* Dag and DagFacts are two instances of the same module, and what the      *)
(* prover knows of one it has to be told of the other.                      *)
LEMMA SamePlans == Dag!Plans = DagFacts!Plans
BY DEF Dag!Plans, DagFacts!Plans, Dag!Changes, DagFacts!Changes,
       Dag!FileSigns, DagFacts!FileSigns, Dag!DiffSigns, DagFacts!DiffSigns,
       Dag!AllDocOrTest, DagFacts!AllDocOrTest,
       Dag!IsDocumentationFile, DagFacts!IsDocumentationFile,
       Dag!IsTestFile, DagFacts!IsTestFile,
       Dag!TriggeredReviewers, DagFacts!TriggeredReviewers,
       Dag!ShouldTriggerSemanticReviewer, DagFacts!ShouldTriggerSemanticReviewer,
       Dag!ShouldTriggerSecurityReviewer, DagFacts!ShouldTriggerSecurityReviewer

LEMMA SameInit == Dag!Init => DagFacts!Init
BY SamePlans DEF Dag!Init, DagFacts!Init, Dag!CallsInit, DagFacts!CallsInit,
                 Dag!Roles, DagFacts!Roles

(* Each action of the one is that action of the other. *)
LEMMA SameStart == ASSUME NEW S PROVE Dag!StartCalls(S) <=> DagFacts!StartCalls(S)
BY DEF Dag!StartCalls, DagFacts!StartCalls, Dag!Roles, DagFacts!Roles

LEMMA SameSettle ==
    ASSUME NEW c, NEW o PROVE Dag!SettleCall(c, o) <=> DagFacts!SettleCall(c, o)
BY DEF Dag!SettleCall, DagFacts!SettleCall

LEMMA SameJoin == ASSUME NEW r PROVE Dag!Join(r) <=> DagFacts!Join(r)
BY DEF Dag!Join, DagFacts!Join, Dag!RecordResponse, DagFacts!RecordResponse,
       Dag!RecordFailure, DagFacts!RecordFailure,
       Dag!IsAbortError, DagFacts!IsAbortError, Dag!Outcomes, DagFacts!Outcomes

LEMMA SameNext == Dag!Next => DagFacts!Next
<1> USE SameStart, SameSettle, SameJoin
    DEF Dag!Outcomes, DagFacts!Outcomes, Dag!Roles, DagFacts!Roles,
        Dag!dagVars, DagFacts!dagVars, Dag!Verdict, DagFacts!Verdict,
        Dag!Conditional, DagFacts!Conditional, Dag!MayStart, DagFacts!MayStart,
        Dag!Threw, DagFacts!Threw, Dag!IsAbortError, DagFacts!IsAbortError
<1>1. Dag!FastPath => DagFacts!FastPath
  BY DEF Dag!FastPath, DagFacts!FastPath
<1>2. Dag!Start => DagFacts!Start
  BY DEF Dag!Start, DagFacts!Start
<1>3. Dag!StructuralDone => DagFacts!StructuralDone
  BY DEF Dag!StructuralDone, DagFacts!StructuralDone
<1>4. ASSUME NEW r PROVE Dag!BranchDone(r) => DagFacts!BranchDone(r)
  BY DEF Dag!BranchDone, DagFacts!BranchDone
<1>5. Dag!AbortCalls => DagFacts!AbortCalls
  BY DEF Dag!AbortCalls, DagFacts!AbortCalls
<1> QED
  BY <1>1, <1>2, <1>3, <1>4, <1>5 DEF Dag!Next, DagFacts!Next

(* What a step of the command does to the DAG and its signal.               *)
LEMMA StepAndTheDag ==
    ASSUME [Next]_vars
    PROVE  \/ RunDag
           \/ FirstSigint
           \/ UNCHANGED <<aborted, dag>>
<1>1. ASSUME NEW c, NEW o, Critic!SettleCall(c, o) PROVE aborted' = aborted
  BY <1>1 DEF Critic!SettleCall
<1>2. ASSUME NEW S, Critic!StartCalls(S) PROVE aborted' = aborted
  BY <1>2 DEF Critic!StartCalls
<1>3. Setup \/ ReadScope \/ ReadSnapshot \/ Parse \/ ResolveSymbols
        \/ CollectDiagnostics \/ BuildContext => UNCHANGED <<aborted, dag>>
  BY DEF Setup, ReadScope, ReadSnapshot, Parse, ResolveSymbols, CollectDiagnostics, BuildContext
<1>4. DagReturned \/ DagThrew \/ ValidateEvidence => UNCHANGED <<aborted, dag>>
  BY <1>2 DEF DagReturned, DagThrew, ValidateEvidence
<1>5. CriticSettles \/ CriticAnswered \/ CriticAborted \/ CriticFailed
        => UNCHANGED <<aborted, dag>>
  BY <1>1, <1>2 DEF CriticSettles, CriticAnswered, CriticAborted, CriticFailed
<1>6. Gate \/ Render \/ Fault \/ SecondSigint => UNCHANGED <<aborted, dag>>
  BY DEF Gate, Render, Fault, SecondSigint
<1>7. UNCHANGED vars => UNCHANGED <<aborted, dag>>
  BY DEF vars
<1> QED
  BY <1>3, <1>4, <1>5, <1>6, <1>7 DEF Next, Progress

(* The signal is aborted or not: what the abort of the DAG rests on.        *)
AbortedTypeOK == aborted \in BOOLEAN
LEMMA AbortedIsBoolean == Spec => []AbortedTypeOK
<1>1. Init => AbortedTypeOK
  BY DEF Init, Dag!Init, Dag!CallsInit, AbortedTypeOK
<1>2. AbortedTypeOK /\ [Next]_vars => AbortedTypeOK'
  BY StepAndTheDag DEF RunDag, FirstSigint, AbortedTypeOK
<1> QED
  BY <1>1, <1>2, PTL DEF Spec

(* Every step of the command is a step of the DAG or leaves it alone.       *)
LEMMA StepOfTheDag ==
    ASSUME AbortedTypeOK, [Next]_vars
    PROVE  [DagFacts!Next]_DagFacts!vars
<1>1. UNCHANGED <<aborted, dag>> => UNCHANGED DagFacts!vars
  BY DEF dag, DagFacts!vars
<1>2. CASE RunDag
  BY <1>2, SameNext DEF RunDag
<1>3. CASE FirstSigint /\ aborted
  BY <1>1, <1>3 DEF FirstSigint
<1>4. CASE FirstSigint /\ ~aborted
  BY <1>4 DEF FirstSigint, dag, DagFacts!Next, DagFacts!AbortCalls, DagFacts!dagVars
<1> QED
  BY <1>1, <1>2, <1>3, <1>4, StepAndTheDag DEF AbortedTypeOK

(* So the invariants of the DAG hold inside the command.                    *)
LEMMA TheDagIsInside ==
    Spec => [](DagFacts!IInv /\ DagFacts!NotCalledYet /\ DagFacts!Records)
<1>1. Init => DagFacts!Init
  BY SameInit DEF Init
<1>2. AbortedTypeOK /\ [Next]_vars => [DagFacts!Next]_DagFacts!vars
  BY StepOfTheDag
<1>3. DagFacts!Init /\ [][DagFacts!Next]_DagFacts!vars => []DagFacts!IInv
  BY DagFacts!InductiveInvariant, DagAssumption
<1>4. DagFacts!Init /\ [][DagFacts!Next]_DagFacts!vars => []DagFacts!NotCalledYet
  BY DagFacts!NobodyIsCalledEarly, DagAssumption
<1>5. DagFacts!Init /\ [][DagFacts!Next]_DagFacts!vars => []DagFacts!Records
  BY DagFacts!RecordsAreExact, DagAssumption
<1> QED
  BY <1>1, <1>2, <1>3, <1>4, <1>5, AbortedIsBoolean, PTL DEF Spec

-----------------------------------------------------------------------------
(* What the DAG does not know: when it has its turn, and what the stages    *)
(* after it may rely on.                                                    *)
Before == {"setup", "scope", "snapshot", "parse", "symbols", "diagnostics", "context"}

DagHasItsTurn ==
    /\ stage \in Before => dagStage = "start"
    /\ stage \in {"evidence", "critic", "gate"} => dagStage = "returned"
    /\ stage = "render" \/ exitCode \in {0, 1} => dagStage \in {"start", "returned"}

(* The critic is asked about candidates, and nothing passes it that it has  *)
(* not answered for.                                                        *)
CriticHasTheLastWord ==
    /\ asked \in [CriticCalls -> {"idle", "pending"} \cup Critic!Outcomes]
    /\ stage \in Before \cup {"dag", "evidence"} => ~candidates
    /\ candidates => findings # << >>
    /\ stage = "critic" => candidates
    /\ stage \in {"gate", "render"} \/ exitCode \in {0, 1} => (candidates => CriticApproved)
    /\ curated => stage \in {"gate", "render", "exited"} /\ candidates /\ CriticApproved
    /\ shown => curated

(* A SIGINT ends the command with the await it comes in, unless the result  *)
(* is there already.                                                        *)
SigintIsInTime ==
    /\ cancelledIn # "never" => aborted
    /\ stage \in Awaits => exitCode = NoCode
    /\ stage \in Awaits \ {"render"} => cancelledIn \in {"never", stage}
    /\ stage = "render" \/ exitCode \in {0, 1} =>
          \/ cancelledIn \in {"never", "gate", "render"}
          \/ cancelledIn = "snapshot" /\ dagStage = "start"

CInv ==
    /\ DagHasItsTurn
    /\ CriticHasTheLastWord
    /\ SigintIsInTime

(* No failure to load the configuration ends as a verdict does.             *)
LEMMA LoadErrors ==
    ASSUME NEW from
    PROVE  LoadConfig(from).error \in {"none", "configuration", "internal"}
<1>1. ProjectConfigLayer(from).error \in {"none", "configuration", "internal"}
  BY DEF ProjectConfigLayer, Loaded, Fails
<1>2. GlobalConfigLayer(from).error \in {"none", "configuration"}
  BY DEF GlobalConfigLayer, Loaded, Fails
<1>3. ASSUME NEW g, NEW p, NEW e, NEW c
      PROVE  MergeConfigs(g, p, e, c).error \in {"none", "configuration"}
  BY DEF MergeConfigs, Loaded, Fails
<1> QED
  BY <1>1, <1>2, <1>3 DEF LoadConfig

LEMMA ErrorsAreNoVerdicts ==
    /\ \A e \in {"configuration", "git", "repository", "internal", "model"} :
          ErrorCode[e] \notin {0, 1, NoCode}
    /\ \A s \in Awaits : \A code \in FaultCodes[s] : code \notin {0, 1}
    /\ \A code \in ProviderErrorCodes : code \notin {0, 1}
<1>1. \A e \in {"configuration", "git", "repository", "internal", "model"} :
          ErrorCode[e] \notin {0, 1, NoCode}
  BY DEF ErrorCode, NoCode
<1>2. ASSUME NEW s \in Awaits, NEW code \in FaultCodes[s] PROVE code \notin {0, 1}
  BY <1>1 DEF FaultCodes
<1> QED
  BY <1>1, <1>2 DEF ProviderErrorCodes

LEMMA CommandInvariant == Spec => []CInv
<1>1. Init => CInv
  BY DEF Init, Dag!Init, Critic!CallsInit, CInv, DagHasItsTurn, CriticHasTheLastWord,
         SigintIsInTime, Before, Awaits, NoCode, Critic!Outcomes
<1>2. DagFacts!IInv /\ CInv /\ [Next]_vars => CInv'
  <2> SUFFICES ASSUME DagFacts!IInv, CInv, [Next]_vars PROVE CInv'
    OBVIOUS
  <2> USE DEF CInv, DagHasItsTurn, CriticHasTheLastWord, SigintIsInTime, Before, Awaits,
              NoCode, CriticApproved, CriticCalls
  <2>1. CASE Setup
    BY <2>1, LoadErrors, ErrorsAreNoVerdicts
       DEF Setup, Proceed, Exit, critic, outcome, cancellation, dag
  <2>2. CASE ReadScope \/ ReadSnapshot \/ Parse \/ ResolveSymbols
                \/ CollectDiagnostics \/ BuildContext
    BY <2>2 DEF ReadScope, ReadSnapshot, Parse, ResolveSymbols, CollectDiagnostics,
                BuildContext, Proceed, Exit, critic, outcome, cancellation, dag
  <2>3. CASE RunDag
    BY <2>3 DEF RunDag, critic, outcome, cancellation
  <2>4. CASE DagReturned
    BY <2>4 DEF DagReturned, Proceed, Exit, critic, outcome, cancellation, dag
  <2>5. CASE DagThrew
    BY <2>5, ErrorsAreNoVerdicts DEF DagThrew, Exit, critic, outcome, cancellation, dag
  <2>6. CASE ValidateEvidence
    BY <2>6 DEF ValidateEvidence, Proceed, Exit, Critic!StartCalls, Critic!Outcomes, outcome, cancellation, dag
  <2>7. CASE CriticSettles
    BY <2>7 DEF CriticSettles, Critic!SettleCall, CriticCall, outcome, cancellation, dag
  <2>8. CASE CriticAnswered
    BY <2>8 DEF CriticAnswered, Proceed, Exit, CriticCall, outcome, cancellation, dag
  <2>9. CASE CriticAborted
    BY <2>9, ErrorsAreNoVerdicts DEF CriticAborted, Exit, critic, outcome, cancellation, dag
  <2>10. CASE CriticFailed
    BY <2>10, ErrorsAreNoVerdicts
       DEF CriticFailed, GiveUp, Exit, Critic!StartCalls, Critic!Outcomes, outcome, cancellation, dag
  <2>11. CASE Gate
    BY <2>11 DEF Gate, critic, cancellation, dag
  <2>12. CASE Render
    BY <2>12 DEF Render, Exit, critic, outcome, cancellation, dag
  <2>13. CASE Fault
    BY <2>13, ErrorsAreNoVerdicts DEF Fault, Exit, critic, outcome, cancellation, dag
  <2>14. CASE FirstSigint
    BY <2>14 DEF FirstSigint, InAwait, critic, outcome, dag
  <2>15. CASE SecondSigint
    BY <2>15 DEF SecondSigint, InAwait, Exit, critic, outcome, dag
  <2>16. CASE UNCHANGED vars
    BY <2>16 DEF vars, critic, outcome, cancellation, dag
  <2> QED
    BY <2>1, <2>2, <2>3, <2>4, <2>5, <2>6, <2>7, <2>8, <2>9, <2>10, <2>11, <2>12,
       <2>13, <2>14, <2>15, <2>16 DEF Next, Progress
<1> QED
  BY <1>1, <1>2, TheDagIsInside, PTL DEF Spec

(* Where there are findings, a reviewer has answered.                       *)
LEMMA FindingsMeanAnAnswer ==
    ASSUME DagFacts!IInv, findings # << >>
    PROVE  Dag!Succeeded # {}
<1>1. findings \in Seq(DagFacts!Roles)
  BY DEF DagFacts!IInv, DagFacts!TypeOK
<1>2. 1 \in DOMAIN findings /\ findings[1] \in DagFacts!Roles
  BY <1>1
<1>3. settled[findings[1]] = "ok"
  BY <1>2 DEF DagFacts!IInv, DagFacts!FindingsFromAnswers
<1> QED
  BY <1>2, <1>3 DEF Dag!Succeeded, Dag!Roles, DagFacts!Roles

-----------------------------------------------------------------------------
(* However the calls interleave, fail and are aborted, a command that got a *)
(* result from the DAG has heard a reviewer, and a model error is reported  *)
(* only if none answered (review/dag.ts).                                   *)
THEOREM AnswersDecide == Spec => []AnswersDecideTheVerdict
<1>1. DagFacts!IInv => AnswersDecideTheVerdict
  BY DagFacts!AnswersFollow, DagAssumption
     DEF AnswersDecideTheVerdict, Dag!AnswersDecideTheVerdict,
         DagFacts!AnswersDecideTheVerdict, Dag!Succeeded, DagFacts!Succeeded,
         Dag!Roles, DagFacts!Roles
<1> QED
  BY <1>1, TheDagIsInside, PTL

(* And it has lost no reviewer: every finding is counted, every failure     *)
(* warned of once (review/dag.ts).                                          *)
THEOREM ReturnAccounts == Spec => []ReturnAccountsForEveryReviewer
<1> USE DEF Dag!Cardinality, DagFacts!Cardinality
<1>1. DagFacts!IInv /\ DagFacts!Records => ReturnAccountsForEveryReviewer
  BY DagFacts!ReturnFollows, DagAssumption
     DEF ReturnAccountsForEveryReviewer, Dag!ReturnAccountsForEveryReviewer,
         DagFacts!ReturnAccountsForEveryReviewer, Dag!Succeeded, DagFacts!Succeeded,
         Dag!CountOf, DagFacts!CountOf, Dag!Roles, DagFacts!Roles
<1> QED
  BY <1>1, TheDagIsInside, PTL

(* No finding reaches the user that the critic has not answered for         *)
(* (review/engine.ts, review/critic.ts).                                    *)
THEOREM CriticGuardsTheResult == Spec => []UnverifiedFindingsStayInside
<1>1. DagFacts!IInv /\ CInv => UnverifiedFindingsStayInside
  BY FindingsMeanAnAnswer DEF CInv, CriticHasTheLastWord, UnverifiedFindingsStayInside
<1> QED
  BY <1>1, CommandInvariant, TheDagIsInside, PTL

(* Exit code 0 means that nothing was reviewable or that the review was     *)
(* done (commands/review.ts, cli.ts).                                       *)
THEOREM ZeroIsEarned == Spec => []CleanExitIsEarned
<1>1. DagFacts!IInv /\ DagFacts!NotCalledYet /\ CInv => CleanExitIsEarned
  <2> SUFFICES ASSUME DagFacts!IInv, DagFacts!NotCalledYet, CInv, exitCode = 0
               PROVE  \/ \A r \in Dag!Roles : settled[r] = "idle"
                      \/ Dag!Succeeded # {} /\ (candidates => CriticApproved)
    BY DEF CleanExitIsEarned
  <2>1. dagStage \in {"start", "returned"} /\ (candidates => CriticApproved)
    BY DEF CInv, DagHasItsTurn, CriticHasTheLastWord
  <2>2. CASE dagStage = "start" \/ docOnly
    BY <2>2 DEF DagFacts!NotCalledYet, Dag!Roles, DagFacts!Roles
  <2>3. CASE dagStage = "returned" /\ ~docOnly
    <3>1. DagFacts!Succeeded # {}
      BY <2>3, DagFacts!AnswersFollow, DagAssumption DEF DagFacts!AnswersDecideTheVerdict
    <3> QED
      BY <2>1, <3>1 DEF Dag!Succeeded, DagFacts!Succeeded, Dag!Roles, DagFacts!Roles
  <2> QED
    BY <2>1, <2>2, <2>3
<1> QED
  BY <1>1, CommandInvariant, TheDagIsInside, PTL

(* A cancelled review ends with no verdict, unless it had one (cli.ts).     *)
THEOREM CancelledEndsWithoutVerdict == Spec => []CancelledReviewHasNoVerdict
<1>1. CInv => CancelledReviewHasNoVerdict
  BY DEF CInv, SigintIsInTime, CancelledReviewHasNoVerdict
<1> QED
  BY <1>1, CommandInvariant, PTL

(* After the SIGINT no stage, reviewer or critic call is begun              *)
(* (application/review.ts, review/engine.ts, review/dag.ts).                *)
THEOREM SigintStopsTheWork == Spec => NoWorkAfterSigint
<1> DEFINE Stopped ==
        /\ stage' \in {stage, "render", "exited"}
        /\ \A r \in Dag!Roles : settled[r] = "idle" => settled'[r] = "idle"
        /\ \A c \in CriticCalls : asked[c] = "idle" => asked'[c] = "idle"
        /\ warnings' = warnings
<1>1. ASSUME DagFacts!IInv, AbortedTypeOK, CInv, [Next]_vars, aborted
      PROVE  Stopped
  <2>1. /\ warnings' = warnings
        /\ \A r \in Dag!Roles : settled[r] = "idle" => settled'[r] = "idle"
    <3>1. DagFacts!CallsTypeOK /\ [DagFacts!Next]_DagFacts!vars
      BY <1>1, StepOfTheDag DEF DagFacts!IInv, DagFacts!TypeOK
    <3> QED
      BY <1>1, <3>1, DagFacts!StepAfterAbort, DagAssumption DEF Dag!Roles, DagFacts!Roles
  <2>2. \A c \in CriticCalls : asked[c] = "idle" => asked'[c] = "idle"
    <3>1. CASE CriticSettles
      BY <1>1, <3>1 DEF CriticSettles, Critic!SettleCall, CInv, CriticHasTheLastWord
    <3>2. CASE CriticFailed
      BY <1>1, <3>2 DEF CriticFailed, CriticIsAbortError
    <3>3. CASE ~CriticSettles /\ ~CriticFailed
      BY <1>1, <3>3 DEF Next, Progress, Setup, ReadScope, ReadSnapshot, Parse,
         ResolveSymbols, CollectDiagnostics, BuildContext, RunDag, DagReturned, DagThrew,
         ValidateEvidence, CriticAnswered, CriticAborted, Gate, Render, Fault,
         FirstSigint, SecondSigint, vars, critic
    <3> QED
      BY <3>1, <3>2, <3>3
  <2>3. stage' \in {stage, "render", "exited"}
    BY <1>1 DEF Next, Progress, Setup, ReadScope, ReadSnapshot, Parse, ResolveSymbols,
       CollectDiagnostics, BuildContext, RunDag, DagReturned, DagThrew, ValidateEvidence,
       CriticSettles, CriticAnswered, CriticAborted, CriticFailed, CriticIsAbortError, Gate,
       Render, Fault, FirstSigint, SecondSigint, Proceed, Exit, GiveUp, vars
  <2> QED
    BY <2>1, <2>2, <2>3
<1>2. DagFacts!IInv /\ AbortedTypeOK /\ CInv /\ [Next]_vars => [aborted => Stopped]_vars
  BY <1>1
<1> QED
  BY <1>2, TheDagIsInside, AbortedIsBoolean, CommandInvariant, PTL
     DEF Spec, NoWorkAfterSigint

-----------------------------------------------------------------------------
(* A set of naturals that is not empty has a least element, and Min is it.  *)
LEMMA MinIsLeast ==
    ASSUME NEW S, S \subseteq Nat, S # {}
    PROVE  Min(S) \in S
<1>1. \E x \in S : \A y \in S : ~(<<y, x>> \in OpToRel(<, Nat))
  BY NatLessThanWellFounded, WFMin
<1>2. \A x, y \in Nat : y < x => <<y, x>> \in OpToRel(<, Nat)
  BY DEF OpToRel
<1>3. \E x \in S : \A y \in S : ~(y < x)
  BY <1>1, <1>2
<1>4. \E x \in S : \A y \in S : x <= y
  BY <1>3
<1> QED
  BY <1>4 DEF Min

(* Of the four layers that may speak, the last one that does.               *)
LEMMA MaxOfLayers ==
    ASSUME NEW S \in SUBSET (1 .. 4)
    PROVE  /\ 4 \in S => Max(S) = 4
           /\ 3 \in S /\ 4 \notin S => Max(S) = 3
           /\ 2 \in S /\ 3 \notin S /\ 4 \notin S => Max(S) = 2
           /\ 1 \in S /\ 2 \notin S /\ 3 \notin S /\ 4 \notin S => Max(S) = 1
<1>1. ASSUME NEW m \in S, \A y \in S : m >= y
      PROVE  Max(S) = m
  <2>1. \A x \in S : (\A y \in S : x >= y) => x = m
    BY <1>1
  <2>2. \E x \in S : \A y \in S : x >= y
    BY <1>1
  <2>3. Max(S) \in S /\ \A y \in S : Max(S) >= y
    BY <2>2 DEF Max
  <2> QED
    BY <2>1, <2>3
<1>2. 4 \in S => Max(S) = 4
  BY <1>1
<1>3. 3 \in S /\ 4 \notin S => Max(S) = 3
  BY <1>1
<1>4. 2 \in S /\ 3 \notin S /\ 4 \notin S => Max(S) = 2
  BY <1>1
<1>5. 1 \in S /\ 2 \notin S /\ 3 \notin S /\ 4 \notin S => Max(S) = 1
  BY <1>1
<1> QED
  BY <1>2, <1>3, <1>4, <1>5

(* The four merges of mergeConfigs.                                         *)
Layered(global, project, env, cli) ==
    Merge(Merge(Merge(Merge(Default, global), project), env), cli)

LEMMA LayersWin ==
    ASSUME NEW g, NEW p, NEW e, NEW c, NEW s \in Settings
    PROVE  /\ s \in DOMAIN Layered(g, p, EnvConfig(e), c)
           /\ Layered(g, p, EnvConfig(e), c)[s] =
                IF s \in DOMAIN c THEN c[s]
                ELSE IF s \in DOMAIN e THEN e[s]
                ELSE IF s \in DOMAIN p THEN p[s]
                ELSE IF s \in DOMAIN g THEN g[s] ELSE Default[s]
<1> DEFINE v == EnvConfig(e)
<1>1. /\ s \in DOMAIN v <=> s \in DOMAIN e
      /\ s \in DOMAIN e => v[s] = e[s]
  BY DEF EnvConfig, Settings, Default, OtherSection
<1> HIDE DEF v
<1>2. /\ s \in DOMAIN Layered(g, p, v, c)
      /\ Layered(g, p, v, c)[s] =
            IF s \in DOMAIN c THEN c[s]
            ELSE IF s \in DOMAIN v THEN v[s]
            ELSE IF s \in DOMAIN p THEN p[s]
            ELSE IF s \in DOMAIN g THEN g[s] ELSE Default[s]
  BY DEF Layered, Merge, Settings
<1> QED
  BY <1>1, <1>2 DEF v

(* What loadConfig returns when it returns a configuration (merger.ts).     *)
LEMMA LoadedLayers ==
    ASSUME NEW from, IsSource(from), LoadConfig(from).error = "none"
    PROVE  LET global == Said(from)[1]
               all == Layered(global, ProjectFile(from).sets, EnvConfig(from.env), from.cli)
           IN /\ LoadConfig(from).sets = all /\ Accepts(all)
              /\ Accepts(global) /\ Accepts(ProjectFile(from).sets)
              /\ ProjectFile(from).kind \in {"none", "yaml"}
              /\ from.global.kind \in {"none", "yaml"}
<1> DEFINE project == ProjectConfigLayer(from)
           global == GlobalConfigLayer(from)
<1>1. /\ project.error = "none" /\ global.error = "none"
      /\ MergeConfigs(global.sets, project.sets, EnvConfig(from.env), from.cli).error = "none"
      /\ LoadConfig(from) = MergeConfigs(global.sets, project.sets, EnvConfig(from.env), from.cli)
  BY DEF LoadConfig
<1>2. Accepts(Silent)
  BY DEF Accepts, Silent
<1>3. /\ from.global.kind \in {"none", "yaml"}
      /\ global.sets = Said(from)[1] /\ Accepts(global.sets)
  BY <1>1, <1>2 DEF GlobalConfigLayer, Loaded, Fails, Said, IsSource, IsPath
<1>4. ASSUME ProjectFile(from).kind = "none", from.config.kind = "no option"
      PROVE  ProjectFile(from).sets = Silent
  <2> DEFINE stops == {k \in DOMAIN from.dirs : from.dirs[k].kind \notin {"none", "directory"}}
  <2>1. stops # {} => Min(stops) \in stops
    BY MinIsLeast DEF IsSource
  <2>2. stops = {}
    BY <1>4, <2>1 DEF ProjectFile, FindConfigFile
  <2> QED
    BY <1>4, <2>2 DEF ProjectFile, FindConfigFile, Nothing
<1>5. /\ ProjectFile(from).kind \in {"none", "yaml"}
      /\ project.sets = ProjectFile(from).sets /\ Accepts(project.sets)
  BY <1>1, <1>2, <1>4 DEF ProjectConfigLayer, ProjectFile, Loaded, Fails
<1>6. /\ LoadConfig(from).sets = Layered(global.sets, project.sets, EnvConfig(from.env), from.cli)
      /\ Accepts(LoadConfig(from).sets)
  BY <1>1 DEF MergeConfigs, Layered, Loaded, Fails
<1> QED
  BY <1>3, <1>5, <1>6

(* The layers of the merge are those that may speak, but for variables of   *)
(* other sections.                                                          *)
LEMMA LayersFollowPrecedence ==
    ASSUME NEW from, IsSource(from), LoadConfig(from).error = "none"
    PROVE  FollowsPrecedence(LoadConfig(from).sets["failOn"], from)
<1> DEFINE g == Said(from)[1]
           p == ProjectFile(from).sets
           e == from.env
           c == from.cli
           said == Said(from)
           speaking == {k \in 1 .. 4 : "failOn" \in DOMAIN said[k]}
           all == Layered(g, p, EnvConfig(e), c)
<1>1. said = <<g, p, e, c>> /\ DOMAIN said = 1 .. 4
  BY DEF Said
<1>2. /\ LoadConfig(from).sets = all /\ Accepts(all)
      /\ Accepts(g) /\ Accepts(p)
      /\ ProjectFile(from).kind \in {"none", "yaml"}
      /\ from.global.kind \in {"none", "yaml"}
  BY LoadedLayers
<1>3. "failOn" \in Settings /\ OtherSection \notin Settings
  BY DEF Settings, Default, OtherSection
<1>4. \A s \in Settings :
        /\ s \in DOMAIN all
        /\ all[s] = IF s \in DOMAIN c THEN c[s]
                    ELSE IF s \in DOMAIN e THEN e[s]
                    ELSE IF s \in DOMAIN p THEN p[s]
                    ELSE IF s \in DOMAIN g THEN g[s] ELSE Default[s]
  <2> HIDE DEF g, p, e, c
  <2> SUFFICES ASSUME NEW s \in Settings
      PROVE  /\ s \in DOMAIN all
             /\ all[s] = IF s \in DOMAIN c THEN c[s]
                         ELSE IF s \in DOMAIN e THEN e[s]
                         ELSE IF s \in DOMAIN p THEN p[s]
                         ELSE IF s \in DOMAIN g THEN g[s] ELSE Default[s]
    OBVIOUS
  <2> QED
    BY LayersWin
<1>5. all["failOn"] = IF speaking = {} THEN Default["failOn"] ELSE said[Max(speaking)]["failOn"]
  <2>0. speaking \in SUBSET (1 .. 4)
    OBVIOUS
  <2>1. CASE 4 \in speaking
    BY <1>1, <1>3, <1>4, <2>0, <2>1, MaxOfLayers
  <2>2. CASE 3 \in speaking /\ 4 \notin speaking
    BY <1>1, <1>3, <1>4, <2>0, <2>2, MaxOfLayers
  <2>3. CASE 2 \in speaking /\ 3 \notin speaking /\ 4 \notin speaking
    BY <1>1, <1>3, <1>4, <2>0, <2>3, MaxOfLayers
  <2>4. CASE 1 \in speaking /\ 2 \notin speaking /\ 3 \notin speaking /\ 4 \notin speaking
    BY <1>1, <1>3, <1>4, <2>0, <2>4, MaxOfLayers
  <2>5. CASE speaking = {}
    BY <1>1, <1>3, <1>4, <2>5
  <2> QED
    BY <2>1, <2>2, <2>3, <2>4, <2>5
<1>6. \A k \in 1 .. 4 : \A s \in Settings \cap DOMAIN said[k] :
        said[k][s] # Invalid \/ Overridden(k, s, said)
  <2> SUFFICES ASSUME NEW k \in 1 .. 4, NEW s \in Settings, s \in DOMAIN said[k]
               PROVE  said[k][s] # Invalid \/ Overridden(k, s, said)
    OBVIOUS
  <2>1. all[s] # Invalid
    BY <1>2, <1>4 DEF Accepts
  <2>2. CASE k = 1
    BY <1>1, <1>2, <2>2 DEF Accepts
  <2>3. CASE k = 2
    BY <1>1, <1>2, <2>3 DEF Accepts
  <2>4. CASE k = 3
    BY <1>1, <1>4, <2>1, <2>4 DEF Overridden
  <2>5. CASE k = 4
    BY <1>1, <1>4, <2>1, <2>5
  <2> QED
    BY <2>2, <2>3, <2>4, <2>5
<1> QED
  BY <1>1, <1>2, <1>5, <1>6 DEF FollowsPrecedence

(* The configuration is one of Sources until it has been loaded.            *)
SourceIsWaiting == stage = "setup" => source \in Sources

LEMMA SourceWaits == Spec => []SourceIsWaiting
<1>1. Init => SourceIsWaiting
  BY DEF Init, SourceIsWaiting
<1>2. SourceIsWaiting /\ [Next]_vars => SourceIsWaiting'
  BY DEF SourceIsWaiting, Next, Progress, Setup, ReadScope, ReadSnapshot, Parse,
     ResolveSymbols, CollectDiagnostics, BuildContext, RunDag, DagReturned, DagThrew,
     ValidateEvidence, CriticSettles, CriticAnswered, CriticAborted, CriticFailed, Gate,
     Render, Fault, FirstSigint, SecondSigint, Proceed, Exit, GiveUp, vars, config
<1> QED
  BY <1>1, <1>2, PTL DEF Spec

(* Whatever the files, the environment and the command line hold, a review  *)
(* begins with the threshold of the last of them that sets one, and with    *)
(* nothing invalid but what the property names (config/merger.ts).          *)
THEOREM SettingsAreLayered == Spec => SettingsFollowPrecedence
<1> DEFINE Begins == stage = "setup" /\ stage' = "scope"
<1>1. ASSUME SourceIsWaiting, [Next]_vars, Begins
      PROVE  FollowsPrecedence(failOn', source)
  <2>1. LoadConfig(source).error = "none" /\ failOn' = LoadConfig(source).sets["failOn"]
    BY <1>1 DEF Next, Progress, Setup, ReadScope, ReadSnapshot, Parse,
     ResolveSymbols, CollectDiagnostics, BuildContext, RunDag, DagReturned, DagThrew,
     ValidateEvidence, CriticSettles, CriticAnswered, CriticAborted, CriticFailed, Gate,
     Render, Fault, FirstSigint, SecondSigint, Proceed, Exit, GiveUp, vars, config
  <2>2. IsSource(source)
    BY <1>1, SourcesAssumption DEF SourceIsWaiting
  <2> QED
    BY <2>1, <2>2, LayersFollowPrecedence
<1>2. SourceIsWaiting /\ [Next]_vars => [Begins => FollowsPrecedence(failOn', source)]_vars
  BY <1>1
<1> QED
  BY <1>2, SourceWaits, PTL DEF Spec, SettingsFollowPrecedence
=============================================================================
