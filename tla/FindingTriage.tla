---------------------------- MODULE FindingTriage ---------------------------
(***************************************************************************)
(* What the review engine does with findings (review/engine.ts, stages 2   *)
(* to 6, and application/policy.ts): deduplicate what the DAG returned,    *)
(* drop what has no ground, ask the critic, consolidate what it returned,  *)
(* rank, pass every survivor through the decision gate, and turn the       *)
(* result into the exit code.                                              *)
(*                                                                         *)
(* What the model writes is nondeterministic: the DAG's findings and the   *)
(* critic's answer are any sequences of the constants below.  Nothing ties *)
(* the answer to the candidates, as nothing in executeCriticStage does.    *)
(*                                                                         *)
(* Besides the fields Findings names, a finding has                        *)
(*   signs          what the text heuristics recognise: a subset of Signs  *)
(*   contradicted   it lists contradictions                                *)
(*   attribution    introducedByPatch; the schema's default is "unknown"   *)
(*   criticDecision the schema's default is "uncertain"                    *)
(***************************************************************************)
EXTENDS Findings

CONSTANTS
    File,           \* the file the findings are about, which is a changed one
    Snapshot,       \* for each file evidence may name: what it is to the change
                    \* (status), its lines, and the added or modified ones of them
    Hunk,           \* <<first, last>>: the lines of the one diff hunk of File
    MinConfidence, MinSeverity, MaxFindings, FailOn,   \* configuration
    RawSeqs,        \* what the DAG may return
    Answers(_)      \* what the critic may answer, given them

(* What ModelFindingSchema lets through (confidences in percent), and what   *)
(* the heuristics look for in it: a fix that is no fix; a comment that calls *)
(* the code deliberate, in the texts or the diff, or a test file; a benign   *)
(* pattern or a safe idiom; a placeholder for the mechanism or the trigger;  *)
(* a hypothetical trigger or message.                                        *)
Signs == {"generic fix", "deliberate", "benign", "generic mechanism", "generic trigger",
          "hypothetical trigger", "hypothetical message"}
EvidenceItem == [file : DOMAIN Snapshot, line : Nat \ {0}, linked : BOOLEAN]
Finding ==
    [start : Nat \ {0}, end : Nat \ {0}, title : STRING, category : DOMAIN RegressionBase,
     severity : 1..5, confidence : 0..100, length : Nat, evidence : Seq(EvidenceItem),
     reviewers : SUBSET STRING, signs : SUBSET Signs, contradicted : BOOLEAN,
     attribution : {"introduced_by_patch", "worsened_by_patch", "pre_existing",
                    "fixed_by_patch", "unrelated_to_patch", "unknown"},
     criticDecision : {"approved", "rejected", "uncertain"}]

ASSUME TriageAssumption ==
    /\ \A g \in DOMAIN Snapshot :
          /\ Snapshot[g].status \in {"changed", "unchanged", "deleted", "excluded", "absent"}
          /\ Snapshot[g].lines \in Nat /\ Snapshot[g].changed \subseteq 1..Snapshot[g].lines
    /\ Snapshot[File].status = "changed"
    /\ Snapshot[File].changed \subseteq Hunk[1]..Hunk[2] /\ Hunk[2] <= Snapshot[File].lines
    /\ MaxFindings \in Nat \ {0}
    /\ FailOn \in 1..6          \* 6: none or off
    /\ MinConfidence \in 0..100 /\ MinSeverity \in 1..5
    /\ RawSeqs \subseteq Seq(Finding)
    /\ \A found \in RawSeqs : Answers(found) \subseteq Seq(Finding)

VARIABLES
    stage,
    raw,            \* dagResult.findings
    candidates,     \* the findings the critic is asked about
    answer,         \* criticResult.findings
    ranked,         \* rankedFindings
    disposition,    \* finalDisposition of each ranked finding
    exitCode

vars == <<stage, raw, candidates, answer, ranked, disposition, exitCode>>

Stages == {"dag", "critic", "rank", "gate", "policy", "done"}
Dispositions == {"blocking", "advisory", "informational", "rejected"}

TypeOK ==
    /\ stage \in Stages
    /\ raw \in RawSeqs
    /\ Len(candidates) <= Len(raw)
    /\ answer \in Answers(raw) \cup {<< >>}
    /\ Len(ranked) <= Len(answer)
    /\ disposition \in [DOMAIN disposition -> Dispositions]
    /\ Len(disposition) \in {0, Len(ranked)}
    /\ exitCode \in {0, 1}

Init ==
    /\ stage = "dag"
    /\ raw \in RawSeqs
    /\ candidates = << >> /\ answer = << >>
    /\ ranked = << >> /\ disposition = << >>
    /\ exitCode = 0

-----------------------------------------------------------------------------
(* Evidence validation.  Evidence is rejected in a file the repository does *)
(* not have or that never is evidence (ignored, binary, generated, outside  *)
(* of the repository), past the end of a file, and in an unchanged file     *)
(* unless it says what links it to the change.                              *)
ValidEvidenceItem(e) ==
    LET g == Snapshot[e.file]
    IN  \/ g.status = "deleted"
        \/ g.status \in {"changed", "unchanged"} /\ e.line <= g.lines
                                                 /\ (g.status = "unchanged" => e.linked)
ValidEvidence(f) == Filtered(f.evidence, ValidEvidenceItem)
Fabricated(f) ==
    \E e \in ToSet(f.evidence) : LET g == Snapshot[e.file]
                                 IN  \/ g.status = "absent"
                                     \/ g.status \in {"changed", "unchanged"} /\ e.line > g.lines

(* What is near a changed line is changed, and everything is in a file that *)
(* only lost lines.                                                         *)
Near(first, last, S) == \E l \in S : first <= l + 1 /\ last >= l - 1
InChange(g, first, last) == Snapshot[g].changed = {} \/ Near(first, last, Snapshot[g].changed)
Tier(e) ==
    CASE Snapshot[e.file].status = "deleted" -> "baseline_context"
      [] Snapshot[e.file].status = "unchanged" -> "supporting_context"
      [] Snapshot[e.file].status = "changed" ->
            IF InChange(e.file, e.line, e.line) THEN "direct_changed" ELSE "indirect_context"
OfTier(f, tier) == Filtered(ValidEvidence(f), LAMBDA e : Tier(e) = tier)

AnchorExists(f) == f.start <= Snapshot[File].lines
PrimaryInDiff(f) == InChange(File, f.start, f.end)
HasDirectChangedEvidence(f) == PrimaryInDiff(f) \/ OfTier(f, "direct_changed") # << >>

DeterministicStrength(f) ==
    LET n == Len(f.evidence)
        v == Len(ValidEvidence(f))
        base == 20 + (IF HasDirectChangedEvidence(f) THEN 40 ELSE 0)
                   + MinOf({20, 10 * Len(OfTier(f, "supporting_context"))})
                   + MinOf({10, 5 * Len(OfTier(f, "indirect_context"))})
                   + (20 * v + n) \div (2 * n)
                   - 25 * (n - v)
    IN  IF v = 0 \/ ~AnchorExists(f) THEN 0 ELSE MinOf({100, MaxOf({0, base})})

(* isFindingInDiffRanges: within two lines of the hunk, or with evidence in *)
(* the same file that is.                                                   *)
InDiffRanges(f) ==
    LET near(first, last) == first <= Hunk[2] + 2 /\ last >= Hunk[1] - 2
    IN  \/ near(f.start, f.end)
        \/ \E i \in DOMAIN f.evidence :
              f.evidence[i].file = File /\ near(f.evidence[i].line, f.evidence[i].line)

IsActionableFix(f) == "generic fix" \notin f.signs
IsDeliberateIntentOrMock(f) == "deliberate" \in f.signs
IsBenignOrSpeculative(f) == "benign" \in f.signs

(* Stage 2, pass 1 of the validation and the deterministic hard floor. *)
HardFloor(f) ==
    /\ f.confidence >= MinConfidence
    /\ f.evidence # << >>
    /\ IsActionableFix(f) /\ ~IsDeliberateIntentOrMock(f) /\ ~IsBenignOrSpeculative(f)
    /\ InDiffRanges(f)

Validated(fs) ==
    [i \in DOMAIN fs |-> [fs[i] EXCEPT !.evidence = ValidEvidence(fs[i])]]

Deduplicate ==
    /\ stage = "dag"
    /\ candidates' =
          Filtered(Validated(Filtered(PreCriticDeduplicate(raw),
                                        LAMBDA f : DeterministicStrength(f) > 0)),
                    HardFloor)
    /\ stage' = "critic"
    /\ UNCHANGED <<raw, answer, ranked, disposition, exitCode>>

(* With no candidate left the critic is not called. *)
MayAnswer(given) == IF given = << >> THEN {<< >>} ELSE Answers(raw)

Critic ==
    /\ stage = "critic"
    /\ answer' \in MayAnswer(candidates)
    /\ stage' = "rank"
    /\ UNCHANGED <<raw, candidates, ranked, disposition, exitCode>>

Rank ==
    /\ stage = "rank"
    /\ ranked' = RankAndTruncateFindings(PostCriticConsolidate(answer),
                                         MinSeverity, MaxFindings)
    /\ stage' = "gate"
    /\ UNCHANGED <<raw, candidates, answer, disposition, exitCode>>

-----------------------------------------------------------------------------
(* The eleven checks of evaluateFindingGate. *)
ChangedCodeRelevance(f) ==
    \/ HasDirectChangedEvidence(f)
    \/ f.attribution \in {"introduced_by_patch", "worsened_by_patch"}
EvidenceValid(f) == f.evidence # << >> /\ ValidEvidence(f) = f.evidence
ConcreteFailureMechanism(f) == "generic mechanism" \notin f.signs
CredibleTrigger(f) == f.signs \cap {"generic trigger", "hypothetical trigger"} = {}
ReachableExecutionPath(f) ==
    "hypothetical message" \notin f.signs /\ (f.evidence # << >> \/ f.start > 0)
MaterialImpact(f) ==
    f.category \notin {"maintainability", "testing"} /\ f.severity # 1
JustifiedSeverity(f) ==
    IsCritical(f) => f.category \in {"security", "correctness", "reliability"}
PatchAttribution(f) ==
    \/ f.attribution \in {"introduced_by_patch", "worsened_by_patch"}
    \/ f.attribution = "unknown" /\ HasDirectChangedEvidence(f)

PassesAllButCritic(f) ==
    /\ ChangedCodeRelevance(f) /\ EvidenceValid(f) /\ ConcreteFailureMechanism(f)
    /\ CredibleTrigger(f) /\ ReachableExecutionPath(f)
    /\ MaterialImpact(f) /\ JustifiedSeverity(f)
    /\ f.confidence >= MinConfidence /\ PatchAttribution(f) /\ ~f.contradicted
PassesAll(f) ==
    /\ ChangedCodeRelevance(f)
    /\ EvidenceValid(f)
    /\ ConcreteFailureMechanism(f)
    /\ CredibleTrigger(f)
    /\ ReachableExecutionPath(f)
    /\ MaterialImpact(f)
    /\ JustifiedSeverity(f)
    /\ f.confidence >= MinConfidence
    /\ PatchAttribution(f)
    /\ f.criticDecision = "approved"
    /\ ~f.contradicted

Rejected(f) ==
    \/ f.criticDecision = "rejected"
    \/ Fabricated(f)
    \/ f.contradicted /\ DeterministicStrength(f) < 30

FinalDisposition(f) ==
    IF Rejected(f) THEN "rejected"
    ELSE IF PassesAll(f) THEN "blocking"
    ELSE IF ~MaterialImpact(f) THEN "informational"
    ELSE "advisory"

(* Every ranked finding is validated once more and judged; those that are   *)
(* not rejected are the result.                                             *)
RunDecisionGate(fs) == [i \in DOMAIN fs |-> FinalDisposition(fs[i])]

Gate ==
    /\ stage = "gate"
    /\ disposition' = RunDecisionGate(ranked)
    /\ stage' = "policy"
    /\ UNCHANGED <<raw, candidates, answer, ranked, exitCode>>

(* countBlockingFindings: only a blocking disposition can block. *)
IsBlocking(i) == disposition[i] = "blocking" /\ ranked[i].severity >= FailOn

EvaluateExitCode ==
    /\ stage = "policy"
    /\ exitCode' = IF \E i \in DOMAIN ranked : IsBlocking(i) THEN 1 ELSE 0
    /\ stage' = "done"
    /\ UNCHANGED <<raw, candidates, answer, ranked, disposition>>

Next == Deduplicate \/ Critic \/ Rank \/ Gate \/ EvaluateExitCode

Spec == Init /\ [][Next]_vars

-----------------------------------------------------------------------------
Covers(g, f) == g.start <= f.start /\ f.end <= g.end

(* Safety: pre-critic clustering leaves no two findings on common lines,    *)
(* however a chain of pairwise overlaps connects them.                      *)
PreCriticSeparates ==
    LET clustered == PreCriticDeduplicate(raw)
    IN  stage = "dag" =>
          \A i, j \in DOMAIN clustered : i # j => ~Overlap(clustered[i], clustered[j])

(* Safety: no reviewer's finding is lost or weakened by clustering: some    *)
(* candidate covers its lines, with at least its severity and confidence,   *)
(* and names every reviewer that reported it.                               *)
PreCriticForgetsNothing ==
    LET clustered == PreCriticDeduplicate(raw)
    IN  stage = "dag" =>
          \A i \in DOMAIN raw : \E j \in DOMAIN clustered :
              /\ Covers(clustered[j], raw[i])
              /\ clustered[j].severity >= raw[i].severity
              /\ clustered[j].confidence >= raw[i].confidence
              /\ raw[i].reviewers \subseteq clustered[j].reviewers

(* Safety: truncation drops only what ranks lowest, never a critical        *)
(* finding, and exceeds the limit only by critical findings.                *)
TruncationDropsTheLowest ==
    LET consolidated == PostCriticConsolidate(answer)
    IN  stage = "gate" =>
        /\ Len(ranked) <= MaxOf({MaxFindings,
                                 Cardinality({i \in DOMAIN ranked : IsCritical(ranked[i])})})
        /\ \A i \in DOMAIN consolidated :
              LET f == consolidated[i]
              IN  \/ f.severity < MinSeverity
                  \/ Contains(ranked, f)
                  \/ /\ ~IsCritical(f)
                     /\ Len(ranked) >= MaxFindings
                     /\ \A j \in DOMAIN ranked :
                           IsCritical(ranked[j]) \/ ~RanksBefore(f, ranked[j])

(* Safety: a merge is blocked only on behalf of a finding the critic itself *)
(* approved and did not call pre-existing, with a confidence over the       *)
(* floor, on lines the blocking finding covers: neither merging findings    *)
(* nor the policy's severity threshold lets anything else through.          *)
BlockNeedsApproval ==
    stage = "done" /\ exitCode = 1 =>
        \E i \in DOMAIN ranked, j \in DOMAIN answer :
            /\ disposition[i] = "blocking"
            /\ Covers(ranked[i], answer[j])
            /\ answer[j].criticDecision = "approved"
            /\ answer[j].attribution # "pre_existing"
            /\ answer[j].confidence >= MinConfidence

(* decision-gate.ts:10 says that fabricated findings are rejected: one on a *)
(* line the file does not have never survives the gate.                     *)
FabricatedFindingIsRejected ==
    \A i \in DOMAIN disposition :
        ~AnchorExists(ranked[i]) => disposition[i] = "rejected"
=============================================================================
