---------------------------- MODULE ReviewCommand ---------------------------
(***************************************************************************)
(* octate review without the TUI: runReview (commands/review.ts) calls     *)
(* ReviewUseCase.execute (application/review.ts), which runs the stages    *)
(* up to the context and then ReviewEngine.run (review/engine.ts) with the *)
(* reviewer DAG, the critic (review/critic.ts) and the decision gate; an   *)
(* error ends in handleError (cli.ts), which picks the exit code.          *)
(*                                                                         *)
(* A stage is the await the program is in.  What runs between two awaits   *)
(* runs in one task: a SIGINT is handled only when no promise reaction is  *)
(* left to run, so its place is inside an await.  ReviewDag is part of     *)
(* this specification, and the critic uses the model through the same      *)
(* interface ModelCalls.  Findings are abstracted to whether there are any *)
(* (FindingTriage looks inside).  Mutants stand above what they mutate.    *)
(***************************************************************************)
EXTENDS ReviewBounds, Sequences, FiniteSets, Configuration

CONSTANT Sources        \* what the configuration may be loaded from

ASSUME SourcesAssumption == \A from \in Sources : IsSource(from)

VARIABLES
    stage,          \* the await the command is in
    exitCode,       \* how the process ended, or NoCode
    source,         \* the files, variables and options of the configuration
    failOn,         \* config.review.failOnSeverity
    interrupts,     \* sigintCount
    cancelledIn,    \* history: the stage the first SIGINT came in
    candidates,     \* findings survive the deterministic hard floor
    asked,          \* the promises of the critic's two model calls
    curated,        \* the critic returned findings
    shown,          \* findings survive the gate: result.findings
    blocking,       \* countBlockingFindings > 0
    aborted, settled, docOnly, triggered, dagStage, joined, findings,
    rawCounts, warnings, failed                 \* see ReviewDag

Dag == INSTANCE ReviewDag WITH stage <- dagStage

CriticCalls == {"first", "retry"}
Critic == INSTANCE ModelCalls WITH Calls <- CriticCalls, settled <- asked

dag == <<settled, docOnly, triggered, dagStage, joined, findings, rawCounts,
         warnings, failed>>
critic == <<candidates, asked, curated>>
outcome == <<shown, blocking>>
cancellation == <<interrupts, cancelledIn>>
config == <<source, failOn>>
vars == <<stage, exitCode, config, cancellation, critic, outcome, aborted, dag>>

Forgotten == [kind |-> "forgotten"]     \* a source that has been used
NoCode == 256           \* no exit code: the process runs
Awaits == {"setup", "scope", "snapshot", "parse", "symbols", "diagnostics",
           "context", "dag", "evidence", "critic", "gate", "render"}

TypeOK ==
    /\ stage \in Awaits \cup {"exited"}
    /\ exitCode \in {NoCode, 0, 1, 2, 3, 4, 5, 130}
    /\ interrupts \in 0..2
    /\ cancelledIn \in Awaits \cup {"never"}
    /\ candidates \in BOOLEAN /\ curated \in BOOLEAN
    /\ source \in Sources \cup {Forgotten} /\ failOn \in STRING
    /\ shown \in BOOLEAN /\ blocking \in BOOLEAN
    /\ Critic!CallsTypeOK
    /\ Dag!TypeOK

Init ==
    /\ stage = "setup" /\ exitCode = NoCode
    /\ source \in Sources /\ failOn = Default["failOn"]
    /\ interrupts = 0 /\ cancelledIn = "never"
    /\ candidates = FALSE /\ curated = FALSE
    /\ shown = FALSE /\ blocking = FALSE
    /\ Critic!CallsInit
    /\ Dag!Init

Exit(code) == stage' = "exited" /\ exitCode' = code

(* signal.throwIfAborted() before the next await: the reason is the handler's *)
(* AbortError, which handleError turns into 130.                              *)
ProceedAlways(next) == stage' = next /\ UNCHANGED exitCode
Proceed(next) ==
    \/ ~aborted /\ stage' = next /\ UNCHANGED exitCode
    \/ aborted /\ Exit(130)

(* The stages up to the context, each ending when its await does.  Options    *)
(* and repository have been found to be right (Fault is when they are not),   *)
(* and the configuration is loaded.  What it was loaded from is forgotten.    *)
Setup ==
    /\ stage = "setup"
    /\ LET loaded == LoadConfig(source) IN
          IF loaded.error = "none"
          THEN failOn' = loaded.sets["failOn"] /\ Proceed("scope")
          ELSE Exit(ErrorCode[loaded.error]) /\ UNCHANGED failOn
    /\ source' = Forgotten
    /\ UNCHANGED <<cancellation, critic, outcome, aborted, dag>>

(* resolveScope is done; with no changed file there is an empty result.       *)
ReadScope ==
    /\ stage = "scope"
    /\ Proceed("snapshot") \/ Proceed("render")
    /\ UNCHANGED <<config, cancellation, critic, outcome, aborted, dag>>

(* The files are filtered and read; if none is left the empty result is       *)
(* returned without a look at the signal.                                     *)
ReadSnapshot ==
    /\ stage = "snapshot"
    /\ Proceed("parse") \/ (stage' = "render" /\ UNCHANGED exitCode)
    /\ UNCHANGED <<config, cancellation, critic, outcome, aborted, dag>>

(* parseFiles() stops at an abort and returns what it has. *)
Parse ==
    /\ stage = "parse"
    /\ Proceed("symbols")
    /\ UNCHANGED <<config, cancellation, critic, outcome, aborted, dag>>

(* Only a working tree is given to the linters. *)
ResolveSymbols ==
    /\ stage = "symbols"
    /\ Proceed("diagnostics") \/ Proceed("context")
    /\ UNCHANGED <<config, cancellation, critic, outcome, aborted, dag>>

(* Any failure of the linters, an abort included, becomes a warning. *)
CollectDiagnostics ==
    /\ stage = "diagnostics"
    /\ Proceed("context")
    /\ UNCHANGED <<config, cancellation, critic, outcome, aborted, dag>>

BuildContext ==
    /\ stage = "context"
    /\ Proceed("dag")
    /\ UNCHANGED <<config, cancellation, critic, outcome, aborted, dag>>

-----------------------------------------------------------------------------
(* The DAG takes a step of its own: until its caller is told that it threw,   *)
(* the branch that is left may still end.                                     *)
RunDag ==
    /\ stage = "dag"
    /\ Dag!Next
    /\ UNCHANGED <<config, stage, exitCode, cancellation, critic, outcome, aborted>>

(* It returned: deduplication, then evidence validation. *)
DagReturned ==
    /\ stage = "dag" /\ dagStage = "returned"
    /\ Proceed("evidence")
    /\ UNCHANGED <<config, cancellation, critic, outcome, aborted, dag>>

(* An error that carries the provider's text: handleError looks for           *)
(* "cancelled" and "Aborted" in it before it looks at the error's class.      *)
ProviderErrorCodes == {ErrorCode["model"], 130}

(* It threw: the abort reason, or an error of the provider. *)
DagThrewSwallowed ==
    /\ stage = "dag" /\ dagStage \in Dag!Threw
    /\ Proceed("evidence")
    /\ UNCHANGED <<config, cancellation, critic, outcome, aborted, dag>>
DagThrew ==
    /\ stage = "dag" /\ dagStage \in Dag!Threw
    /\ \/ dagStage = "threwAbort" /\ aborted /\ Exit(130)
       \/ /\ \E r \in joined : settled[r] \in {"failed", "failedSaysAborted"}
          /\ \E code \in ProviderErrorCodes : Exit(code)
    /\ UNCHANGED <<config, cancellation, critic, outcome, aborted, dag>>

(* Evidence validation and hard floor.  With no candidate left the critic is  *)
(* skipped; consolidation and ranking of nothing lead to the gate.            *)
ValidateEvidenceThenSkip ==
    /\ stage = "evidence"
    /\ candidates' = FALSE /\ stage' = "gate"
    /\ UNCHANGED <<config, exitCode, cancellation, asked, curated, outcome, aborted, dag>>
ValidateEvidence ==
    /\ stage = "evidence"
    /\ \/ candidates' = FALSE /\ Proceed("gate") /\ UNCHANGED asked
       \/ /\ findings # << >>
          /\ candidates' = TRUE
          /\ Proceed("critic")
          /\ IF aborted THEN UNCHANGED asked ELSE Critic!StartCalls({"first"})
    /\ UNCHANGED <<config, cancellation, curated, outcome, aborted, dag>>

(* The call of the critic that executeCriticStage awaits. *)
CriticCall == IF asked["retry"] = "idle" THEN "first" ELSE "retry"

CriticSettles ==
    /\ stage = "critic"
    /\ \E o \in Critic!Outcomes : Critic!SettleCall(CriticCall, o)
    /\ UNCHANGED <<config, stage, exitCode, cancellation, candidates, curated, outcome, dag>>

CriticIsAbortError ==
    asked[CriticCall] # "ok" /\
        (aborted \/ asked[CriticCall] \in {"aborted", "failedSaysAborted"})

(* It answered: consolidate, rank and truncate, then validate once more. *)
CriticAnswered ==
    /\ stage = "critic" /\ asked[CriticCall] = "ok"
    /\ curated' \in BOOLEAN
    /\ Proceed("gate")
    /\ UNCHANGED <<config, cancellation, candidates, asked, outcome, aborted, dag>>

CriticAborted ==
    /\ stage = "critic" /\ asked[CriticCall] \in Critic!Outcomes
    /\ CriticIsAbortError
    /\ \/ aborted /\ Exit(130)
       \/ asked[CriticCall] # "aborted" /\ \E code \in ProviderErrorCodes : Exit(code)
    /\ UNCHANGED <<config, cancellation, critic, outcome, aborted, dag>>

(* Both calls failed: a ModelError. *)
GiveUpOpen == stage' = "gate" /\ curated' = TRUE /\ UNCHANGED <<exitCode, asked>>
GiveUp == Exit(ErrorCode["model"]) /\ UNCHANGED <<curated, asked>>

(* It failed: one more call. *)
CriticFailed ==
    /\ stage = "critic" /\ asked[CriticCall] \in Critic!Outcomes \ {"ok"}
    /\ ~CriticIsAbortError
    /\ \/ /\ CriticCall = "first"
          /\ Critic!StartCalls({"retry"})
          /\ UNCHANGED <<stage, exitCode, curated>>
       \/ /\ CriticCall = "retry"
          /\ GiveUp
          /\ UNCHANGED aborted
    /\ UNCHANGED <<config, cancellation, candidates, outcome, dag>>

(* The gate decides and the result is returned and rendered; the signal is    *)
(* not looked at any more.                                                    *)
Gate ==
    /\ stage = "gate"
    /\ stage' = "render"
    /\ shown' \in IF curated THEN BOOLEAN ELSE {FALSE}
    /\ blocking' \in IF shown' /\ failOn \notin Advisory THEN BOOLEAN ELSE {FALSE}
    /\ UNCHANGED <<exitCode, config, cancellation, critic, aborted, dag>>

(* The process ends with process.exitCode. *)
Render ==
    /\ stage = "render"
    /\ Exit(IF blocking THEN 1 ELSE 0)
    /\ UNCHANGED <<config, cancellation, critic, outcome, aborted, dag>>

(* The await of a stage rejects: configuration, repository, other.  The       *)
(* linters and the model calls have their own actions.                        *)
FaultCodes ==
    [s \in Awaits |->
        IF s = "setup" THEN {ErrorCode[e] : e \in {"configuration", "git", "repository", "internal"}}
        ELSE IF s \in {"parse", "render"} THEN {ErrorCode["internal"]}
        ELSE IF s \in {"diagnostics", "dag", "critic"} THEN {}
        ELSE {ErrorCode["repository"], ErrorCode["internal"]}]
Fault ==
    /\ stage \in Awaits
    /\ \E code \in FaultCodes[stage] : Exit(code)
    /\ UNCHANGED <<config, cancellation, critic, outcome, aborted, dag>>

-----------------------------------------------------------------------------
(* The program is waiting for something outside: no reaction is left to run.  *)
InAwait ==
    /\ stage \in Awaits
    /\ stage = "dag" =>
          /\ dagStage \in Dag!Running
          /\ \E r \in Dag!Roles : settled[r] = "pending"
          /\ \A r \in Dag!Roles : settled[r] \in Dag!Outcomes => r \in joined
    /\ stage = "critic" => asked[CriticCall] = "pending"

(* The first SIGINT aborts, the second one exits at once. *)
FirstSigint ==
    /\ InAwait /\ interrupts = 0
    /\ interrupts' = 1 /\ cancelledIn' = stage
    /\ aborted' = TRUE
    /\ UNCHANGED <<config, stage, exitCode, critic, outcome, dag>>

SecondSigint ==
    /\ InAwait /\ interrupts = 1
    /\ interrupts' = 2
    /\ Exit(130)
    /\ UNCHANGED <<config, cancelledIn, critic, outcome, aborted, dag>>

Progress ==
    \/ Setup \/ ReadScope \/ ReadSnapshot \/ Parse \/ ResolveSymbols
    \/ CollectDiagnostics \/ BuildContext
    \/ RunDag \/ DagReturned \/ DagThrew
    \/ ValidateEvidence
    \/ CriticSettles \/ CriticAnswered \/ CriticAborted \/ CriticFailed
    \/ Gate \/ Render \/ Fault

Next == Progress \/ FirstSigint \/ SecondSigint

Spec == Init /\ [][Next]_vars

-----------------------------------------------------------------------------
(* Safety: what ReviewDag promises of the reviewers it calls holds inside the *)
(* command: none is lost, and the answers decide how it ends.                 *)
ReturnAccountsForEveryReviewer == Dag!ReturnAccountsForEveryReviewer
AnswersDecideTheVerdict == Dag!AnswersDecideTheVerdict

CriticApproved == \E c \in CriticCalls : asked[c] = "ok"

(* Safety: unverified findings never reach the user: a result has findings    *)
(* only if a reviewer reported some and the critic's own answer was received, *)
(* whatever failed and was retried in between.                                *)
UnverifiedFindingsStayInside ==
    shown => CriticApproved /\ Dag!Succeeded # {} /\ findings # << >>

(* Safety: exit code 0 is earned: nothing was reviewable, or some reviewer    *)
(* answered and, if it left candidates, the critic did too.                   *)
CleanExitIsEarned ==
    exitCode = 0 =>
        \/ \A r \in Dag!Roles : settled[r] = "idle"
        \/ Dag!Succeeded # {} /\ (candidates => CriticApproved)

(* Safety: a review that was cancelled passes or blocks only if the SIGINT    *)
(* came when its findings had already been decided on, or when its files      *)
(* turned out not to be reviewable.                                           *)
CancelledReviewHasNoVerdict ==
    exitCode \in {0, 1} =>
        \/ cancelledIn \in {"never", "gate", "render"}
        \/ cancelledIn = "snapshot" /\ dagStage = "start"

(* Action property: after the SIGINT no further stage, reviewer or critic     *)
(* call begins; what is decided is rendered, and only the await it came in    *)
(* runs to its end.  What the abort does to reviewers that still run is not   *)
(* recorded as their failure, so a cancelled review is no degraded one.       *)
NoWorkAfterSigint ==
    [][aborted =>
        /\ stage' \in {stage, "render", "exited"}
        /\ \A r \in Dag!Roles : settled[r] = "idle" => settled'[r] = "idle"
        /\ \A c \in CriticCalls : asked[c] = "idle" => asked'[c] = "idle"
        /\ warnings' = warnings]_vars

(* Action property: a review begins with the threshold of the last of the     *)
(* global file, the project file, the environment and the command line that   *)
(* sets one, or with the built-in one; a layer that only sets other settings  *)
(* does not get in the way.  Nothing invalid is passed over but a global file *)
(* and a variable of the environment that the command line overrides.         *)
ProjectFile(from) ==
    IF from.config.kind # "no option" THEN from.config ELSE FindConfigFile(from.dirs)
Said(from) ==
    << IF Accepts(from.global.sets) THEN from.global.sets ELSE Silent,
       ProjectFile(from).sets, from.env, from.cli >>
Overridden(k, s, said) == k = 3 /\ s \in DOMAIN said[4]
FollowsPrecedence(threshold, from) ==
    LET said == Said(from)
        speaking == {k \in DOMAIN said : "failOn" \in DOMAIN said[k]}
    IN /\ threshold = IF speaking = {} THEN Default["failOn"] ELSE said[Max(speaking)]["failOn"]
       /\ ProjectFile(from).kind \in {"none", "yaml"} /\ from.global.kind \in {"none", "yaml"}
       /\ \A k \in DOMAIN said : \A s \in Settings \cap DOMAIN said[k] :
             said[k][s] # Invalid \/ Overridden(k, s, said)
SettingsFollowPrecedence ==
    [][stage = "setup" /\ stage' = "scope" => FollowsPrecedence(failOn', source)]_vars
=============================================================================
