----------------------------- MODULE TuiSession -----------------------------
(***************************************************************************)
(* octate review in the TUI: runReview (commands/review.ts) starts the     *)
(* renderer, executes the review and renders its result; meanwhile Ink     *)
(* feeds keys to App (renderers/tui/app.tsx), and `r` starts further       *)
(* reviews that nothing waits for and nothing serializes.                  *)
(*                                                                         *)
(* A review is an execution of the use case followed by updateResult(),    *)
(* which awaits the sources and the diff and then delivers the result:     *)
(* review 0 is the one of the command, the others are re-reviews.  What    *)
(* happens inside an execution is ReviewCommand; here it ends somehow.     *)
(*                                                                         *)
(* Ink unmounts at once and renders before the next key.  The rows of the  *)
(* panes and what they display are left out.  Mutants stand above the      *)
(* operator they mutate.                                                   *)
(***************************************************************************)
EXTENDS Integers, SequencesExt

CONSTANTS
    Results,        \* the sets of findings a review may end with
    MaxReReviews,   \* bound on the re-reviews
    FailOn          \* effectiveFailOn, as a level

ASSUME TuiAssumption ==
    /\ MaxReReviews \in Nat
    /\ FailOn \in 1..6
    /\ \A R \in Results : \A f, g \in R : f.id = g.id => f = g

Reviews == 0..MaxReReviews
Ids == UNION {{f.id : f \in R} : R \in Results}
Severities == UNION {{f.severity : f \in R} : R \in Results}
NoReview == -1

VARIABLES
    review,     \* where each review stands
    outcome,    \* what it found
    latest,     \* latestResult: the review that was delivered last
    quit,       \* exitPromise is resolved
    mounted,    \* Ink runs and App listens to keys and actions
    altScreen,  \* lifecycle.active: the terminal shows the alternate screen
    finalSuppressed,
    verdict,    \* process.exitCode as render() sets it
    exitCode,   \* how the process ended, or NoCode
    sigints,    \* sigintCount
    ui,         \* the state of the reducer
    quitView    \* history: what the user saw when pressing q

renderer == <<latest, quit, mounted, altScreen, finalSuppressed, verdict>>
tuiVars == <<review, outcome, renderer, exitCode, sigints, ui, quitView>>

NoCode == 256
Modals == {"diff", "fix", "explain", "context", "help"}

TuiTypeOK ==
    /\ review \in [Reviews -> {"idle", "running", "loading", "done", "failed"}]
    /\ outcome \in [Reviews -> Results \cup {{}}]
    /\ latest \in Reviews \cup {NoReview}
    /\ quit \in BOOLEAN /\ mounted \in BOOLEAN /\ altScreen \in BOOLEAN
    /\ finalSuppressed \in SUBSET Ids
    /\ verdict \in {NoCode, 0, 1}
    /\ exitCode \in {NoCode, 0, 1, 3, 4, 5, 130}
    /\ sigints \in 0..2
    /\ ui \in [shown : Reviews \cup {NoReview}, view : {"progress", "workspace", "clean"},
               modal : Modals \cup {"none"}, cursor : Nat, evidence : Nat,
               expanded : SUBSET Severities, suppressed : SUBSET Ids]
    /\ quitView \in {"none", "clean", "blocked"}

(* start() and the first execution. *)
TuiInit ==
    /\ review = [r \in Reviews |-> IF r = 0 THEN "running" ELSE "idle"]
    /\ outcome = [r \in Reviews |-> {}]
    /\ latest = NoReview
    /\ quit = FALSE /\ mounted = TRUE /\ altScreen = TRUE
    /\ finalSuppressed = {}
    /\ verdict = NoCode /\ exitCode = NoCode
    /\ sigints = 0
    /\ ui = [shown |-> NoReview, view |-> "progress", modal |-> "none", cursor |-> 0,
             evidence |-> 0, expanded |-> Severities, suppressed |-> {}]
    /\ quitView = "none"

-----------------------------------------------------------------------------
(* The navigation list: a header per severity that has findings, then these *)
(* if the group is expanded, both from high to low.                         *)
FindingsOf(r) == IF r = NoReview THEN {} ELSE outcome[r]

Group(S, s) == SetToSortSeq({f \in S : f.severity = s}, LAMBDA f, g : f.score > g.score)

BuildNavItems(S, expanded) ==
    LET header(s) == [header |-> TRUE, severity |-> s]
        row(f)    == [header |-> FALSE, severity |-> f.severity, finding |-> f]
        rows(s)   == LET G == Group(S, s) IN [i \in DOMAIN G |-> row(G[i])]
        order     == SetToSortSeq({f.severity : f \in S}, LAMBDA s, t : s > t)
    IN  FlattenSeq([i \in DOMAIN order |->
            <<header(order[i])>> \o IF order[i] \in expanded THEN rows(order[i]) ELSE << >>])

NavItems == BuildNavItems(FindingsOf(ui.shown), ui.expanded)
LastIndex(items) == IF items = << >> THEN 0 ELSE Len(items) - 1

(* The cursor counts from 0. *)
Current == IF ui.cursor < Len(NavItems) THEN {NavItems[ui.cursor + 1]} ELSE {}

(* The finding under the cursor, or the first one of the header under it. *)
ActiveFinding ==
    UNION {IF ~item.header THEN {item.finding}
           ELSE IF item.severity \in ui.expanded
           THEN {NavItems[ui.cursor + 2].finding} ELSE {} : item \in Current}

(* countBlockingFindings over what is not suppressed. *)
Blocked(S, suppressed) ==
    \E f \in S : f.id \notin suppressed /\ f.blocking /\ f.severity >= FailOn

-----------------------------------------------------------------------------
(* The process ends; the `exit` trap restores the terminal. *)
DieUntrapped(code) == exitCode' = code /\ UNCHANGED altScreen
Die(code) == exitCode' = code /\ altScreen' = FALSE

(* render() continues after exitPromise: the terminal is restored and the   *)
(* last result delivered is judged.  bin/octate exits at once with 1, but   *)
(* with 0 it lets the process run out.                                      *)
VerdictOnFirst(last, suppressed) == IF Blocked(outcome[0], suppressed) THEN 1 ELSE 0
Verdict(last, suppressed) == IF Blocked(outcome[last], suppressed) THEN 1 ELSE 0

RenderReturns(last, suppressed) ==
    /\ altScreen' = FALSE
    /\ verdict' = Verdict(last, suppressed)
    /\ exitCode' = IF verdict' = 0 THEN exitCode ELSE verdict'

Alive == exitCode = NoCode

(* An execution succeeds, and updateResult() loads what the result needs. *)
ExecuteSucceeds(r) ==
    /\ Alive /\ review[r] = "running"
    /\ review' = [review EXCEPT ![r] = "loading"]
    /\ \E R \in Results : outcome' = [outcome EXCEPT ![r] = R]
    /\ UNCHANGED <<renderer, exitCode, sigints, ui, quitView>>

(* FINISH_REVIEW *)
FinishReview(r) ==
    ui' = [ui EXCEPT !.shown = r, !.modal = "none", !.cursor = 0, !.evidence = 0,
                     !.view = IF outcome[r] = {} THEN "clean" ELSE "workspace"]

(* dispatchResult(); render() of the first review then waits for the exit. *)
Deliver(r) ==
    /\ Alive /\ review[r] = "loading"
    /\ review' = [review EXCEPT ![r] = "done"]
    /\ latest' = r
    /\ IF mounted THEN FinishReview(r) ELSE UNCHANGED ui
    /\ IF r = 0 /\ quit THEN RenderReturns(r, finalSuppressed)
       ELSE UNCHANGED <<altScreen, verdict, exitCode>>
    /\ UNCHANGED <<outcome, quit, mounted, finalSuppressed, sigints, quitView>>

(* An execution, or the loading of its result, fails.  The command's own    *)
(* review ends the session with the code of its error; a re-review's        *)
(* promise has no handler, so the process dies as of an internal error.     *)
ReviewFails(r) ==
    /\ Alive /\ review[r] \in {"running", "loading"}
    /\ review' = [review EXCEPT ![r] = "failed"]
    /\ mounted' = IF r = 0 THEN FALSE ELSE mounted
    /\ quit' = (quit \/ r = 0)
    /\ IF r = 0
       THEN \E code \in {3, 4, 5, 130} : Die(code)
       ELSE Die(5)
    /\ UNCHANGED <<outcome, latest, finalSuppressed, verdict, sigints, ui, quitView>>

(* The command has returned and no review keeps the process alive. *)
Terminate ==
    /\ Alive /\ verdict # NoCode
    /\ \A r \in Reviews : review[r] \notin {"running", "loading"}
    /\ Die(verdict)
    /\ UNCHANGED <<review, outcome, latest, quit, mounted, finalSuppressed, verdict,
                   sigints, ui, quitView>>

(* A SIGINT aborts the signal and its trap restores the terminal, though    *)
(* Ink stays; the second one ends the process.  Once the command has        *)
(* returned its handler is gone and the signal kills.                       *)
Sigint ==
    /\ Alive /\ sigints < 2
    /\ sigints' = sigints + 1
    /\ IF sigints = 1 \/ verdict # NoCode THEN Die(130)
       ELSE altScreen' = FALSE /\ UNCHANGED exitCode
    /\ UNCHANGED <<review, outcome, latest, quit, mounted, finalSuppressed, verdict, ui,
                   quitView>>

-----------------------------------------------------------------------------
(* Keys reach App while it is mounted; an open modal takes them all. *)
Listening == Alive /\ mounted
Routed == Listening /\ ui.modal = "none"
Reduce(next) ==
    /\ ui' = next
    /\ UNCHANGED <<review, outcome, renderer, exitCode, sigints, quitView>>

MoveTo(i) == [ui EXCEPT !.cursor = i, !.evidence = 0]
Up   == Routed /\ Reduce(MoveTo(IF ui.cursor = 0 THEN 0 ELSE ui.cursor - 1))
Down == Routed /\ Reduce(MoveTo(IF ui.cursor < LastIndex(NavItems) THEN ui.cursor + 1
                                ELSE LastIndex(NavItems)))

(* Enter on a header folds or unfolds its group, on a row it explains. *)
Toggled(set, x) == IF x \in set THEN set \ {x} ELSE set \cup {x}
Enter ==
    /\ Routed
    /\ \E item \in Current :
          IF item.header
          THEN LET expanded == Toggled(ui.expanded, item.severity)
                   last == LastIndex(BuildNavItems(FindingsOf(ui.shown), expanded))
               IN  Reduce([ui EXCEPT !.expanded = expanded,
                                     !.cursor = IF @ < last THEN @ ELSE last])
          ELSE Reduce([ui EXCEPT !.modal = "explain"])

OpenModal(m) ==
    /\ Routed
    /\ m = "help" \/ ActiveFinding # {}
    /\ Reduce([ui EXCEPT !.modal = m])

CloseModal == Listening /\ ui.modal # "none" /\ Reduce([ui EXCEPT !.modal = "none"])

(* s on a row; on a header it does nothing. *)
Suppress ==
    /\ Routed
    /\ \E item \in Current :
          ~item.header /\ Reduce([ui EXCEPT !.suppressed = Toggled(@, item.finding.id)])

(* Position 0 is the finding's own lines, the others are its evidence. *)
CycleEvidence(delta) ==
    /\ Routed
    /\ \E f \in ActiveFinding :
          f.evidence > 0 /\ Reduce([ui EXCEPT !.evidence = (@ + delta) % (f.evidence + 1)])

(* r starts a review whatever else runs. *)
ReReview ==
    /\ Routed
    /\ \E r \in Reviews :
          /\ review[r] = "idle" /\ \A q \in 0..(r - 1) : review[q] # "idle"
          /\ review' = [review EXCEPT ![r] = "running"]
    /\ ui' = [ui EXCEPT !.view = "progress"]
    /\ UNCHANGED <<outcome, renderer, exitCode, sigints, quitView>>

(* q unmounts Ink and resolves exitPromise; if render() waits for it, it    *)
(* returns at once, otherwise when the first review's result is delivered.  *)
ResolveExitNever == UNCHANGED quit
ResolveExit == quit' = TRUE

Quit ==
    /\ Routed
    /\ mounted' = FALSE
    /\ finalSuppressed' = ui.suppressed
    /\ ResolveExit
    /\ quitView' = IF ui.view = "progress" \/ review[0] # "done" THEN "none"
                   ELSE IF Blocked(FindingsOf(ui.shown), ui.suppressed) THEN "blocked" ELSE "clean"
    /\ IF review[0] = "done" /\ quit' THEN RenderReturns(latest, ui.suppressed)
       ELSE UNCHANGED <<altScreen, verdict, exitCode>>
    /\ UNCHANGED <<review, outcome, latest, sigints, ui>>

Key ==
    \/ Up \/ Down \/ Enter \/ CloseModal \/ Suppress \/ ReReview \/ Quit
    \/ \E m \in Modals : OpenModal(m)
    \/ \E delta \in {1, -1} : CycleEvidence(delta)

TuiNext ==
    \/ Key
    \/ \E r \in Reviews : ExecuteSucceeds(r) \/ Deliver(r) \/ ReviewFails(r)
    \/ Terminate
    \/ Sigint

(* An execution settles, a load ends, and a process with nothing left to do *)
(* terminates.  The user need not do anything.                              *)
TuiFairness ==
    /\ WF_tuiVars(Terminate)
    /\ \A r \in Reviews : WF_tuiVars(ExecuteSucceeds(r) \/ Deliver(r) \/ ReviewFails(r))

TuiSpec == TuiInit /\ [][TuiNext]_tuiVars /\ TuiFairness

-----------------------------------------------------------------------------
(* Safety: however the process ends (q, a failure, a re-review nobody       *)
(* awaits, a signal), it does not leave the alternate screen behind.        *)
TerminalIsRestored == ~Alive => ~altScreen

(* Safety: q judges what the user saw: once the first review has ended, the *)
(* exit code is the verdict on the findings shown and not suppressed, after *)
(* any re-reviews and whatever still runs.                                  *)
QuitJudgesWhatIsShown ==
    verdict # NoCode /\ quitView # "none" =>
        verdict = IF quitView = "blocked" THEN 1 ELSE 0

(* Liveness: after q the command ends, whatever review is still running.    *)
QuitEndsTheCommand == ~mounted ~> ~Alive
=============================================================================
