------------------------ MODULE ReviewResourcesProofs ------------------------
(***************************************************************************)
(* Proofs about what a review holds outside of its own memory: the child   *)
(* processes of the linters (Diagnostics), for any number of linters and   *)
(* any size of the pool, and the terminal and the exit code (TuiSession),  *)
(* for any results of the reviews and any number of re-reviews.  The two   *)
(* modules share no state; each has its own specification.                 *)
(***************************************************************************)
EXTENDS Diagnostics, TuiSession, FiniteSetTheorems, TLAPS

-----------------------------------------------------------------------------
(***************************************************************************)
(* The linters and their children.                                         *)
(***************************************************************************)
(* Nothing happens to a tool before the tools are in the pool.              *)
NewAtFirst ==
    stage \in {"start", "detecting"} =>
        \A t \in Tools : tool[t] = "new" /\ child[t] = "none"

LEMMA TypeInvariant == Init /\ [][Next]_vars => [](TypeOK /\ NewAtFirst)
<1>1. Init => TypeOK /\ NewAtFirst
  BY DEF Init, TypeOK, NewAtFirst, Ended, Exits
<1>2. TypeOK /\ NewAtFirst /\ [Next]_vars => TypeOK' /\ NewAtFirst'
  <2> SUFFICES ASSUME TypeOK, NewAtFirst, [Next]_vars PROVE TypeOK' /\ NewAtFirst'
    OBVIOUS
  <2> USE DEF TypeOK, NewAtFirst, given, Record, Degrade, Ended
  <2>1. CASE Begin \/ Detect \/ Return
    BY <2>1 DEF Begin, Detect, Return
  <2>2. CASE Abort
    BY <2>2 DEF Abort, SettleOnAbort
  <2>3. ASSUME NEW t \in Tools, StartTool(t) PROVE TypeOK' /\ NewAtFirst'
    BY <2>3 DEF StartTool, BeginTool, NextInQueue
  <2>4. ASSUME NEW t \in Tools, Spawn(t) PROVE TypeOK' /\ NewAtFirst'
    BY <2>4 DEF Spawn, SpawnWithSignal
  <2>5. ASSUME NEW t \in Tools, SpawnFails(t) PROVE TypeOK' /\ NewAtFirst'
    BY <2>5 DEF SpawnFails
  <2>6. ASSUME NEW t \in Tools, ChildExits(t) PROVE TypeOK' /\ NewAtFirst'
    BY <2>6 DEF ChildExits, KeptOutput
  <2>7. CASE UNCHANGED vars
    BY <2>7 DEF vars
  <2> QED
    BY <2>1, <2>2, <2>3, <2>4, <2>5, <2>6, <2>7 DEF Next
<1> QED
  BY <1>1, <1>2, PTL

-----------------------------------------------------------------------------
(* A slot of the pool is held by a tool that is about to spawn its child    *)
(* and by every child that lives, whether its tool still waits for it or    *)
(* not.  Until an abort it does.                                            *)
Holding == {t \in Tools : tool[t] = "probing" \/ child[t] = "alive"}

SlotsAreHeld ==
    /\ Cardinality(Holding) <= Concurrency
    /\ ~aborted => \A t \in Tools : child[t] = "alive" => tool[t] = "running"

LEMMA FewerHold ==
    ASSUME NEW S, NEW T, S \subseteq T, T \subseteq Tools
    PROVE  Cardinality(S) <= Cardinality(T) /\ Cardinality(T) \in Nat /\ Cardinality(S) \in Nat
<1>1. IsFiniteSet(Tools)
  BY DiagnosticsAssumption, FS_Interval DEF Tools
<1>2. IsFiniteSet(T) /\ IsFiniteSet(S)
  BY <1>1, FS_Subset
<1> QED
  BY <1>2, FS_Subset, FS_CardinalityType

LEMMA OneMoreHolds ==
    ASSUME NEW S, S \subseteq Tools, NEW t \in Tools
    PROVE  Cardinality(S \cup {t}) <= Cardinality(S) + 1
<1>1. IsFiniteSet(Tools)
  BY DiagnosticsAssumption, FS_Interval DEF Tools
<1>2. IsFiniteSet(S)
  BY <1>1, FS_Subset
<1>3. Cardinality(S) \in Nat
  BY <1>2, FS_CardinalityType
<1>4. Cardinality(S \cup {t}) = IF t \in S THEN Cardinality(S) ELSE Cardinality(S) + 1
  BY <1>2, FS_AddElement
<1> QED
  BY <1>3, <1>4

LEMMA SlotsInvariant == Init /\ [][Next]_vars => []SlotsAreHeld
<1>1. Init => SlotsAreHeld
  <2> SUFFICES ASSUME Init PROVE SlotsAreHeld
    OBVIOUS
  <2>1. Holding = {}
    BY DEF Init, Holding
  <2> QED
    BY <2>1, FS_EmptySet, DiagnosticsAssumption DEF Init, SlotsAreHeld
<1>2. TypeOK /\ NewAtFirst /\ SlotsAreHeld /\ [Next]_vars => SlotsAreHeld'
  <2> SUFFICES ASSUME TypeOK, NewAtFirst, SlotsAreHeld, [Next]_vars
               PROVE  SlotsAreHeld'
    OBVIOUS
  <2>1. ASSUME Holding' \subseteq Holding,
               ~aborted' => \A t \in Tools : child'[t] = "alive" => tool'[t] = "running"
        PROVE  SlotsAreHeld'
    <3>1. Cardinality(Holding') <= Cardinality(Holding) /\ Cardinality(Holding) \in Nat
          /\ Cardinality(Holding') \in Nat
      BY <2>1, FewerHold DEF Holding
    <3> QED
      BY <2>1, <3>1, DiagnosticsAssumption DEF SlotsAreHeld
  <2> USE DEF TypeOK, given, Record, Degrade
  <2>2. CASE Begin \/ Return \/ UNCHANGED vars
    BY <2>1, <2>2 DEF Begin, Return, vars, Holding, SlotsAreHeld
  <2>3. CASE Detect
    BY <2>1, <2>3 DEF Detect, Holding, NewAtFirst
  <2>4. CASE Abort
    BY <2>1, <2>4 DEF Abort, Holding, SettleOnAbort
  <2>5. ASSUME NEW t \in Tools, StartTool(t) PROVE SlotsAreHeld'
    <3>1. CASE aborted
      BY <2>1, <2>5, <3>1 DEF StartTool, BeginTool, Holding
    <3>2. CASE ~aborted
      <4>1. Holding' = Holding \cup {t} /\ Holding \subseteq Active /\ Active \subseteq Tools
        BY <2>5, <3>2 DEF StartTool, BeginTool, NextInQueue, Holding, Active, SlotsAreHeld
      <4>2. /\ Cardinality(Holding) <= Cardinality(Active)
            /\ Cardinality(Active) \in Nat /\ Cardinality(Holding) \in Nat
        BY <4>1, FewerHold
      <4>3. Cardinality(Holding') <= Cardinality(Holding) + 1
        BY <4>1, OneMoreHolds
      <4>4. Holding' \subseteq Tools /\ Cardinality(Holding') \in Nat
        BY <4>1, FewerHold
      <4>5. Cardinality(Active) < Concurrency
        BY <2>5 DEF StartTool
      <4>6. Cardinality(Holding') <= Concurrency
        BY <4>2, <4>3, <4>4, <4>5, DiagnosticsAssumption
      <4> QED
        BY <2>5, <3>2, <4>6 DEF StartTool, BeginTool, NextInQueue, SlotsAreHeld
    <3> QED
      BY <3>1, <3>2
  <2>6. ASSUME NEW t \in Tools, Spawn(t) PROVE SlotsAreHeld'
    BY <2>1, <2>6 DEF Spawn, SpawnWithSignal, Holding, SlotsAreHeld
  <2>7. ASSUME NEW t \in Tools, SpawnFails(t) PROVE SlotsAreHeld'
    BY <2>1, <2>7 DEF SpawnFails, Holding, SlotsAreHeld
  <2>8. ASSUME NEW t \in Tools, ChildExits(t) PROVE SlotsAreHeld'
    BY <2>1, <2>8 DEF ChildExits, Holding, SlotsAreHeld
  <2> QED
    BY <2>2, <2>3, <2>4, <2>5, <2>6, <2>7, <2>8 DEF Next
<1> QED
  BY <1>1, <1>2, TypeInvariant, PTL

-----------------------------------------------------------------------------
(* The variables of collectDiagnostics keep their types.                    *)
THEOREM TypeCorrect == Spec => []TypeOK
BY TypeInvariant, PTL DEF Spec

(* Whenever the review is cancelled, and whatever the children make of the  *)
(* SIGTERM, no more of them live than the pool has slots (pool.map() in     *)
(* analysis/diagnostics/index.ts).                                          *)
THEOREM ChildrenAreLimited == Spec => []ChildrenWithinLimit
<1>1. SlotsAreHeld => ChildrenWithinLimit
  <2> SUFFICES ASSUME SlotsAreHeld PROVE ChildrenWithinLimit
    OBVIOUS
  <2> DEFINE Living == {t \in Tools : child[t] = "alive"}
  <2>1. /\ Cardinality(Living) <= Cardinality(Holding)
        /\ Cardinality(Living) \in Nat /\ Cardinality(Holding) \in Nat
    BY FewerHold DEF Holding
  <2> QED
    BY <2>1, DiagnosticsAssumption DEF SlotsAreHeld, ChildrenWithinLimit
<1> QED
  BY <1>1, SlotsInvariant, PTL DEF Spec

-----------------------------------------------------------------------------
(***************************************************************************)
(* The session in the terminal.                                            *)
(***************************************************************************)
(* While App is mounted it shows the result that was delivered last, and    *)
(* the first review has one if it is done.                                  *)
ShowsTheLatest ==
    /\ DOMAIN review = Reviews
    /\ DOMAIN ui = {"shown", "view", "modal", "cursor", "evidence", "expanded", "suppressed"}
    /\ mounted => ui.shown = latest
    /\ review[0] = "done" => latest # NoReview

(* What was judged when the user quit stays the verdict.                    *)
Judged == IF quitView = "blocked" THEN 1 ELSE 0
QuitIsJudged ==
    quitView # "none" => review[0] = "done" /\ verdict = Judged

IInv == ShowsTheLatest /\ QuitIsJudged /\ TerminalIsRestored

(* A key that only changes the state of the reducer leaves shown alone.     *)
LEMMA ReducerSteps ==
    ASSUME ShowsTheLatest,
           Up \/ Down \/ Enter \/ CloseModal \/ Suppress
              \/ (\E m \in Modals : OpenModal(m)) \/ (\E delta \in {1, -1} : CycleEvidence(delta))
    PROVE  /\ DOMAIN ui' = DOMAIN ui /\ ui'.shown = ui.shown
           /\ UNCHANGED <<review, outcome, renderer, exitCode, sigints, quitView>>
<1> USE DEF ShowsTheLatest, Reduce
<1>1. CASE Up \/ Down
  BY <1>1 DEF Up, Down, MoveTo
<1>2. CASE Enter
  BY <1>2 DEF Enter
<1>3. CASE CloseModal \/ Suppress
  BY <1>3 DEF CloseModal, Suppress
<1>4. ASSUME NEW m \in Modals, OpenModal(m)
      PROVE  /\ DOMAIN ui' = DOMAIN ui /\ ui'.shown = ui.shown
             /\ UNCHANGED <<review, outcome, renderer, exitCode, sigints, quitView>>
  BY <1>4 DEF OpenModal
<1>5. ASSUME NEW delta \in {1, -1}, CycleEvidence(delta)
      PROVE  /\ DOMAIN ui' = DOMAIN ui /\ ui'.shown = ui.shown
             /\ UNCHANGED <<review, outcome, renderer, exitCode, sigints, quitView>>
  BY <1>5 DEF CycleEvidence
<1> QED
  BY <1>1, <1>2, <1>3, <1>4, <1>5

LEMMA QuitKeepsIInv == ASSUME IInv, Quit PROVE IInv'
<1>1. /\ ShowsTheLatest /\ Alive /\ mounted /\ ~mounted' /\ quit'
      /\ UNCHANGED <<review, outcome, latest, ui>>
      /\ quitView' = IF ui.view = "progress" \/ review[0] # "done" THEN "none"
                     ELSE IF Blocked(FindingsOf(ui.shown), ui.suppressed) THEN "blocked" ELSE "clean"
  BY DEF IInv, Quit, Routed, Listening, ResolveExit
<1>2. ShowsTheLatest'
  BY <1>1 DEF ShowsTheLatest
<1>3. CASE review[0] = "done"
  <2>1. RenderReturns(latest, ui.suppressed)
    BY <1>1, <1>3 DEF Quit
  <2>2. verdict' = IF Blocked(FindingsOf(ui.shown), ui.suppressed) THEN 1 ELSE 0
    BY <1>1, <1>3, <2>1 DEF RenderReturns, Verdict, FindingsOf, ShowsTheLatest
  <2>3. QuitIsJudged' /\ TerminalIsRestored'
    BY <1>1, <1>3, <2>1, <2>2 DEF QuitIsJudged, Judged, RenderReturns, TerminalIsRestored
  <2> QED
    BY <1>2, <2>3 DEF IInv
<1>4. CASE review[0] # "done"
  BY <1>1, <1>2, <1>4 DEF Quit, IInv, QuitIsJudged, TerminalIsRestored, Alive
<1> QED
  BY <1>3, <1>4

LEMMA DeliverKeepsIInv == ASSUME IInv, NEW r \in Reviews, Deliver(r) PROVE IInv'
<1> USE TuiAssumption DEF Reviews, NoReview
<1>1. /\ ShowsTheLatest /\ Alive /\ review[r] = "loading"
      /\ review' = [review EXCEPT ![r] = "done"] /\ latest' = r
      /\ UNCHANGED <<mounted, quitView>>
  BY DEF IInv, Deliver
<1>2. ShowsTheLatest'
  <2>1. CASE mounted
    <3>1. DOMAIN ui' = DOMAIN ui /\ ui'.shown = r
      BY <1>1, <2>1 DEF Deliver, FinishReview, ShowsTheLatest
    <3> QED
      BY <1>1, <3>1 DEF ShowsTheLatest
  <2>2. CASE ~mounted
    BY <1>1, <2>2 DEF Deliver, ShowsTheLatest
  <2> QED
    BY <2>1, <2>2
<1>3. quitView # "none" => r # 0
  BY <1>1 DEF IInv, QuitIsJudged
<1>4. QuitIsJudged'
  BY <1>1, <1>3 DEF IInv, QuitIsJudged, Judged, Deliver, ShowsTheLatest
<1>5. TerminalIsRestored'
  BY <1>1 DEF IInv, Deliver, RenderReturns, TerminalIsRestored, Alive
<1> QED
  BY <1>2, <1>4, <1>5 DEF IInv

LEMMA InductiveInvariant == TuiInit /\ [][TuiNext]_tuiVars => []IInv
<1>1. TuiInit => IInv
  BY TuiAssumption DEF TuiInit, IInv, ShowsTheLatest, QuitIsJudged, TerminalIsRestored, Alive, Reviews
<1>2. IInv /\ [TuiNext]_tuiVars => IInv'
  <2> SUFFICES ASSUME IInv, [TuiNext]_tuiVars PROVE IInv'
    OBVIOUS
  <2> USE TuiAssumption DEF IInv, ShowsTheLatest, QuitIsJudged, Judged, TerminalIsRestored,
                            Alive, renderer
  <2>1. CASE Up \/ Down \/ Enter \/ CloseModal \/ Suppress
              \/ (\E m \in Modals : OpenModal(m)) \/ (\E delta \in {1, -1} : CycleEvidence(delta))
    BY <2>1, ReducerSteps
  <2>2. CASE ReReview
    BY <2>2 DEF ReReview
  <2>3. CASE Quit
    BY <2>3, QuitKeepsIInv
  <2>4. ASSUME NEW r \in Reviews, ExecuteSucceeds(r) PROVE IInv'
    BY <2>4 DEF ExecuteSucceeds
  <2>5. ASSUME NEW r \in Reviews, Deliver(r) PROVE IInv'
    BY <2>5, DeliverKeepsIInv
  <2>6. ASSUME NEW r \in Reviews, ReviewFails(r) PROVE IInv'
    BY <2>6 DEF ReviewFails, Die
  <2>7. CASE Terminate \/ Sigint
    BY <2>7 DEF Terminate, Sigint, Die
  <2>8. CASE UNCHANGED tuiVars
    BY <2>8 DEF tuiVars
  <2> QED
    BY <2>1, <2>2, <2>3, <2>4, <2>5, <2>6, <2>7, <2>8 DEF TuiNext, Key
<1> QED
  BY <1>1, <1>2, PTL

(* However the process ends, it does not leave the alternate screen behind  *)
(* (renderers/tui/terminal.ts).                                             *)
THEOREM ScreenIsRestored == TuiSpec => []TerminalIsRestored
BY InductiveInvariant, PTL DEF TuiSpec, IInv

(* The exit code after q is the verdict on what was shown, whatever reviews *)
(* have replaced it and whatever still runs (renderers/tui/renderer.ts).       *)
THEOREM QuitIsFair == TuiSpec => []QuitJudgesWhatIsShown
<1>1. IInv => QuitJudgesWhatIsShown
  BY DEF IInv, QuitIsJudged, Judged, QuitJudgesWhatIsShown
<1> QED
  BY <1>1, InductiveInvariant, PTL DEF TuiSpec
=============================================================================
