----------------------------- MODULE ModelCalls -----------------------------
(***************************************************************************)
(* What a reviewer may rely on when it calls ReviewModel.generate(request, *)
(* signal): the call stays pending until it settles, it settles once, and  *)
(* it settles with "aborted" only if the caller's signal was aborted.  A   *)
(* failed call carries an error; whether the text of that error contains   *)
(* the word "aborted" is kept, because the review DAG looks at the text.   *)
(*                                                                         *)
(* ModelClient implements this interface; ReviewDag is a client of it.     *)
(***************************************************************************)
CONSTANT Calls          \* the generate() calls made on one model object

VARIABLES
    aborted,            \* signal.aborted of the caller's AbortSignal
    settled             \* settled[c]: how the promise of call c stands

callVars == <<aborted, settled>>

Outcomes == {"ok", "failed", "failedSaysAborted", "aborted"}

CallsTypeOK ==
    /\ aborted \in BOOLEAN
    /\ settled \in [Calls -> {"idle", "pending"} \cup Outcomes]

CallsInit ==
    /\ aborted = FALSE
    /\ settled = [c \in Calls |-> "idle"]

(* generate() is called for every call of S in one task: the promises are  *)
(* pending, or all rejected at once because no API key is configured.      *)
StartCalls(S) ==
    /\ S # {}
    /\ \A c \in S : settled[c] = "idle"
    /\ \E s \in {"pending", "failed"} :
          settled' = [c \in Calls |-> IF c \in S THEN s ELSE settled[c]]
    /\ UNCHANGED aborted

(* The promise of a pending call settles. *)
SettleCall(c, o) ==
    /\ settled[c] = "pending"
    /\ o = "aborted" => aborted
    /\ settled' = [settled EXCEPT ![c] = o]
    /\ UNCHANGED aborted

(* The owner of the AbortController aborts: Ctrl-C, or a failed run. *)
AbortCalls ==
    /\ ~aborted
    /\ aborted' = TRUE
    /\ UNCHANGED settled

CallsNext ==
    \/ AbortCalls
    \/ \E S \in SUBSET Calls : StartCalls(S)
    \/ \E c \in Calls, o \in Outcomes : SettleCall(c, o)

(* A pending call does not stay pending for ever. *)
CallsFairness ==
    \A c \in Calls : WF_callVars(\E o \in Outcomes : SettleCall(c, o))

CallsSpec == CallsInit /\ [][CallsNext]_callVars /\ CallsFairness
=============================================================================
