----------------------------- MODULE ModelClient ----------------------------
(***************************************************************************)
(* The model client: LocalNvidiaProvider.generate (providers/nvidia.ts)    *)
(* over ResilienceManager (providers/resilience.ts) over the p-limit pool  *)
(* of cache/pool.ts.                                                       *)
(*                                                                         *)
(* A call is one generate().  It makes up to MaxRepairs + 1 turns; each    *)
(* turn is one executeWithRetry(), which waits for a slot of the pool,     *)
(* makes up to MaxRetries + 1 HTTP requests and gives the slot back.  The  *)
(* slot is kept while the call sleeps between two requests, and a repair   *)
(* turn queues again behind the calls that are waiting.                    *)
(*                                                                         *)
(* JavaScript runs one task at a time, so what happens between two awaits  *)
(* of an external event is one action.  Delays and tokens are left out:    *)
(* a timer may fire at any time.                                           *)
(*                                                                         *)
(* An operator right above another, with a longer name and the same        *)
(* parameters, is a mutant of it: a slip the properties must notice.       *)
(***************************************************************************)
EXTENDS Naturals, Sequences, FiniteSets

CONSTANTS
    Calls,          \* the generate() calls
    Concurrency,    \* options.concurrency of the ResilienceManager
    MaxRetries,     \* options.maxRetries
    MaxRepairs      \* maxRepairTurns

ASSUME ClientAssumption ==
    /\ Concurrency \in Nat \ {0}
    /\ MaxRetries \in Nat
    /\ MaxRepairs \in Nat
    /\ IsFiniteSet(Calls)

VARIABLES
    hasKey,     \* an API key is configured
    aborted,    \* callerSignal.aborted
    phase,      \* where each call stands
    queue,      \* the waiting calls of the pool, first in first out
    attempt,    \* the local `attempt` of runWithRetry
    repairs,    \* the local `repairAttempts` of generate
    timedOut,   \* timeoutSignal.aborted of the request in flight
    requests,   \* history: HTTP requests the call has sent
    result      \* how generate() settled

vars == <<hasKey, aborted, phase, queue, attempt, repairs, timedOut,
          requests, result>>

Phases == {"idle", "preparing", "queued", "request", "backoff", "done"}

(* What makes one request fail: 401/403, 429, 5xx or no answer at all, the *)
(* same with an error text that contains "aborted", and any other status.  *)
Errors    == {"auth", "rateLimit", "server", "serverSaysAborted", "client"}
Retryable == {"rateLimit", "server", "serverSaysAborted"}
Results   == {"none", "ok", "auth", "timeout", "rateLimit", "model",
              "modelSaysAborted", "validation", "aborted"}

(* The calls that hold a slot of the pool (activeCount of p-limit). *)
Active == {c \in Calls : phase[c] \in {"request", "backoff"}}

(* The retry loop nests in the repair loop. *)
RequestBudget == (MaxRepairs + 1) * (MaxRetries + 1)

TypeOK ==
    /\ hasKey \in BOOLEAN
    /\ aborted \in BOOLEAN
    /\ phase \in [Calls -> Phases]
    /\ queue \in Seq(Calls)
    /\ attempt \in [Calls -> 0..MaxRetries]
    /\ repairs \in [Calls -> 0..MaxRepairs]
    /\ timedOut \in [Calls -> BOOLEAN]
    /\ requests \in [Calls -> 0..RequestBudget]
    /\ result \in [Calls -> Results]

Init ==
    /\ hasKey \in BOOLEAN
    /\ aborted = FALSE
    /\ phase = [c \in Calls |-> "idle"]
    /\ queue = << >>
    /\ attempt = [c \in Calls |-> 0]
    /\ repairs = [c \in Calls |-> 0]
    /\ timedOut = [c \in Calls |-> FALSE]
    /\ requests = [c \in Calls |-> 0]
    /\ result = [c \in Calls |-> "none"]

(* generate() returns or throws; a slot it holds is free again. *)
Finish(c, r) ==
    /\ phase' = [phase EXCEPT ![c] = "done"]
    /\ result' = [result EXCEPT ![c] = r]

(* executeWithRetry() enters the pool: the call waits behind the others. *)
JoinQueue(c) ==
    /\ phase' = [phase EXCEPT ![c] = "queued"]
    /\ queue' = Append(queue, c)

(* generate() is called: without a key it throws at once, otherwise it     *)
(* awaits its prompt template.                                             *)
Generate(c) ==
    /\ phase[c] = "idle"
    /\ IF hasKey
       THEN /\ phase' = [phase EXCEPT ![c] = "preparing"]
            /\ UNCHANGED result
       ELSE Finish(c, "auth")
    /\ UNCHANGED <<hasKey, aborted, queue, attempt, repairs, timedOut, requests>>

(* The template is loaded and the first turn starts. *)
Enqueue(c) ==
    /\ phase[c] = "preparing"
    /\ JoinQueue(c)
    /\ UNCHANGED <<hasKey, aborted, attempt, repairs, timedOut,
                   requests, result>>

(* The check at the top of the loop of runWithRetry. *)
MayProceedAlways == TRUE
MayProceed == ~aborted

(* One pass of that loop up to its await: a fresh timeout signal and a     *)
(* fetch, unless the caller has aborted.                                   *)
SendRequest(c) ==
    IF MayProceed
    THEN /\ phase' = [phase EXCEPT ![c] = "request"]
         /\ timedOut' = [timedOut EXCEPT ![c] = FALSE]
         /\ requests' = [requests EXCEPT ![c] = @ + 1]
         /\ UNCHANGED result
    ELSE /\ Finish(c, "aborted")
         /\ UNCHANGED <<timedOut, requests>>

(* p-limit starts a waiting function only below its limit. *)
SlotFree == Cardinality(Active) < Concurrency

(* The pool gives a free slot to the call that has waited longest. *)
Admit(c) ==
    /\ queue # << >> /\ c = Head(queue)
    /\ SlotFree
    /\ queue' = Tail(queue)
    /\ attempt' = [attempt EXCEPT ![c] = 0]
    /\ SendRequest(c)
    /\ UNCHANGED <<hasKey, aborted, repairs>>

(* Every pass of the loop arms its own AbortSignal.timeout. *)
TimerArmedOnce(c) == phase[c] = "request" /\ attempt[c] = 0 /\ ~timedOut[c]
TimerArmed(c) == phase[c] = "request" /\ ~timedOut[c]

TimeoutFires(c) ==
    /\ TimerArmed(c)
    /\ timedOut' = [timedOut EXCEPT ![c] = TRUE]
    /\ UNCHANGED <<hasKey, aborted, phase, queue, attempt, repairs,
                   requests, result>>

(* A completion arrives and passes the schema: generate() returns. *)
RespondValid(c) ==
    /\ phase[c] = "request"
    /\ Finish(c, "ok")
    /\ UNCHANGED <<hasKey, aborted, queue, attempt, repairs, timedOut, requests>>

(* A completion arrives that is not JSON or fails the schema: a repair     *)
(* turn joins the queue, or generate() throws a ValidationError.           *)
RespondInvalid(c) ==
    /\ phase[c] = "request"
    /\ IF repairs[c] < MaxRepairs
       THEN /\ repairs' = [repairs EXCEPT ![c] = @ + 1]
            /\ JoinQueue(c)
            /\ UNCHANGED result
       ELSE /\ Finish(c, "validation")
            /\ UNCHANGED <<repairs, queue>>
    /\ UNCHANGED <<hasKey, aborted, attempt, timedOut, requests>>

(* The error runWithRetry throws when it gives up after error e. *)
ThrownFor(e) ==
    CASE e = "rateLimit"         -> "rateLimit"
      [] e = "auth"              -> "auth"
      [] e = "serverSaysAborted" -> "modelSaysAborted"
      [] OTHER                   -> "model"

(* What the catch clause of runWithRetry decides, in its order: caller     *)
(* abort, request timeout, then retry or give up.                          *)
VerdictTimeoutFirst(c, e) ==
    IF timedOut[c] THEN "timeout" ELSE IF aborted THEN "aborted" ELSE ThrownFor(e)
VerdictTimeoutAsAbort(c, e) ==
    IF aborted \/ timedOut[c] THEN "aborted" ELSE ThrownFor(e)
Verdict(c, e) ==
    IF aborted THEN "aborted"
    ELSE IF timedOut[c] THEN "timeout"
    ELSE IF e \in Retryable /\ attempt[c] < MaxRetries THEN "retry"
    ELSE ThrownFor(e)

(* A request fails with an error of class e. *)
Fail(c, e) ==
    /\ phase[c] = "request"
    /\ IF Verdict(c, e) = "retry"
       THEN /\ attempt' = [attempt EXCEPT ![c] = @ + 1]
            /\ phase' = [phase EXCEPT ![c] = "backoff"]
            /\ UNCHANGED result
       ELSE Finish(c, Verdict(c, e)) /\ UNCHANGED attempt
    /\ UNCHANGED <<hasKey, aborted, queue, repairs, timedOut, requests>>

(* sleep() resolves and the loop goes round. *)
Wake(c) ==
    /\ phase[c] = "backoff"
    /\ ~aborted
    /\ SendRequest(c)
    /\ UNCHANGED <<hasKey, aborted, queue, attempt, repairs>>

(* onAbort of sleep() has cleared the timer and rejects. *)
AbortSleep(c) ==
    /\ phase[c] = "backoff"
    /\ aborted
    /\ Finish(c, "aborted")
    /\ UNCHANGED <<hasKey, aborted, queue, attempt, repairs, timedOut, requests>>

(* The caller aborts. *)
Abort ==
    /\ ~aborted
    /\ aborted' = TRUE
    /\ UNCHANGED <<hasKey, phase, queue, attempt, repairs, timedOut,
                   requests, result>>

Next ==
    \/ Abort
    \/ \E c \in Calls :
          \/ Generate(c)
          \/ Enqueue(c)
          \/ Admit(c)
          \/ TimeoutFires(c)
          \/ RespondValid(c)
          \/ RespondInvalid(c)
          \/ \E e \in Errors : Fail(c, e)
          \/ Wake(c)
          \/ AbortSleep(c)

(* A request whose signal has fired is rejected by fetch. *)
Signalled(c) == timedOut[c] \/ aborted

(* The template read ends, the pool serves its queue, timers fire, and a   *)
(* signalled fetch rejects.  Nothing is assumed of the provider: it need   *)
(* never answer.                                                           *)
Fairness ==
    \A c \in Calls :
        /\ WF_vars(Enqueue(c))
        /\ WF_vars(Admit(c))
        /\ WF_vars(TimeoutFires(c))
        /\ WF_vars(Signalled(c) /\ \E e \in Errors : Fail(c, e))
        /\ WF_vars(Wake(c) \/ AbortSleep(c))

Spec == Init /\ [][Next]_vars /\ Fairness

-----------------------------------------------------------------------------
(* Action property: a request is sent only while the caller has not aborted *)
(* and the call has requests left, be it by a queued call, a sleeping one   *)
(* or a repair turn: retries nested in repair turns multiply no further.    *)
RequestsStayInBounds ==
    [][\A c \in Calls : requests'[c] # requests[c]
         => ~aborted /\ requests[c] < RequestBudget /\ requests'[c] = requests[c] + 1]_vars

(* Action property: a call that settles after the abort is never reported   *)
(* as a fault of the provider (a timeout, a rate limit, a refused key, a    *)
(* model error), whatever its request ended with.                           *)
AbortIsNotAProviderFault ==
    [][\A c \in Calls :
         aborted /\ hasKey /\ result[c] = "none" /\ result'[c] # "none"
            => result'[c] \in {"aborted", "ok", "validation"}]_vars

(* Liveness: every call that was made settles, even if the provider never   *)
(* answers, and even though a slot is held during every backoff.            *)
EveryCallSettles ==
    \A c \in Calls : phase[c] = "preparing" ~> phase[c] = "done"

-----------------------------------------------------------------------------
(* Refinement: what generate() promises to its callers. *)
CallState(c) ==
    IF phase[c] = "idle" THEN "idle"
    ELSE IF phase[c] # "done" THEN "pending"
    ELSE CASE result[c] = "ok"               -> "ok"
           [] result[c] = "aborted"          -> "aborted"
           [] result[c] = "modelSaysAborted" -> "failedSaysAborted"
           [] OTHER                          -> "failed"

calls == INSTANCE ModelCalls WITH settled <- [c \in Calls |-> CallState(c)]

(* The client implements the interface the review DAG is written against.   *)
ImplementsModelCalls == calls!CallsSpec
=============================================================================
