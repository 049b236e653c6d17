-------------------------- MODULE ModelClientProofs -------------------------
(***************************************************************************)
(* Proofs about the model client, for any number of calls, pool slots,     *)
(* retries and repair turns.                                               *)
(***************************************************************************)
EXTENDS ModelClient, TLAPS

(* The requests that r whole turns of the repair loop may send. *)
Turns(r) == r * (MaxRetries + 1)

(* The types, without the bound on requests that is to be shown. *)
Types ==
    /\ hasKey \in BOOLEAN /\ aborted \in BOOLEAN
    /\ phase \in [Calls -> Phases]
    /\ queue \in Seq(Calls)
    /\ attempt \in [Calls -> 0..MaxRetries]
    /\ repairs \in [Calls -> 0..MaxRepairs]
    /\ timedOut \in [Calls -> BOOLEAN]
    /\ requests \in [Calls -> Nat]
    /\ result \in [Calls -> Results]

(* Only waiting calls are in the queue, each of them once. *)
QueueFits ==
    /\ \A i \in 1..Len(queue) : phase[queue[i]] = "queued"
    /\ \A i, j \in 1..Len(queue) : queue[i] = queue[j] => i = j

(* What a call has sent is what its turns so far allow. *)
Sent(c) ==
    /\ phase[c] \in {"idle", "preparing"} => requests[c] = 0
    /\ phase[c] = "queued" => requests[c] <= Turns(repairs[c])
    /\ phase[c] = "request" => requests[c] <= Turns(repairs[c]) + attempt[c] + 1
    /\ phase[c] = "backoff" => requests[c] <= Turns(repairs[c]) + attempt[c]
    /\ requests[c] <= RequestBudget

IInv == Types /\ QueueFits /\ \A c \in Calls : Sent(c)

(* One turn more is MaxRetries + 1 requests more, and the last turn that is *)
(* allowed ends at the budget.                                              *)
LEMMA TurnsGrow ==
    ASSUME NEW r \in Nat
    PROVE  /\ Turns(r) \in Nat
           /\ Turns(r + 1) = Turns(r) + MaxRetries + 1
BY ClientAssumption, SMTT(30) DEF Turns

LEMMA TurnsWithinBudget ==
    ASSUME NEW r \in 0..MaxRepairs
    PROVE  Turns(r) \in Nat /\ RequestBudget \in Nat
           /\ Turns(r) + MaxRetries + 1 <= RequestBudget
<1>1. MaxRetries \in Nat /\ MaxRepairs \in Nat /\ r \in Nat /\ r <= MaxRepairs
  BY ClientAssumption
<1>2. PICK d \in Nat : MaxRepairs = r + d
  <2>1. MaxRepairs - r \in Nat /\ MaxRepairs = r + (MaxRepairs - r)
    BY <1>1
  <2> QED
    BY <2>1
<1>3. (r + d + 1) * (MaxRetries + 1) = r * (MaxRetries + 1) + (d * (MaxRetries + 1)) + MaxRetries + 1
  BY <1>1, SMTT(30)
<1>4. d * (MaxRetries + 1) \in Nat /\ r * (MaxRetries + 1) \in Nat
  BY <1>1
<1>5. RequestBudget = (r + d + 1) * (MaxRetries + 1)
  BY <1>1, <1>2 DEF RequestBudget
<1> QED
  BY <1>1, <1>3, <1>4, <1>5 DEF Turns

(* A call at the end of the queue, or the head leaving it, keeps the queue  *)
(* in order.                                                                *)
LEMMA AppendKeepsQueue ==
    ASSUME Types, QueueFits, NEW c \in Calls, phase[c] # "queued", JoinQueue(c)
    PROVE  queue' \in Seq(Calls) /\ QueueFits'
<1>1. /\ queue \in Seq(Calls) /\ queue' = Append(queue, c)
      /\ phase' = [phase EXCEPT ![c] = "queued"] /\ phase \in [Calls -> Phases]
  BY DEF Types, JoinQueue
<1>2. Len(queue') = Len(queue) + 1 /\ queue'[Len(queue) + 1] = c
      /\ \A i \in 1..Len(queue) : queue'[i] = queue[i] /\ queue[i] \in Calls /\ queue[i] # c
  BY <1>1 DEF QueueFits
<1>3. Len(queue) \in Nat
  BY <1>1
<1>4. ASSUME NEW i \in 1..Len(queue') PROVE i \in 1..Len(queue) \/ i = Len(queue) + 1
  BY <1>2, <1>3
<1>5. \A i \in 1..Len(queue') : phase'[queue'[i]] = "queued"
  BY <1>1, <1>2, <1>4 DEF QueueFits
<1>6. \A i, j \in 1..Len(queue') : queue'[i] = queue'[j] => i = j
  BY <1>2, <1>4 DEF QueueFits
<1> QED
  BY <1>1, <1>5, <1>6 DEF QueueFits

LEMMA TailKeepsQueue ==
    ASSUME Types, QueueFits, queue # << >>, queue' = Tail(queue),
           \A d \in Calls : d # Head(queue) => phase'[d] = phase[d]
    PROVE  queue' \in Seq(Calls) /\ QueueFits' /\ phase[Head(queue)] = "queued"
<1>1. queue \in Seq(Calls) /\ Len(queue) \in Nat \ {0}
  BY DEF Types
<1>2. /\ queue' \in Seq(Calls) /\ Len(queue') = Len(queue) - 1
      /\ \A i \in 1..Len(queue') : queue'[i] = queue[i + 1]
      /\ Head(queue) = queue[1]
  BY <1>1
<1>3. ASSUME NEW i \in 1..Len(queue')
      PROVE  /\ i + 1 \in 1..Len(queue) /\ queue'[i] \in Calls
             /\ queue'[i] # Head(queue) /\ phase[queue'[i]] = "queued"
  <2>1. i + 1 \in 1..Len(queue) /\ 1 \in 1..Len(queue) /\ i + 1 # 1
    BY <1>1, <1>2
  <2> QED
    BY <1>1, <1>2, <2>1 DEF QueueFits
<1>4. \A i \in 1..Len(queue') : phase'[queue'[i]] = "queued"
  BY <1>3
<1>5. ASSUME NEW i \in 1..Len(queue'), NEW j \in 1..Len(queue'), queue'[i] = queue'[j]
      PROVE  i = j
  <2>1. i + 1 = j + 1
    BY <1>2, <1>3, <1>5 DEF QueueFits
  <2> QED
    BY <2>1
<1>6. phase[Head(queue)] = "queued"
  BY <1>1, <1>2 DEF QueueFits
<1> QED
  BY <1>2, <1>4, <1>5, <1>6 DEF QueueFits

(* A step of one call keeps what holds of the others.                       *)
Touches(c) ==
    \A d \in Calls \ {c} :
        /\ phase'[d] = phase[d] /\ attempt'[d] = attempt[d]
        /\ repairs'[d] = repairs[d] /\ requests'[d] = requests[d]

LEMMA OneCallSteps ==
    ASSUME IInv, NEW c \in Calls, Touches(c), Sent(c)'
    PROVE  \A d \in Calls : Sent(d)'
<1> SUFFICES ASSUME NEW d \in Calls, d # c PROVE Sent(d)'
  OBVIOUS
<1>1. Sent(d)
  BY DEF IInv
<1> QED
  BY <1>1 DEF Touches, Sent, Turns, RequestBudget

(* A call that leaves the queue alone and was not waiting, or stays put,    *)
(* keeps the queue in order.                                                *)
LEMMA SameQueue ==
    ASSUME Types, QueueFits, UNCHANGED queue, NEW c \in Calls, phase[c] # "queued",
           \A d \in Calls \ {c} : phase'[d] = phase[d]
    PROVE  QueueFits'
<1>1. \A i \in 1..Len(queue) : queue[i] \in Calls /\ queue[i] # c
  BY DEF Types, QueueFits
<1> QED
  BY <1>1 DEF QueueFits

(* A request is sent by a call that has some left.                          *)
LEMMA SendKeepsSent ==
    ASSUME IInv, NEW c \in Calls, SendRequest(c), repairs' = repairs,
           attempt'[c] \in 0..MaxRetries,
           requests[c] <= Turns(repairs[c]) + attempt'[c]
    PROVE  Sent(c)' /\ requests' \in [Calls -> Nat] /\ timedOut' \in [Calls -> BOOLEAN]
           /\ phase' \in [Calls -> Phases] /\ result' \in [Calls -> Results]
           /\ \A d \in Calls \ {c} : phase'[d] = phase[d] /\ requests'[d] = requests[d]
<1>1. /\ phase \in [Calls -> Phases] /\ requests \in [Calls -> Nat] /\ repairs[c] \in 0..MaxRepairs
      /\ timedOut \in [Calls -> BOOLEAN] /\ result \in [Calls -> Results]
      /\ MaxRetries \in Nat
  BY ClientAssumption DEF IInv, Types
<1>2. Turns(repairs[c]) \in Nat /\ Turns(repairs[c]) + MaxRetries + 1 <= RequestBudget
      /\ RequestBudget \in Nat
  BY <1>1, TurnsWithinBudget
<1>3. CASE MayProceed
  <2>1. /\ phase' = [phase EXCEPT ![c] = "request"]
        /\ timedOut' = [timedOut EXCEPT ![c] = FALSE]
        /\ requests' = [requests EXCEPT ![c] = @ + 1] /\ result' = result
    BY <1>3 DEF SendRequest
  <2>2. requests'[c] = requests[c] + 1 /\ requests[c] \in Nat /\ phase'[c] = "request"
    BY <1>1, <2>1
  <2>3. requests'[c] <= Turns(repairs[c]) + attempt'[c] + 1 /\ requests'[c] <= RequestBudget
    BY <1>1, <1>2, <2>2
  <2>4. Turns(repairs[c])' = Turns(repairs[c]) /\ RequestBudget' = RequestBudget
    BY DEF Turns, RequestBudget
  <2>5. Sent(c)'
    BY <2>2, <2>3, <2>4 DEF Sent
  <2> QED
    BY <1>1, <2>1, <2>5 DEF Phases
<1>4. CASE ~MayProceed
  <2>1. /\ phase' = [phase EXCEPT ![c] = "done"] /\ result' = [result EXCEPT ![c] = "aborted"]
        /\ timedOut' = timedOut /\ requests' = requests
    BY <1>4 DEF SendRequest, Finish
  <2>2. Sent(c)'
    BY <1>1, <2>1 DEF Sent, IInv, RequestBudget
  <2> QED
    BY <1>1, <2>1, <2>2 DEF Phases, Results
<1> QED
  BY <1>3, <1>4

(* Admit: the head of the queue starts its turn.                            *)
LEMMA AdmitKeepsIInv ==
    ASSUME IInv, NEW c \in Calls, Admit(c)
    PROVE  IInv'
<1>1. /\ Types /\ QueueFits /\ Sent(c) /\ queue # << >> /\ c = Head(queue)
      /\ queue' = Tail(queue) /\ attempt' = [attempt EXCEPT ![c] = 0]
      /\ SendRequest(c) /\ UNCHANGED <<hasKey, aborted, repairs>>
  BY DEF IInv, Admit
<1>2. \A d \in Calls : d # c => phase'[d] = phase[d] /\ requests'[d] = requests[d]
  BY <1>1 DEF SendRequest, Finish, Types
<1>3. queue' \in Seq(Calls) /\ QueueFits' /\ phase[c] = "queued"
  BY <1>1, <1>2, TailKeepsQueue
<1>4. attempt' \in [Calls -> 0..MaxRetries] /\ attempt'[c] = 0
  BY <1>1, ClientAssumption DEF Types
<1>5. requests[c] <= Turns(repairs[c]) + attempt'[c]
  <2>1. requests[c] <= Turns(repairs[c])
    BY <1>1, <1>3 DEF Sent
  <2>2. Turns(repairs[c]) \in Nat /\ requests[c] \in Nat
    BY <1>1, TurnsWithinBudget DEF Types
  <2> QED
    BY <1>4, <2>1, <2>2
<1>6. /\ Sent(c)' /\ requests' \in [Calls -> Nat] /\ timedOut' \in [Calls -> BOOLEAN]
      /\ phase' \in [Calls -> Phases] /\ result' \in [Calls -> Results]
  BY <1>1, <1>4, <1>5, SendKeepsSent
<1>7. Touches(c)
  BY <1>1, <1>2 DEF Touches, Types
<1>8. \A d \in Calls : Sent(d)'
  BY <1>6, <1>7, OneCallSteps
<1>9. Types'
  BY <1>1, <1>3, <1>4, <1>6 DEF Types
<1> QED
  BY <1>3, <1>8, <1>9 DEF IInv

LEMMA WakeKeepsIInv ==
    ASSUME IInv, NEW c \in Calls, Wake(c)
    PROVE  IInv'
<1>1. /\ Types /\ QueueFits /\ Sent(c) /\ phase[c] = "backoff" /\ SendRequest(c)
      /\ UNCHANGED <<hasKey, aborted, queue, attempt, repairs>>
  BY DEF IInv, Wake
<1>2. requests[c] <= Turns(repairs[c]) + attempt'[c] /\ attempt'[c] \in 0..MaxRetries
  BY <1>1 DEF Sent, Types
<1>3. /\ Sent(c)' /\ requests' \in [Calls -> Nat] /\ timedOut' \in [Calls -> BOOLEAN]
      /\ phase' \in [Calls -> Phases] /\ result' \in [Calls -> Results]
      /\ \A d \in Calls \ {c} : phase'[d] = phase[d] /\ requests'[d] = requests[d]
  BY <1>1, <1>2, SendKeepsSent
<1>4. \A d \in Calls : Sent(d)'
  BY <1>1, <1>3, OneCallSteps DEF Touches
<1>5. QueueFits'
  BY <1>1, <1>3, SameQueue
<1> QED
  BY <1>1, <1>3, <1>4, <1>5 DEF IInv, Types

(* The template has been read, or an answer was no good and the call may    *)
(* repair it: the call joins the queue.                                     *)
LEMMA JoiningKeepsIInv ==
    ASSUME IInv, NEW c \in Calls, JoinQueue(c), phase[c] # "queued",
           repairs' \in [Calls -> 0..MaxRepairs],
           \A d \in Calls \ {c} : repairs'[d] = repairs[d],
           requests[c] <= Turns(repairs'[c]),
           UNCHANGED <<hasKey, aborted, attempt, timedOut, requests, result>>
    PROVE  IInv'
<1>1. Types /\ QueueFits /\ Sent(c) /\ phase' = [phase EXCEPT ![c] = "queued"]
  BY DEF IInv, JoinQueue
<1>2. queue' \in Seq(Calls) /\ QueueFits'
  BY <1>1, AppendKeepsQueue
<1>3. phase' \in [Calls -> Phases] /\ phase'[c] = "queued"
      /\ \A d \in Calls \ {c} : phase'[d] = phase[d]
  BY <1>1 DEF Types, Phases
<1>4. Sent(c)'
  <2>1. Turns(repairs[c])' = Turns(repairs'[c]) /\ RequestBudget' = RequestBudget
    BY DEF Turns, RequestBudget
  <2> QED
    BY <1>1, <1>3, <2>1 DEF Sent
<1>5. \A d \in Calls : Sent(d)'
  BY <1>3, <1>4, OneCallSteps DEF Touches
<1>6. Types'
  BY <1>1, <1>2, <1>3 DEF Types
<1> QED
  BY <1>2, <1>5, <1>6 DEF IInv

(* A step of one call that neither waits before it nor sends anything.      *)
LEMMA QuietStepKeepsIInv ==
    ASSUME IInv, NEW c \in Calls, phase[c] \notin {"queued", "done"},
           UNCHANGED <<queue, requests, repairs>>, Types',
           \A d \in Calls \ {c} : phase'[d] = phase[d] /\ attempt'[d] = attempt[d],
           \/ phase'[c] = "done"
           \/ phase[c] = "idle" /\ phase'[c] = "preparing"
           \/ phase'[c] = phase[c] /\ attempt'[c] = attempt[c]
           \/ phase[c] = "request" /\ phase'[c] = "backoff" /\ attempt'[c] = attempt[c] + 1
    PROVE  IInv'
<1>1. Types /\ QueueFits /\ Sent(c)
  BY DEF IInv
<1>2. Turns(repairs[c])' = Turns(repairs[c]) /\ RequestBudget' = RequestBudget
      /\ Turns(repairs[c]) \in Nat /\ attempt[c] \in Nat /\ requests[c] \in Nat
  BY <1>1, TurnsWithinBudget DEF Turns, RequestBudget, Types
<1>3. Sent(c)'
  BY <1>1, <1>2 DEF Sent
<1>4. \A d \in Calls : Sent(d)'
  BY <1>3, OneCallSteps DEF Touches
<1>5. QueueFits'
  BY <1>1, SameQueue
<1> QED
  BY <1>4, <1>5 DEF IInv

LEMMA RespondInvalidKeepsIInv ==
    ASSUME IInv, NEW c \in Calls, RespondInvalid(c)
    PROVE  IInv'
<1>1. /\ Types /\ QueueFits /\ Sent(c) /\ phase[c] = "request"
      /\ UNCHANGED <<hasKey, aborted, attempt, timedOut, requests>>
  BY DEF IInv, RespondInvalid
<1>2. CASE repairs[c] < MaxRepairs
  <2>1. /\ repairs' = [repairs EXCEPT ![c] = @ + 1] /\ JoinQueue(c) /\ UNCHANGED result
    BY <1>2 DEF RespondInvalid
  <2>2. repairs[c] \in 0..MaxRepairs /\ repairs[c] + 1 \in 0..MaxRepairs
    BY <1>1, <1>2, ClientAssumption DEF Types
  <2>3. repairs' \in [Calls -> 0..MaxRepairs] /\ repairs'[c] = repairs[c] + 1
        /\ \A d \in Calls \ {c} : repairs'[d] = repairs[d]
    BY <1>1, <2>1, <2>2 DEF Types
  <2>4. requests[c] <= Turns(repairs'[c])
    <3>1. Turns(repairs[c] + 1) = Turns(repairs[c]) + MaxRetries + 1 /\ Turns(repairs[c]) \in Nat
      BY <2>2, TurnsGrow, ClientAssumption
    <3>2. requests[c] <= Turns(repairs[c]) + attempt[c] + 1 /\ attempt[c] \in 0..MaxRetries
          /\ requests[c] \in Nat
      BY <1>1 DEF Sent, Types
    <3> QED
      BY <2>3, <3>1, <3>2, ClientAssumption
  <2> QED
    BY <1>1, <2>1, <2>3, <2>4, JoiningKeepsIInv
<1>3. CASE ~(repairs[c] < MaxRepairs)
  <2>1. Finish(c, "validation") /\ UNCHANGED <<repairs, queue>>
    BY <1>3 DEF RespondInvalid
  <2>2. Types' /\ phase'[c] = "done" /\ \A d \in Calls \ {c} : phase'[d] = phase[d]
    BY <1>1, <2>1 DEF Finish, Types, Phases, Results
  <2> QED
    BY <1>1, <2>1, <2>2, QuietStepKeepsIInv
<1> QED
  BY <1>2, <1>3

LEMMA FailKeepsIInv ==
    ASSUME IInv, NEW c \in Calls, NEW e \in Errors, Fail(c, e)
    PROVE  IInv'
<1>1. /\ Types /\ phase[c] = "request"
      /\ UNCHANGED <<hasKey, aborted, queue, repairs, timedOut, requests>>
  BY DEF IInv, Fail
<1>2. CASE Verdict(c, e) = "retry"
  <2>1. /\ attempt' = [attempt EXCEPT ![c] = @ + 1]
        /\ phase' = [phase EXCEPT ![c] = "backoff"] /\ UNCHANGED result
    BY <1>2 DEF Fail
  <2>2. attempt[c] < MaxRetries
    BY <1>2 DEF Verdict, ThrownFor
  <2>3. Types' /\ phase'[c] = "backoff" /\ attempt'[c] = attempt[c] + 1
        /\ \A d \in Calls \ {c} : phase'[d] = phase[d] /\ attempt'[d] = attempt[d]
    <3>1. attempt[c] + 1 \in 0..MaxRetries
      BY <1>1, <2>2, ClientAssumption DEF Types
    <3> QED
      BY <1>1, <2>1, <3>1 DEF Types, Phases
  <2> QED
    BY <1>1, <2>3, QuietStepKeepsIInv
<1>3. CASE Verdict(c, e) # "retry"
  <2>1. Finish(c, Verdict(c, e)) /\ UNCHANGED attempt
    BY <1>3 DEF Fail
  <2>2. Verdict(c, e) \in Results
    BY <1>3 DEF Verdict, ThrownFor, Results
  <2>3. Types' /\ phase'[c] = "done" /\ \A d \in Calls \ {c} : phase'[d] = phase[d]
    BY <1>1, <2>1, <2>2 DEF Finish, Types, Phases
  <2> QED
    BY <1>1, <2>1, <2>3, QuietStepKeepsIInv
<1> QED
  BY <1>2, <1>3

LEMMA InitEstablishesIInv == Init => IInv
<1> SUFFICES ASSUME Init PROVE IInv
  OBVIOUS
<1>1. Types
  <2>1. hasKey \in BOOLEAN /\ aborted \in BOOLEAN
    BY Zenon DEF Init
  <2>2. /\ phase \in [Calls -> Phases] /\ queue \in Seq(Calls)
        /\ attempt \in [Calls -> 0..MaxRetries] /\ repairs \in [Calls -> 0..MaxRepairs]
        /\ timedOut \in [Calls -> BOOLEAN] /\ requests \in [Calls -> Nat]
        /\ result \in [Calls -> Results]
    BY ClientAssumption DEF Init, Phases, Results
  <2> QED
    BY <2>1, <2>2 DEF Types
<1>2. QueueFits
  BY DEF Init, QueueFits
<1>3. RequestBudget \in Nat
  BY TurnsWithinBudget, ClientAssumption
<1>4. ASSUME NEW c \in Calls PROVE Sent(c)
  BY <1>3 DEF Init, Sent
<1> QED
  BY <1>1, <1>2, <1>4 DEF IInv

LEMMA NextKeepsIInv == IInv /\ [Next]_vars => IInv'
<1> SUFFICES ASSUME IInv, [Next]_vars PROVE IInv'
  OBVIOUS
<1>1. ASSUME UNCHANGED <<phase, queue, attempt, repairs, requests>>, Types'
      PROVE  IInv'
  <2>1. QueueFits'
    BY <1>1 DEF IInv, QueueFits
  <2>2. ASSUME NEW c \in Calls PROVE Sent(c)'
    <3>1. Sent(c)
      BY DEF IInv
    <3> QED
      BY <1>1, <3>1 DEF Sent, Turns, RequestBudget
  <2> QED
    BY <1>1, <2>1, <2>2 DEF IInv
<1>2. CASE Abort
  BY <1>1, <1>2 DEF Abort, IInv, Types
<1>3. CASE UNCHANGED vars
  BY <1>1, <1>3 DEF vars, IInv, Types
<1>4. ASSUME NEW c \in Calls, Generate(c) PROVE IInv'
  <2>1. /\ Types /\ phase[c] = "idle"
        /\ UNCHANGED <<hasKey, aborted, queue, attempt, repairs, timedOut, requests>>
    BY <1>4 DEF IInv, Generate
  <2>2. CASE hasKey
    BY <1>4, <2>1, <2>2, QuietStepKeepsIInv DEF Generate, Types, Phases
  <2>3. CASE ~hasKey
    <3>1. Finish(c, "auth")
      BY <1>4, <2>3 DEF Generate
    <3>2. Types' /\ phase'[c] = "done" /\ \A d \in Calls \ {c} : phase'[d] = phase[d]
      BY <2>1, <3>1 DEF Finish, Types, Phases, Results
    <3> QED
      BY <2>1, <3>2, QuietStepKeepsIInv
  <2> QED
    BY <2>2, <2>3
<1>5. ASSUME NEW c \in Calls, Enqueue(c) PROVE IInv'
  <2>1. /\ Types /\ Sent(c) /\ phase[c] = "preparing" /\ JoinQueue(c)
        /\ UNCHANGED <<hasKey, aborted, attempt, repairs, timedOut, requests, result>>
    BY <1>5 DEF IInv, Enqueue
  <2>2. requests[c] <= Turns(repairs'[c])
    BY <2>1, TurnsWithinBudget DEF Sent, Types
  <2> QED
    BY <2>1, <2>2, JoiningKeepsIInv DEF Types
<1>6. ASSUME NEW c \in Calls, Admit(c) PROVE IInv'
  BY <1>6, AdmitKeepsIInv
<1>7. ASSUME NEW c \in Calls, TimeoutFires(c) PROVE IInv'
  BY <1>1, <1>7 DEF TimeoutFires, IInv, Types
<1>8. ASSUME NEW c \in Calls, RespondValid(c) PROVE IInv'
  <2>1. /\ Types /\ phase[c] = "request" /\ Finish(c, "ok")
        /\ UNCHANGED <<hasKey, aborted, queue, attempt, repairs, timedOut, requests>>
    BY <1>8 DEF IInv, RespondValid
  <2> QED
    BY <2>1, QuietStepKeepsIInv DEF Finish, Types, Phases, Results
<1>9. ASSUME NEW c \in Calls, RespondInvalid(c) PROVE IInv'
  BY <1>9, RespondInvalidKeepsIInv
<1>10. ASSUME NEW c \in Calls, NEW e \in Errors, Fail(c, e) PROVE IInv'
  BY <1>10, FailKeepsIInv
<1>11. ASSUME NEW c \in Calls, Wake(c) PROVE IInv'
  BY <1>11, WakeKeepsIInv
<1>12. ASSUME NEW c \in Calls, AbortSleep(c) PROVE IInv'
  <2>1. /\ Types /\ phase[c] = "backoff" /\ Finish(c, "aborted")
        /\ UNCHANGED <<hasKey, aborted, queue, attempt, repairs, timedOut, requests>>
    BY <1>12 DEF IInv, AbortSleep
  <2> QED
    BY <2>1, QuietStepKeepsIInv DEF Finish, Types, Phases, Results
<1> QED
  BY <1>2, <1>3, <1>4, <1>5, <1>6, <1>7, <1>8, <1>9, <1>10, <1>11, <1>12 DEF Next

LEMMA InductiveInvariant == Spec => []IInv
BY InitEstablishesIInv, NextKeepsIInv, PTL DEF Spec

-----------------------------------------------------------------------------
(* The variables of the client keep their types, and no call ever sends     *)
(* more requests than its retries and repair turns allow.                   *)
THEOREM TypeCorrect == Spec => []TypeOK
<1>1. IInv => TypeOK
  <2> SUFFICES ASSUME IInv PROVE TypeOK
    OBVIOUS
  <2>1. RequestBudget \in Nat
    BY TurnsWithinBudget, ClientAssumption
  <2>2. \A c \in Calls : requests[c] \in 0..RequestBudget
    BY <2>1 DEF IInv, Sent, Types
  <2> QED
    BY <2>2 DEF IInv, Types, TypeOK
<1> QED
  BY <1>1, InductiveInvariant, PTL

(* What a step sends: one request of one call, before the abort.            *)
LEMMA SendingStep ==
    ASSUME IInv, [Next]_vars, NEW c \in Calls, requests'[c] # requests[c]
    PROVE  ~aborted /\ requests[c] < RequestBudget /\ requests'[c] = requests[c] + 1
<1>1. PICK d \in Calls : Admit(d) \/ Wake(d)
  BY DEF Next, vars, Abort, Generate, Enqueue, TimeoutFires, RespondValid, RespondInvalid,
         Fail, AbortSleep
<1>2. Types /\ QueueFits /\ Sent(d) /\ SendRequest(d) /\ repairs' = repairs
  BY <1>1 DEF IInv, Admit, Wake
<1>3. /\ d = c /\ ~aborted /\ requests'[c] = requests[c] + 1
  BY <1>2 DEF SendRequest, MayProceed, Finish, Types
<1>4. /\ Turns(repairs[c]) \in Nat /\ RequestBudget \in Nat /\ requests[c] \in Nat
      /\ attempt[c] \in 0..MaxRetries /\ MaxRetries \in Nat
      /\ Turns(repairs[c]) + MaxRetries + 1 <= RequestBudget
  BY <1>2, TurnsWithinBudget, ClientAssumption DEF Types
<1>5. CASE Wake(c)
  <2>1. requests[c] <= Turns(repairs[c]) + attempt[c]
    BY <1>2, <1>3, <1>5 DEF Wake, Sent
  <2> QED
    BY <1>3, <1>4, <2>1
<1>6. CASE Admit(c)
  <2>1. c = Head(queue) /\ queue # << >>
    BY <1>6 DEF Admit
  <2>2. phase[c] = "queued"
    <3>1. Head(queue) = queue[1] /\ 1 \in 1..Len(queue)
      BY <1>2, <2>1 DEF Types
    <3> QED
      BY <1>2, <2>1, <3>1 DEF QueueFits
  <2>3. requests[c] <= Turns(repairs[c])
    BY <1>2, <1>3, <2>2 DEF Sent
  <2> QED
    BY <1>3, <1>4, <2>3
<1> QED
  BY <1>1, <1>3, <1>5, <1>6

(* No request is sent after the abort, and none over the budget of retries  *)
(* nested in repair turns.                                                  *)
THEOREM RequestsAreBounded == Spec => RequestsStayInBounds
<1>1. IInv /\ [Next]_vars =>
        [\A c \in Calls : requests'[c] # requests[c]
           => ~aborted /\ requests[c] < RequestBudget /\ requests'[c] = requests[c] + 1]_vars
  BY SendingStep
<1> QED
  BY <1>1, InductiveInvariant, PTL DEF Spec, RequestsStayInBounds

(* A call that settles after the abort never blames the provider.           *)
THEOREM AbortBlamesNobody == Spec => AbortIsNotAProviderFault
<1>1. ASSUME IInv, [Next]_vars, NEW c \in Calls, aborted, hasKey,
             result[c] = "none", result'[c] # "none"
      PROVE  result'[c] \in {"aborted", "ok", "validation"}
  <2>1. ASSUME NEW d \in Calls, NEW r, Finish(d, r)
        PROVE  result'[c] = r
    BY <1>1, <2>1 DEF Finish, IInv, Types
  <2>2. ASSUME NEW d \in Calls, SendRequest(d) PROVE result'[c] = "aborted"
    BY <1>1, <2>1, <2>2 DEF SendRequest, MayProceed
  <2>3. ASSUME NEW d \in Calls, NEW e \in Errors, Fail(d, e) PROVE result'[c] = "aborted"
    <3>1. Verdict(d, e) = "aborted"
      BY <1>1 DEF Verdict
    <3> QED
      BY <2>1, <2>3, <3>1 DEF Fail
  <2>4. ASSUME NEW d \in Calls, RespondInvalid(d) PROVE result'[c] = "validation"
    BY <1>1, <2>1, <2>4 DEF RespondInvalid
  <2>5. ASSUME NEW d \in Calls, RespondValid(d) PROVE result'[c] = "ok"
    BY <2>1, <2>5 DEF RespondValid
  <2>6. ASSUME NEW d \in Calls, AbortSleep(d) PROVE result'[c] = "aborted"
    BY <2>1, <2>6 DEF AbortSleep
  <2> QED
    BY <1>1, <2>2, <2>3, <2>4, <2>5, <2>6
       DEF Next, vars, Abort, Generate, Enqueue, Admit, TimeoutFires, Wake
<1>2. IInv /\ [Next]_vars =>
        [\A c \in Calls : aborted /\ hasKey /\ result[c] = "none" /\ result'[c] # "none"
            => result'[c] \in {"aborted", "ok", "validation"}]_vars
  BY <1>1
<1> QED
  BY <1>2, InductiveInvariant, PTL DEF Spec, AbortIsNotAProviderFault

(* A step of one call is a step of the interface: the others stand as they  *)
(* stood, and this one is called, settles, or goes on.                      *)
LEMMA StepOfOneCall ==
    ASSUME IInv, NEW c \in Calls, UNCHANGED aborted,
           \A d \in Calls \ {c} : phase'[d] = phase[d] /\ result'[d] = result[d],
           \/ CallState(c)' = CallState(c)
           \/ CallState(c) = "idle" /\ CallState(c)' \in {"pending", "failed"}
           \/ /\ CallState(c) = "pending" /\ CallState(c)' \in calls!Outcomes
              /\ CallState(c)' = "aborted" => aborted
    PROVE  [calls!CallsNext]_calls!callVars
<1> DEFINE before == [d \in Calls |-> CallState(d)]
           after == [d \in Calls |-> CallState(d)']
<1>1. \A d \in Calls \ {c} : after[d] = before[d]
  BY DEF CallState
<1>2. CASE CallState(c)' = CallState(c)
  <2>1. after = before
    BY <1>1, <1>2
  <2> QED
    BY <2>1 DEF calls!callVars
<1>3. CASE CallState(c) = "idle" /\ CallState(c)' \in {"pending", "failed"}
  <2>1. after = [d \in Calls |-> IF d \in {c} THEN CallState(c)' ELSE before[d]]
    BY <1>1
  <2>2. calls!StartCalls({c})
    BY <1>3, <2>1 DEF calls!StartCalls
  <2> QED
    BY <2>2 DEF calls!CallsNext
<1>4. CASE /\ CallState(c) = "pending" /\ CallState(c)' \in calls!Outcomes
           /\ CallState(c)' = "aborted" => aborted
  <2>1. after = [before EXCEPT ![c] = CallState(c)']
    BY <1>1
  <2>2. calls!SettleCall(c, CallState(c)')
    BY <1>4, <2>1 DEF calls!SettleCall
  <2> QED
    BY <1>4, <2>2 DEF calls!CallsNext
<1> QED
  BY <1>2, <1>3, <1>4

(* How a call that is under way stands when it ends, or waits and goes on.  *)
LEMMA CallEnds ==
    ASSUME Types, NEW c \in Calls, NEW r \in Results, Finish(c, r), phase[c] # "done"
    PROVE  /\ \A d \in Calls \ {c} : phase'[d] = phase[d] /\ result'[d] = result[d]
           /\ phase[c] # "idle" => CallState(c) = "pending"
           /\ CallState(c)' \in calls!Outcomes
           /\ CallState(c)' = "aborted" => r = "aborted"
           /\ r = "auth" => CallState(c)' = "failed"
<1>1. /\ phase' = [phase EXCEPT ![c] = "done"] /\ result' = [result EXCEPT ![c] = r]
      /\ phase \in [Calls -> Phases] /\ result \in [Calls -> Results]
  BY DEF Finish, Types
<1>2. phase'[c] = "done" /\ result'[c] = r
  BY <1>1
<1>3. phase[c] # "idle" => CallState(c) = "pending"
  BY <1>1 DEF CallState, Phases
<1>4. CallState(c)' \in calls!Outcomes /\ (CallState(c)' = "aborted" => r = "aborted")
      /\ (r = "auth" => CallState(c)' = "failed")
  BY <1>2 DEF CallState, calls!Outcomes, Phases
<1> QED
  BY <1>1, <1>3, <1>4

LEMMA CallGoesOn ==
    ASSUME Types, NEW c \in Calls, NEW p \in Phases \ {"idle", "done"},
           phase' = [phase EXCEPT ![c] = p], UNCHANGED result
    PROVE  /\ \A d \in Calls \ {c} : phase'[d] = phase[d] /\ result'[d] = result[d]
           /\ CallState(c)' = "pending"
           /\ phase[c] = "idle" => CallState(c) = "idle"
           /\ phase[c] \notin {"idle", "done"} => CallState(c) = "pending"
<1>1. phase'[c] = p /\ phase[c] \in Phases
  BY DEF Types
<1>2. CallState(c)' = "pending"
  BY <1>1 DEF CallState
<1>3. /\ phase[c] = "idle" => CallState(c) = "idle"
      /\ phase[c] \notin {"idle", "done"} => CallState(c) = "pending"
  BY <1>1 DEF CallState
<1> QED
  BY <1>2, <1>3 DEF Types

(* A finishing step settles the call, with "aborted" only after the abort.  *)
LEMMA FinishImplements ==
    ASSUME IInv, NEW c \in Calls, NEW r \in Results, Finish(c, r), UNCHANGED aborted,
           phase[c] \notin {"idle", "done"}, r = "aborted" => aborted
    PROVE  [calls!CallsNext]_calls!callVars
BY CallEnds, StepOfOneCall DEF IInv

LEMMA SendImplements ==
    ASSUME IInv, NEW c \in Calls, SendRequest(c), UNCHANGED aborted,
           phase[c] \notin {"idle", "done"}
    PROVE  [calls!CallsNext]_calls!callVars
<1>1. Types
  BY DEF IInv
<1>2. CASE MayProceed
  <2>1. phase' = [phase EXCEPT ![c] = "request"] /\ UNCHANGED result
    BY <1>2 DEF SendRequest
  <2>2. "request" \in Phases \ {"idle", "done"}
    BY DEF Phases
  <2> QED
    BY <1>1, <2>1, <2>2, CallGoesOn, StepOfOneCall
<1>3. CASE ~MayProceed
  BY <1>3, FinishImplements DEF SendRequest, MayProceed, Results
<1> QED
  BY <1>2, <1>3

LEMMA NextImplements ==
    ASSUME IInv, [Next]_vars
    PROVE  [calls!CallsNext]_calls!callVars
<1>1. Types
  BY DEF IInv
<1>2. ASSUME UNCHANGED <<phase, result>>, aborted' = aborted \/ Abort
      PROVE  [calls!CallsNext]_calls!callVars
  <2>1. [d \in Calls |-> CallState(d)'] = [d \in Calls |-> CallState(d)]
    BY <1>2 DEF CallState
  <2>2. CASE aborted' = aborted
    BY <2>1, <2>2 DEF calls!callVars
  <2>3. CASE Abort
    BY <2>1, <2>3 DEF Abort, calls!CallsNext, calls!AbortCalls
  <2> QED
    BY <1>2, <2>2, <2>3
<1>3. ASSUME NEW c \in Calls, Generate(c) PROVE [calls!CallsNext]_calls!callVars
  <2>1. phase[c] = "idle" /\ UNCHANGED aborted /\ CallState(c) = "idle"
    BY <1>3 DEF Generate, CallState
  <2>2. CASE hasKey
    <3>1. phase' = [phase EXCEPT ![c] = "preparing"] /\ UNCHANGED result
          /\ "preparing" \in Phases \ {"idle", "done"}
      BY <1>3, <2>2 DEF Generate, Phases
    <3> QED
      BY <1>1, <2>1, <3>1, CallGoesOn, StepOfOneCall
  <2>3. CASE ~hasKey
    <3>1. Finish(c, "auth") /\ "auth" \in Results
      BY <1>3, <2>3 DEF Generate, Results
    <3> QED
      BY <1>1, <2>1, <3>1, CallEnds, StepOfOneCall
  <2> QED
    BY <2>2, <2>3
<1>4. ASSUME NEW c \in Calls, JoinQueue(c), UNCHANGED <<aborted, result>>,
             phase[c] \notin {"idle", "done"}
      PROVE  [calls!CallsNext]_calls!callVars
  <2>1. phase' = [phase EXCEPT ![c] = "queued"] /\ "queued" \in Phases \ {"idle", "done"}
    BY <1>4 DEF JoinQueue, Phases
  <2> QED
    BY <1>1, <1>4, <2>1, CallGoesOn, StepOfOneCall
<1>5. ASSUME NEW c \in Calls, Admit(c) PROVE [calls!CallsNext]_calls!callVars
  <2>1. phase[c] = "queued"
    <3>1. Head(queue) = queue[1] /\ 1 \in 1..Len(queue) /\ c = Head(queue)
      BY <1>1, <1>5 DEF Admit, Types
    <3> QED
      BY <3>1 DEF IInv, QueueFits
  <2> QED
    BY <1>5, <2>1, SendImplements DEF Admit
<1>6. ASSUME NEW c \in Calls, NEW e \in Errors, Fail(c, e)
      PROVE  [calls!CallsNext]_calls!callVars
  <2>1. phase[c] = "request" /\ UNCHANGED aborted
    BY <1>6 DEF Fail
  <2>2. CASE Verdict(c, e) = "retry"
    <3>1. phase' = [phase EXCEPT ![c] = "backoff"] /\ UNCHANGED result
          /\ "backoff" \in Phases \ {"idle", "done"}
      BY <1>6, <2>2 DEF Fail, Phases
    <3> QED
      BY <1>1, <2>1, <3>1, CallGoesOn, StepOfOneCall
  <2>3. CASE Verdict(c, e) # "retry"
    <3>1. Finish(c, Verdict(c, e))
      BY <1>6, <2>3 DEF Fail
    <3>2. Verdict(c, e) \in Results /\ (Verdict(c, e) = "aborted" => aborted)
      BY <2>3 DEF Verdict, ThrownFor, Results
    <3> QED
      BY <2>1, <3>1, <3>2, FinishImplements
  <2> QED
    BY <2>2, <2>3
<1>7. ASSUME NEW c \in Calls, RespondValid(c) \/ RespondInvalid(c) \/ AbortSleep(c) \/ Wake(c)
      PROVE  [calls!CallsNext]_calls!callVars
  <2>1. phase[c] \in {"request", "backoff"} /\ UNCHANGED aborted
    BY <1>7 DEF RespondValid, RespondInvalid, AbortSleep, Wake
  <2>2. CASE Wake(c)
    BY <2>1, <2>2, SendImplements DEF Wake
  <2>3. CASE JoinQueue(c) /\ UNCHANGED result
    BY <1>4, <2>1, <2>3
  <2>4. CASE \E r \in Results : Finish(c, r) /\ (r = "aborted" => aborted)
    BY <2>1, <2>4, FinishImplements
  <2> QED
    BY <1>7, <2>2, <2>3, <2>4 DEF RespondValid, RespondInvalid, AbortSleep, Results
<1> QED
  BY <1>2, <1>3, <1>4, <1>5, <1>6, <1>7
     DEF Next, vars, Enqueue, TimeoutFires, Abort

(* What ModelCalls says is safe for the review DAG to rely on.              *)
CallsSafety == calls!CallsInit /\ [][calls!CallsNext]_calls!callVars

(* The client implements the interface the review DAG is written against:   *)
(* a call stays pending until it settles, settles once, and is reported as  *)
(* aborted only if the caller aborted.                                      *)
THEOREM ClientImplementsCalls == Spec => CallsSafety
<1>1. Init => calls!CallsInit
  BY DEF Init, CallState, calls!CallsInit
<1>2. IInv /\ [Next]_vars => [calls!CallsNext]_calls!callVars
  BY NextImplements
<1> QED
  BY <1>1, <1>2, InductiveInvariant, PTL DEF Spec, CallsSafety
=============================================================================
