------------------------ MODULE OutboundSync_proofs ------------------------
(* Theorems about OutboundSync, for any requests, documents and attempts.  *)
EXTENDS OutboundSync, FiniteSetTheorems, TLAPS

\* A row that is not there yet is as an insert will leave it.
Fresh == \A r \in Requests : status[r] = "none" => attempts[r] = 0 /\ retryAt[r] = "null"

\* Nobody but the worker writes to the events of its batch.
Batch ==
    /\ stage = "idle" => batch = {}
    /\ \A r \in batch : status[r] \in Live /\ retryAt[r] # "later"
    /\ current \notin batch

Delivering ==
    /\ stage \in {"commit", "audit"} <=> current # NoEvent
    /\ stage = "commit" => status[current] \in Live /\ retryAt[current] # "later"
    /\ stage = "commit" /\ success => target = "noop" \/ current \in received

FiniteRows == IsFiniteSet({r \in Requests : Stored(r)})

IInv ==
    /\ TypeOK
    /\ FiniteRows
    /\ Fresh
    /\ AttemptsLeft
    /\ Batch
    /\ Delivering

---------------------------------------------------------------------------
LEMMA OutcomeFields ==
    \A o \in CommitOutcome :
        o.stored \in BOOLEAN /\ o.raised \in BOOLEAN /\ (~o.raised => o.stored)
BY DEF CommitOutcome

LEMMA ChargeBound ==
    ASSUME faults \in 0..MaxFaults, NEW o \in CommitOutcome, Charge(o)
    PROVE  faults' \in 0..MaxFaults /\ faults' = faults + (IF o.raised THEN 1 ELSE 0)
BY ParametersAssumption, OutcomeFields DEF Charge

LEMMA InitIInv == Init => IInv
<1> SUFFICES ASSUME Init PROVE IInv
  OBVIOUS
<1>1. TypeOK
  <2>1. waited \in [Requests -> SUBSET {Schedule[i] : i \in 1..6}]
    BY DEF Init
  <2>2. success \in BOOLEAN
    BY DEF Init
  <2> QED BY <2>1, <2>2, ParametersAssumption DEF Init, TypeOK, Live, Final, Answers
<1>2. FiniteRows
  <2>1. {r \in Requests : Stored(r)} = {}
    BY DEF Init, Stored
  <2> QED BY <2>1, FS_EmptySet DEF FiniteRows
<1>3. Fresh /\ Batch /\ Delivering
  BY RequestsAssumption DEF Init, Fresh, Batch, Delivering
<1>4. AttemptsLeft
  BY DEF Init, AttemptsLeft, Live
<1> QED BY <1>1, <1>2, <1>3, <1>4 DEF IInv

\* Steps of requests and documents that write no row and leave the worker alone.
Quiet == UNCHANGED <<rowVars, workerVars, endpointVars, restarts>>

LEMMA QuietIInv ==
    ASSUME IInv, Quiet, TypeOK'
    PROVE  IInv'
BY DEF IInv, Quiet, rowVars, workerVars, endpointVars, FiniteRows, Stored, Fresh,
       AttemptsLeft, Batch, Delivering

LEMMA DocumentIInv ==
    ASSUME IInv, NEW d \in Docs, Approve(d) \/ Revoke(d)
    PROVE  IInv'
<1>1. Quiet
  BY DEF Approve, Revoke, Quiet
<1>2. TypeOK'
  BY DEF IInv, TypeOK, Approve, Revoke, rowVars, handlerVars, workerVars, endpointVars
<1> QED BY <1>1, <1>2, QuietIInv

LEMMA HandlerIInv ==
    ASSUME IInv, NEW r \in Requests,
           CheckApproved(r) \/ LookUpKey(r) \/ InsertConflict(r) \/ AuditEnqueued(r)
    PROVE  IInv'
<1>1. Quiet
  BY DEF CheckApproved, LookUpKey, InsertConflict, AuditEnqueued, Quiet
<1>2. CASE CheckApproved(r) \/ LookUpKey(r) \/ InsertConflict(r)
  <2>1. TypeOK'
    BY <1>2 DEF IInv, TypeOK, CheckApproved, LookUpKey, InsertConflict, Answer, Answers,
                rowVars, workerVars, endpointVars
  <2> QED BY <1>1, <2>1, QuietIInv
<1>3. CASE AuditEnqueued(r)
  <2> PICK o \in CommitOutcome :
        /\ Charge(o)
        /\ IF o.raised THEN Answer(r, "error") ELSE \E q \in SameKey(r) : Answer(r, q)
    BY <1>3 DEF AuditEnqueued
  <2>1. faults' \in 0..MaxFaults
    BY ChargeBound DEF IInv, TypeOK
  <2>2. PICK a \in Requests \cup Answers : Answer(r, a)
    BY DEF SameKey, Answers
  <2>3. TypeOK'
    BY <1>3, <2>1, <2>2 DEF IInv, TypeOK, AuditEnqueued, Answer, rowVars, workerVars,
                            endpointVars
  <2> QED BY <1>1, <2>3, QuietIInv
<1> QED BY <1>2, <1>3

LEMMA InsertIInv ==
    ASSUME IInv, NEW r \in Requests, InsertEvent(r)
    PROVE  IInv'
<1> DEFINE n == Cardinality({q \in Requests : Stored(q)}) + 1
<1>1. n \in Nat
  BY FS_CardinalityType DEF IInv, FiniteRows
<1>2. ~Stored(r)
  BY DEF InsertEvent, Conflict
<1>3. PICK o \in CommitOutcome :
        /\ Charge(o)
        /\ IF o.stored
           THEN status' = [status EXCEPT ![r] = "queued"] /\ rank' = [rank EXCEPT ![r] = n]
           ELSE UNCHANGED <<status, rank>>
        /\ IF o.raised
           THEN Answer(r, "error")
           ELSE pc' = [pc EXCEPT ![r] = "audit"] /\ UNCHANGED answer
  BY DEF InsertEvent
<1>4. /\ status' \in {status, [status EXCEPT ![r] = "queued"]}
      /\ rank' \in {rank, [rank EXCEPT ![r] = n]}
      /\ UNCHANGED <<approved, attempts, retryAt, waited, audited, workerVars,
                     endpointVars, restarts>>
  BY <1>3, OutcomeFields DEF InsertEvent
<1>5. pc' \in [Requests -> {"new", "lookup", "insert", "audit", "ended"}]
      /\ answer' \in [Requests -> Requests \cup Answers] /\ faults' \in 0..MaxFaults
  BY <1>3, ChargeBound DEF IInv, TypeOK, Answer, Answers
<1>6. TypeOK'
  BY <1>1, <1>4, <1>5 DEF IInv, TypeOK, Live, workerVars, endpointVars
<1>7. FiniteRows'
  <2>1. {q \in Requests : Stored(q)}' \subseteq {q \in Requests : Stored(q)} \cup {r}
    BY <1>4 DEF IInv, TypeOK, Stored
  <2> QED BY <2>1, FS_AddElement, FS_Subset DEF IInv, FiniteRows
<1>8. attempts[r] = 0 /\ retryAt[r] = "null"
  BY <1>2 DEF IInv, Fresh, Stored
<1>9. Fresh' /\ AttemptsLeft'
  BY <1>4, <1>8, ParametersAssumption DEF IInv, TypeOK, Fresh, AttemptsLeft, Live
<1>10. r \notin batch /\ (stage = "commit" => current # r)
  BY <1>2 DEF IInv, Batch, Delivering, Live, Stored
<1>11. Batch' /\ Delivering'
  BY <1>4, <1>10 DEF IInv, TypeOK, Batch, Delivering, workerVars, endpointVars
<1> QED BY <1>6, <1>7, <1>9, <1>11 DEF IInv

\* A step of the worker or of time that adds no row.
LEMMA NoRowAdded ==
    ASSUME IInv, \A r \in Requests : Stored(r)' => Stored(r)
    PROVE  FiniteRows'
<1>1. {r \in Requests : Stored(r)}' \subseteq {r \in Requests : Stored(r)}
  OBVIOUS
<1> QED BY <1>1, FS_Subset DEF IInv, FiniteRows

LEMMA TakeBatchIInv == IInv /\ TakeBatch => IInv'
<1> SUFFICES ASSUME IInv, TakeBatch PROVE IInv'
  OBVIOUS
<1>1. /\ batch' \subseteq Due /\ stage' = "next" /\ stage = "idle"
      /\ UNCHANGED <<rowVars, target, current, success, endpointVars>>
  BY DEF TakeBatch
<1>2. TypeOK'
  BY <1>1 DEF IInv, TypeOK, TakeBatch, Due, rowVars, handlerVars, endpointVars
<1>3. FiniteRows' /\ Fresh' /\ AttemptsLeft'
  BY <1>1 DEF IInv, FiniteRows, Stored, Fresh, AttemptsLeft, rowVars
<1>4. current = NoEvent
  BY <1>1 DEF IInv, Delivering
<1>5. Batch' /\ Delivering'
  BY <1>1, <1>4, RequestsAssumption DEF Batch, Delivering, Due, rowVars, endpointVars
<1> QED BY <1>2, <1>3, <1>5 DEF IInv

LEMMA DeliverIInv ==
    ASSUME IInv, NEW r \in Requests, Deliver(r)
    PROVE  IInv'
<1>1. /\ stage = "next" /\ r \in batch
      /\ batch' = batch \ {r} /\ current' = r /\ stage' = "commit"
      /\ UNCHANGED <<rowVars, target>>
  BY DEF Deliver, Oldest
<1>2. /\ posts' \in [Requests -> Nat] /\ received' \in SUBSET Requests
      /\ success' \in BOOLEAN
      /\ success' => target = "noop" \/ r \in received'
  <2>1. CASE target = "url"
    <3> PICK reply \in Reply :
          /\ posts' = [posts EXCEPT ![r] = @ + 1]
          /\ received' = IF reply.accepted THEN received \cup {r} ELSE received
          /\ success' = reply.ok
      BY <2>1 DEF Deliver
    <3>1. reply.ok \in BOOLEAN /\ (reply.ok => reply.accepted)
      <4>1. CASE reply = [accepted |-> TRUE, ok |-> TRUE]
        <5>1. reply.accepted = TRUE /\ reply.ok = TRUE
          BY <4>1
        <5> QED BY <5>1
      <4>2. CASE reply.ok = FALSE
        BY <4>2
      <4>3. reply.ok = FALSE \/ reply = [accepted |-> TRUE, ok |-> TRUE]
        BY DEF Reply
      <4> QED BY <4>1, <4>2, <4>3
    <3>2. posts' \in [Requests -> Nat]
      BY DEF IInv, TypeOK
    <3>3. received' \in SUBSET Requests
      BY DEF IInv, TypeOK
    <3> QED BY <3>1, <3>2, <3>3
  <2>2. CASE target # "url"
    <3>1. success' = (target = "noop") /\ UNCHANGED endpointVars
      BY <2>2 DEF Deliver
    <3> QED BY <3>1 DEF IInv, TypeOK, endpointVars
  <2> QED BY <2>1, <2>2
<1>3. TypeOK'
  BY <1>1, <1>2 DEF IInv, TypeOK, Deliver, rowVars, handlerVars
<1>4. FiniteRows' /\ Fresh' /\ AttemptsLeft'
  BY <1>1 DEF IInv, FiniteRows, Stored, Fresh, AttemptsLeft, rowVars
<1>5. r # NoEvent
  BY RequestsAssumption
<1>6. Batch' /\ Delivering'
  BY <1>1, <1>2, <1>5 DEF IInv, Batch, Delivering, rowVars
<1> QED BY <1>3, <1>4, <1>6 DEF IInv

\* What the commit of an attempt may leave in the row of the event.
LEMMA RecordedRow ==
    ASSUME IInv, stage = "commit", NEW n \in Nat \ {0}, Recorded(current, n)
    PROVE  LET r == current IN
           /\ r \in Requests
           /\ \A q \in Requests \ {r} : status'[q] = status[q] /\ retryAt'[q] = retryAt[q]
           /\ status' \in [Requests -> {"none"} \cup Live \cup Final]
           /\ retryAt' \in [Requests -> {"null", "later", "now"}]
           /\ waited' \in [Requests -> SUBSET {Schedule[i] : i \in 1..6}]
           /\ \/ success /\ status'[r] = "delivered" /\ retryAt'[r] # "later"
              \/ ~success /\ n >= MaxAttempts /\ status'[r] = "failed_dlq" /\ retryAt'[r] = "null"
              \/ ~success /\ ~(n >= MaxAttempts) /\ status'[r] = "retry" /\ retryAt'[r] = "later"
<1>1. current \in Requests
  BY DEF IInv, TypeOK, Delivering
<1>2. retryAt[current] # "later"
  BY DEF IInv, Delivering
<1>3. RetryDelay(n) \in {Schedule[i] : i \in 1..6}
  BY DEF RetryDelay
<1>4. CASE success /\ status' = [status EXCEPT ![current] = "delivered"]
           /\ retryAt' = (IF target = "noop" THEN retryAt
                          ELSE [retryAt EXCEPT ![current] = "null"])
           /\ UNCHANGED waited
  BY <1>1, <1>2, <1>4 DEF IInv, TypeOK, Final
<1>5. CASE ~success /\ n >= MaxAttempts
           /\ status' = [status EXCEPT ![current] = "failed_dlq"]
           /\ retryAt' = [retryAt EXCEPT ![current] = "null"] /\ UNCHANGED waited
  BY <1>1, <1>5 DEF IInv, TypeOK, Final
<1>6. CASE ~success /\ ~(n >= MaxAttempts)
           /\ status' = [status EXCEPT ![current] = "retry"]
           /\ retryAt' = [retryAt EXCEPT ![current] = "later"]
           /\ waited' = [waited EXCEPT ![current] = @ \cup {RetryDelay(n)}]
  <2>1. waited' \in [Requests -> SUBSET {Schedule[i] : i \in 1..6}]
    BY <1>1, <1>3, <1>6 DEF IInv, TypeOK
  <2> QED BY <1>1, <1>6, <2>1 DEF IInv, TypeOK, Live
<1> QED BY <1>4, <1>5, <1>6 DEF Recorded, Exhausted

LEMMA CommitDeliveryIInv == IInv /\ CommitDelivery => IInv'
<1> SUFFICES ASSUME IInv, CommitDelivery PROVE IInv'
  OBVIOUS
<1> DEFINE r == current
<1> PICK o \in CommitOutcome :
      /\ Charge(o)
      /\ IF o.stored
         THEN /\ attempts' = Counted(r)
              /\ Recorded(r, attempts[r] + 1)
              /\ UNCHANGED rank
         ELSE UNCHANGED rowVars
      /\ IF o.raised
         THEN stage' = "idle" /\ batch' = {} /\ current' = NoEvent
         ELSE stage' = "audit" /\ UNCHANGED <<batch, current>>
  BY DEF CommitDelivery
<1>1. /\ stage = "commit" /\ success' = FALSE /\ r \in Requests /\ status[r] \in Live
      /\ UNCHANGED <<approved, audited, handlerVars, target, endpointVars, restarts>>
  BY DEF IInv, TypeOK, Delivering, CommitDelivery
<1>2. attempts[r] \in Nat /\ attempts[r] + 1 <= MaxAttempts
  BY <1>1, ParametersAssumption DEF IInv, TypeOK, AttemptsLeft
<1>3. faults' \in 0..MaxFaults
  BY ChargeBound DEF IInv, TypeOK
<1>4. /\ \/ stage' = "idle" /\ batch' = {} /\ current' = NoEvent
         \/ stage' = "audit" /\ UNCHANGED <<batch, current>>
  BY OutcomeFields
<1>5. CASE ~o.stored
  <2>1. UNCHANGED rowVars
    BY <1>5
  <2>2. TypeOK'
    BY <1>1, <1>3, <1>4, <2>1 DEF IInv, TypeOK, rowVars, handlerVars, endpointVars
  <2>3. FiniteRows' /\ Fresh' /\ AttemptsLeft'
    BY <2>1 DEF IInv, FiniteRows, Stored, Fresh, AttemptsLeft, rowVars
  <2>4. Batch' /\ Delivering'
    BY <1>1, <1>4, <2>1, RequestsAssumption DEF IInv, Batch, Delivering, rowVars
  <2> QED BY <2>2, <2>3, <2>4 DEF IInv
<1>6. CASE o.stored
  <2> DEFINE n == attempts[r] + 1
  <2>1. attempts' = [attempts EXCEPT ![r] = n] /\ Recorded(r, n) /\ UNCHANGED rank
    BY <1>6 DEF Counted
  <2>2. n \in Nat \ {0}
    BY <1>2
  <2>3. /\ \A q \in Requests \ {r} : status'[q] = status[q] /\ retryAt'[q] = retryAt[q]
        /\ status' \in [Requests -> {"none"} \cup Live \cup Final]
        /\ retryAt' \in [Requests -> {"null", "later", "now"}]
        /\ waited' \in [Requests -> SUBSET {Schedule[i] : i \in 1..6}]
    BY <1>1, <2>1, <2>2, RecordedRow
  <2>4. \/ status'[r] = "delivered" /\ retryAt'[r] # "later"
        \/ n >= MaxAttempts /\ status'[r] = "failed_dlq" /\ retryAt'[r] = "null"
        \/ ~(n >= MaxAttempts) /\ status'[r] = "retry" /\ retryAt'[r] = "later"
    BY <1>1, <2>1, <2>2, RecordedRow
  <2>5. attempts' \in [Requests -> 0..MaxAttempts] /\ attempts'[r] = n
        /\ \A q \in Requests \ {r} : attempts'[q] = attempts[q]
    BY <1>1, <1>2, <2>1 DEF IInv, TypeOK
  <2>6. TypeOK'
    BY <1>1, <1>3, <1>4, <2>1, <2>3, <2>5 DEF IInv, TypeOK, handlerVars, endpointVars
  <2>7. FiniteRows'
    BY <1>1, <2>3, NoRowAdded DEF Stored, Live
  <2>8. Fresh'
    BY <2>3, <2>4, <2>5 DEF IInv, Fresh
  <2>9. AttemptsLeft'
    BY <1>1, <1>2, <2>3, <2>4, <2>5, ParametersAssumption DEF IInv, AttemptsLeft, Live
  <2>10. Batch' /\ Delivering'
    BY <1>1, <1>4, <2>3, RequestsAssumption DEF IInv, TypeOK, Batch, Delivering
  <2> QED BY <2>6, <2>7, <2>8, <2>9, <2>10 DEF IInv
<1> QED BY <1>5, <1>6, OutcomeFields

LEMMA AuditDeliveryIInv == IInv /\ AuditDelivery => IInv'
<1> SUFFICES ASSUME IInv, AuditDelivery PROVE IInv'
  OBVIOUS
<1> PICK o \in CommitOutcome :
      /\ Charge(o)
      /\ audited' = IF o.stored
                    THEN [r \in Requests |-> IF r \in AuditedRows THEN audited[r] + 1
                                             ELSE audited[r]]
                    ELSE audited
      /\ stage' = IF o.raised \/ batch = {} THEN "idle" ELSE "next"
      /\ batch' = IF o.raised THEN {} ELSE batch
  BY DEF AuditDelivery
<1>1. /\ current' = NoEvent
      /\ UNCHANGED <<approved, rowVars, handlerVars, target, success, endpointVars, restarts>>
      /\ batch' \subseteq batch
      /\ stage' \in {"idle", "next"} /\ (stage' = "idle" => batch' = {})
  BY OutcomeFields DEF AuditDelivery
<1>2. faults' \in 0..MaxFaults
  BY ChargeBound DEF IInv, TypeOK
<1>3. audited' \in [Requests -> Nat]
  BY OutcomeFields DEF IInv, TypeOK
<1>4. TypeOK'
  BY <1>1, <1>2, <1>3 DEF IInv, TypeOK, rowVars, handlerVars, endpointVars
<1>5. FiniteRows' /\ Fresh' /\ AttemptsLeft'
  BY <1>1 DEF IInv, FiniteRows, Stored, Fresh, AttemptsLeft, rowVars
<1>6. Batch' /\ Delivering'
  BY <1>1, RequestsAssumption DEF IInv, TypeOK, Batch, Delivering, rowVars
<1> QED BY <1>4, <1>5, <1>6 DEF IInv

LEMMA ElapseIInv ==
    ASSUME IInv, NEW r \in Requests, Elapse(r)
    PROVE  IInv'
<1>1. /\ retryAt[r] = "later" /\ retryAt' = [retryAt EXCEPT ![r] = "now"]
      /\ UNCHANGED <<approved, status, rank, attempts, waited, audited, handlerVars,
                     workerVars, endpointVars, faults, restarts>>
  BY DEF Elapse
<1>2. TypeOK'
  BY <1>1 DEF IInv, TypeOK, handlerVars, workerVars, endpointVars
<1>3. FiniteRows' /\ Fresh' /\ AttemptsLeft'
  BY <1>1 DEF IInv, TypeOK, FiniteRows, Stored, Fresh, AttemptsLeft
<1>4. Batch' /\ Delivering'
  BY <1>1 DEF IInv, TypeOK, Batch, Delivering, workerVars, endpointVars
<1> QED BY <1>2, <1>3, <1>4 DEF IInv

LEMMA CrashIInv == IInv /\ Crash => IInv'
<1> SUFFICES ASSUME IInv, Crash PROVE IInv'
  OBVIOUS
<1>1. /\ restarts < MaxRestarts /\ restarts' = restarts + 1 /\ target' \in Targets
      /\ stage' = "idle" /\ batch' = {} /\ current' = NoEvent /\ success' = FALSE
      /\ UNCHANGED <<approved, rowVars, audited, endpointVars, faults>>
  BY DEF Crash
<1>2. pc' \in [Requests -> {"new", "lookup", "insert", "audit", "ended"}]
      /\ answer' \in [Requests -> Requests \cup Answers]
  BY DEF Crash, IInv, TypeOK, Answers
<1>3. TypeOK'
  <2>1. restarts' \in 0..MaxRestarts
    BY <1>1, ParametersAssumption DEF IInv, TypeOK
  <2>2. success' \in BOOLEAN
    BY <1>1
  <2> QED BY <1>1, <1>2, <2>1, <2>2 DEF IInv, TypeOK, rowVars, endpointVars
<1>4. FiniteRows' /\ Fresh' /\ AttemptsLeft' /\ Batch' /\ Delivering'
  BY <1>1, RequestsAssumption
     DEF IInv, FiniteRows, Stored, Fresh, AttemptsLeft, Batch, Delivering, rowVars
<1> QED BY <1>3, <1>4 DEF IInv

LEMMA NextIInv == IInv /\ [Next]_vars => IInv'
<1> SUFFICES ASSUME IInv, [Next]_vars PROVE IInv'
  OBVIOUS
<1>1. CASE UNCHANGED vars
  <2>1. Quiet /\ TypeOK'
    BY <1>1 DEF IInv, TypeOK, vars, rowVars, handlerVars, workerVars, endpointVars, Quiet
  <2> QED BY <2>1, QuietIInv
<1>2. ASSUME NEW r \in Requests, CheckApproved(r) \/ Handler(r) \/ Elapse(r) PROVE IInv'
  BY <1>2, HandlerIInv, InsertIInv, ElapseIInv DEF Handler
<1>3. CASE Worker
  BY <1>3, TakeBatchIInv, DeliverIInv, CommitDeliveryIInv, AuditDeliveryIInv DEF Worker
<1> QED BY <1>1, <1>2, <1>3, DocumentIInv, CrashIInv DEF Next

LEMMA Invariance == Spec => []IInv
BY InitIInv, NextIInv, PTL DEF Spec

\* The tables, the handlers and the worker keep their types.
THEOREM TypeCorrect == Spec => []TypeOK
<1>1. IInv => TypeOK
  BY DEF IInv
<1> QED BY <1>1, Invariance, PTL

\* A live event has attempts left, and only an event to be retried has a time
\* ahead: the bookkeeping of _deliver_event for every limit of attempts.
THEOREM AttemptsLeftThm == Spec => []AttemptsLeft
<1>1. IInv => AttemptsLeft
  BY DEF IInv
<1> QED BY <1>1, Invariance, PTL

---------------------------------------------------------------------------
(* What the endpoint has received, and how often.                          *)

LEMMA DeliveredStep ==
    ASSUME IInv, DeliveredWasReceived, [Next]_vars
    PROVE  DeliveredWasReceived'
<1> SUFFICES ASSUME "noop" \notin Targets, NEW r \in Requests, status'[r] = "delivered"
             PROVE  r \in received'
  BY DEF DeliveredWasReceived
<1>1. received \subseteq received'
  <2>1. CASE Next
    <3>1. ASSUME NEW q \in Requests, Deliver(q) PROVE received \subseteq received'
      BY <3>1 DEF Deliver, endpointVars
    <3> QED BY <2>1, <3>1
        DEF Next, Approve, Revoke, CheckApproved, Handler, LookUpKey, InsertConflict,
            InsertEvent, AuditEnqueued, Elapse, Worker, TakeBatch, CommitDelivery,
            AuditDelivery, Crash, endpointVars
  <2> QED BY <2>1 DEF vars, endpointVars
<1>2. CASE status[r] = "delivered"
  BY <1>1, <1>2 DEF DeliveredWasReceived
<1>3. CASE status[r] # "delivered"
  <2>1. CommitDelivery
    <3>1. ASSUME NEW q \in Requests, InsertEvent(q) PROVE FALSE
      <4>1. status' = status \/ status' = [status EXCEPT ![q] = "queued"]
        BY <3>1 DEF InsertEvent
      <4> QED BY <1>3, <4>1 DEF IInv, TypeOK
    <3>2. status' # status
      BY <1>3
    <3> QED BY <3>1, <3>2
        DEF Next, vars, Approve, Revoke, CheckApproved, Handler, LookUpKey,
            InsertConflict, AuditEnqueued, Elapse, Worker, TakeBatch, Deliver,
            AuditDelivery, Crash, rowVars
  <2>2. stage = "commit" /\ Recorded(current, attempts[current] + 1)
    BY <1>3, <2>1 DEF CommitDelivery, rowVars
  <2>3. current \in Requests /\ attempts[current] + 1 \in Nat \ {0}
    BY <2>2, ParametersAssumption DEF IInv, TypeOK, Delivering
  <2>4. r = current /\ success
    BY <1>3, <2>2, <2>3, RecordedRow
  <2>5. target # "noop"
    BY DEF IInv, TypeOK
  <2> QED BY <1>1, <2>2, <2>4, <2>5 DEF IInv, Delivering
<1> QED BY <1>2, <1>3

\* An event is only reported delivered when the endpoint accepted it, whatever
\* answers are lost and wherever the process stops.
THEOREM DeliveredWasReceivedThm == Spec => []DeliveredWasReceived
<1>1. Init => DeliveredWasReceived
  BY DEF Init, DeliveredWasReceived
<1> QED BY <1>1, DeliveredStep, Invariance, PTL DEF Spec

---------------------------------------------------------------------------
(* The implementation of OutboundEvent.                                    *)

LEMMA InitEvent == Init => Event!Init
BY DEF Init, Event!Init

LEMMA StepEvent == IInv /\ [Next]_vars => [Event!Next]_Event!vars
<1> SUFFICES ASSUME IInv, [Next]_vars PROVE [Event!Next]_Event!vars
  OBVIOUS
<1> USE DEF Event!Next, Event!vars
<1>1. ASSUME NEW r \in Requests, InsertEvent(r) PROVE [Event!Next]_Event!vars
  <2>1. status[r] = "none" /\ attempts' = attempts
    BY <1>1 DEF InsertEvent, Conflict, Stored
  <2>2. status' = status \/ status' = [status EXCEPT ![r] = "queued"]
    BY <1>1 DEF InsertEvent
  <2> QED BY <2>1, <2>2 DEF Event!Enqueue
<1>2. CASE CommitDelivery
  <2>1. stage = "commit" /\ current \in Requests /\ status[current] \in Live
    BY <1>2 DEF CommitDelivery, IInv, TypeOK, Delivering
  <2> DEFINE n == attempts[current] + 1
  <2>2. \/ UNCHANGED <<status, attempts>>
        \/ attempts' = [attempts EXCEPT ![current] = @ + 1] /\ Recorded(current, n)
    BY <1>2 DEF CommitDelivery, Counted, rowVars
  <2>3. CASE attempts' = [attempts EXCEPT ![current] = @ + 1] /\ Recorded(current, n)
    <3>1. n \in Nat \ {0} /\ MaxAttempts \in Nat
      BY <2>1, ParametersAssumption DEF IInv, TypeOK
    <3>2. \/ status' = [status EXCEPT ![current] = "delivered"]
          \/ ~(n >= MaxAttempts) /\ status' = [status EXCEPT ![current] = "retry"]
          \/ n >= MaxAttempts /\ status' = [status EXCEPT ![current] = "failed_dlq"]
      BY <2>3 DEF Recorded, Exhausted
    <3>3. attempts[current] + 1 < MaxAttempts \/ attempts[current] + 1 >= MaxAttempts
      BY <3>1
    <3>4. n >= MaxAttempts <=> ~(attempts[current] + 1 < MaxAttempts)
      BY <3>1
    <3>5. Event!Attempt(current)
      BY <2>1, <2>3, <3>2, <3>3, <3>4 DEF Event!Attempt, Live
    <3> QED BY <2>1, <3>5
  <2> QED BY <2>2, <2>3
<1>3. CASE UNCHANGED <<status, attempts>>
  BY <1>3
<1> QED BY <1>1, <1>2, <1>3
    DEF Next, vars, Approve, Revoke, CheckApproved, Handler, LookUpKey, InsertConflict,
        AuditEnqueued, Elapse, Worker, TakeBatch, Deliver, AuditDelivery, Crash, rowVars

\* Requests, errors, crashes and batches implement the life of an event: every
\* attempt is counted, and delivered and failed_dlq are final.
THEOREM ImplementsEventThm == Spec => ImplementsEvent
BY Invariance, InitEvent, StepEvent, PTL DEF Spec, ImplementsEvent, Event!Spec

---------------------------------------------------------------------------
(* One event for one key.                                                  *)

OneEvent ==
    \A p, q \in Requests : Stored(p) /\ Stored(q) /\ KeyOf[p] = KeyOf[q] => p = q

Answered ==
    \A r \in Requests :
        answer[r] \in Requests => Stored(answer[r]) /\ KeyOf[answer[r]] = KeyOf[r]

LEMMA InitKeys == Init => OneEvent /\ Answered
BY RequestsAssumption DEF Init, OneEvent, Answered, Stored, Answers

\* Rows are never deleted.
LEMMA StoredStays ==
    ASSUME IInv, [Next]_vars, NEW r \in Requests, Stored(r)
    PROVE  Stored(r)'
<1>1. [Event!Next]_Event!vars
  BY StepEvent
<1>2. CASE Event!Next
  <2>1. PICK e \in Requests : Event!Enqueue(e) \/ Event!Attempt(e)
    BY <1>2 DEF Event!Next
  <2>2. status'[r] \in {status[r], "queued", "delivered", "retry", "failed_dlq"}
    BY <2>1 DEF IInv, TypeOK, Event!Enqueue, Event!Attempt
  <2> QED BY <2>2 DEF Stored
<1> QED BY <1>1, <1>2 DEF Event!vars, Stored

\* Only an insert that conflicts with no row adds one.
LEMMA StoredByInsert ==
    ASSUME IInv, [Next]_vars, NEW r \in Requests, ~Stored(r), Stored(r)'
    PROVE  ~Conflict(r) /\ \A q \in Requests \ {r} : Stored(q)' => Stored(q)
<1>1. PICK q \in Requests : InsertEvent(q)
  <2>1. ~CommitDelivery
    <3> SUFFICES ASSUME CommitDelivery PROVE FALSE
      OBVIOUS
    <3>1. stage = "commit" /\ current \in Requests /\ current # r
      BY DEF CommitDelivery, IInv, TypeOK, Delivering, Live, Stored
    <3>2. status' = status \/ Recorded(current, attempts[current] + 1)
      BY DEF CommitDelivery, rowVars
    <3>3. attempts[current] + 1 \in Nat \ {0}
      BY <3>1, ParametersAssumption DEF IInv, TypeOK
    <3>4. status'[r] = status[r]
      BY <3>1, <3>2, <3>3, RecordedRow
    <3> QED BY <3>4 DEF Stored
  <2>2. status' # status
    BY DEF Stored
  <2> QED BY <2>1, <2>2
      DEF Next, vars, Approve, Revoke, CheckApproved, Handler, LookUpKey, InsertConflict,
          AuditEnqueued, Elapse, Worker, TakeBatch, Deliver, AuditDelivery, Crash, rowVars
<1>2. status' = status \/ status' = [status EXCEPT ![q] = "queued"]
  BY <1>1 DEF InsertEvent
<1>3. q = r
  BY <1>2 DEF IInv, TypeOK, Stored
<1> QED BY <1>1, <1>2, <1>3 DEF InsertEvent, IInv, TypeOK, Stored

LEMMA StepKeys ==
    ASSUME IInv, OneEvent, Answered, [Next]_vars
    PROVE  OneEvent' /\ Answered'
<1>1. OneEvent'
  <2> SUFFICES ASSUME NEW p \in Requests, NEW q \in Requests,
                      Stored(p)', Stored(q)', KeyOf[p] = KeyOf[q], p # q
               PROVE  FALSE
    BY DEF OneEvent
  <2>1. CASE Stored(p) /\ Stored(q)
    BY <2>1 DEF OneEvent
  <2>2. CASE ~Stored(p)
    <3>1. ~Conflict(p) /\ Stored(q)
      BY <2>2, StoredByInsert
    <3> QED BY <3>1 DEF Conflict
  <2>3. CASE ~Stored(q)
    <3>1. ~Conflict(q) /\ Stored(p)
      BY <2>3, StoredByInsert
    <3> QED BY <3>1 DEF Conflict
  <2> QED BY <2>1, <2>2, <2>3
<1>2. ASSUME NEW r \in Requests, answer'[r] \in Requests
      PROVE  (Stored(answer[r]) /\ answer'[r] = answer[r]) \/ answer'[r] \in SameKey(r)
  <2>1. CASE answer'[r] = answer[r]
    BY <1>2, <2>1 DEF Answered
  <2>2. CASE answer'[r] # answer[r]
    <3>1. answer'[r] \notin {"refused", "error"}
      BY <1>2, RequestsAssumption DEF Answers
    <3>2. ASSUME NEW q \in Requests, NEW a, Answer(q, a) PROVE q = r /\ answer'[r] = a
      BY <2>2, <3>2 DEF Answer, IInv, TypeOK
    <3>3. ASSUME NEW q \in Requests,
                 CheckApproved(q) \/ LookUpKey(q) \/ InsertConflict(q) \/ InsertEvent(q)
          PROVE  FALSE
      BY <2>2, <3>1, <3>2, <3>3 DEF CheckApproved, LookUpKey, InsertConflict, InsertEvent
    <3>4. ~Crash
      BY <1>2, <2>2, <3>1 DEF Crash
    <3>5. PICK q \in Requests : AuditEnqueued(q)
      BY <2>2, <3>3, <3>4
         DEF Next, vars, Approve, Revoke, Handler, Elapse, Worker, TakeBatch, Deliver,
             CommitDelivery, AuditDelivery, handlerVars
    <3>6. Answer(q, "error") \/ \E e \in SameKey(q) : Answer(q, e)
      BY <3>5 DEF AuditEnqueued
    <3> QED BY <3>1, <3>2, <3>6
  <2> QED BY <2>1, <2>2
<1>3. Answered'
  BY <1>2, StoredStays DEF Answered, SameKey
<1> QED BY <1>1, <1>3

\* Requests with one key that are accepted are answered with one stored event,
\* however they interleave (enqueue_outbound_event and its unique constraint).
THEOREM SameAnswerThm == Spec => []SameAnswer
<1>1. OneEvent /\ Answered => SameAnswer
  BY DEF OneEvent, Answered, SameAnswer
<1>2. Spec => [](OneEvent /\ Answered)
  BY Invariance, InitKeys, StepKeys, PTL DEF Spec
<1> QED BY <1>1, <1>2, PTL

---------------------------------------------------------------------------
(* Posts, attempts and audit entries.                                      *)

\* The attempt under way, while its audit entry is not written.
Unaudited(r) == IF stage = "audit" /\ current = r THEN 1 ELSE 0
AuditInv ==
    \A r \in Requests :
        /\ audited[r] + Unaudited(r) <= attempts[r]
        /\ attempts[r] <= audited[r] + Unaudited(r) + faults + restarts

InFlight(r) == IF stage = "commit" /\ current = r THEN 1 ELSE 0
PostsInv == \A r \in Requests : posts[r] <= attempts[r] + faults + restarts + InFlight(r)

\* The counts of one event are numbers.
LEMMA Counters ==
    ASSUME TypeOK, NEW r \in Requests
    PROVE  /\ posts[r] \in Nat /\ attempts[r] \in Nat /\ audited[r] \in Nat
           /\ faults \in Nat /\ restarts \in Nat
           /\ InFlight(r) \in {0, 1} /\ Unaudited(r) \in {0, 1}
BY ParametersAssumption DEF TypeOK, InFlight, Unaudited

\* The steps that touch neither a counter nor the worker.
LEMMA CountersKept ==
    ASSUME IInv, [Next]_vars,
           ~TakeBatch, \A r \in Requests : ~Deliver(r), ~CommitDelivery, ~AuditDelivery
    PROVE  /\ UNCHANGED <<posts, audited, attempts>>
           /\ faults' >= faults /\ restarts' >= restarts
           /\ \/ UNCHANGED <<stage, current>>
              \/ restarts' = restarts + 1 /\ stage' = "idle"
<1>1. faults \in Nat /\ restarts \in Nat
  BY ParametersAssumption DEF IInv, TypeOK
<1>2. ASSUME NEW o \in CommitOutcome, Charge(o) PROVE faults' >= faults
  BY <1>1, <1>2 DEF Charge
<1>3. ASSUME NEW r \in Requests, InsertEvent(r) \/ AuditEnqueued(r)
      PROVE  /\ UNCHANGED <<posts, audited, attempts, stage, current, restarts>>
             /\ faults' >= faults
  BY <1>2, <1>3 DEF InsertEvent, AuditEnqueued, rowVars, workerVars, endpointVars
<1>4. ASSUME NEW r \in Requests,
             CheckApproved(r) \/ LookUpKey(r) \/ InsertConflict(r) \/ Elapse(r)
      PROVE  UNCHANGED <<posts, audited, attempts, stage, current, restarts, faults>>
  BY <1>4 DEF CheckApproved, LookUpKey, InsertConflict, Elapse, rowVars, workerVars,
              endpointVars
<1>5. ASSUME NEW d \in Docs, Approve(d) \/ Revoke(d)
      PROVE  UNCHANGED <<posts, audited, attempts, stage, current, restarts, faults>>
  BY <1>5 DEF Approve, Revoke, rowVars, workerVars, endpointVars
<1>6. CASE Crash
  BY <1>1, <1>6 DEF Crash, rowVars, endpointVars
<1>7. CASE UNCHANGED vars
  BY <1>1, <1>7 DEF vars, rowVars, workerVars, endpointVars
<1> QED BY <1>1, <1>3, <1>4, <1>5, <1>6, <1>7 DEF Next, Handler, Worker

LEMMA StepPosts ==
    ASSUME IInv, IInv', PostsInv, [Next]_vars
    PROVE  PostsInv'
<1> SUFFICES ASSUME NEW r \in Requests
             PROVE  posts'[r] <= attempts'[r] + faults' + restarts' + InFlight(r)'
  BY DEF PostsInv
<1>1. TypeOK /\ TypeOK' /\ posts[r] <= attempts[r] + faults + restarts + InFlight(r)
  BY DEF IInv, PostsInv
<1>2. /\ posts[r] \in Nat /\ attempts[r] \in Nat /\ faults \in Nat /\ restarts \in Nat
      /\ InFlight(r) \in {0, 1}
  BY <1>1, Counters
<1>3. /\ posts'[r] \in Nat /\ attempts'[r] \in Nat /\ faults' \in Nat /\ restarts' \in Nat
      /\ InFlight(r)' \in {0, 1}
  BY <1>1, ParametersAssumption DEF TypeOK, InFlight
<1>4. CASE TakeBatch
  <2>1. /\ UNCHANGED <<posts, attempts, faults, restarts>>
        /\ stage = "idle" /\ stage' = "next"
    BY <1>4 DEF TakeBatch, endpointVars, rowVars
  <2> QED BY <1>1, <1>2, <2>1 DEF InFlight
<1>5. ASSUME NEW q \in Requests, Deliver(q)
      PROVE  posts'[r] <= attempts'[r] + faults' + restarts' + InFlight(r)'
  <2>1. /\ UNCHANGED <<attempts, faults, restarts>>
        /\ stage = "next" /\ stage' = "commit" /\ current' = q
        /\ posts' = posts \/ posts' = [posts EXCEPT ![q] = @ + 1]
    BY <1>5 DEF Deliver, endpointVars, rowVars
  <2>2. posts'[r] <= posts[r] + InFlight(r)' /\ InFlight(r) = 0
    BY <1>1, <1>2, <2>1 DEF InFlight, TypeOK
  <2> QED BY <1>1, <1>2, <1>3, <2>1, <2>2
<1>6. CASE CommitDelivery
  <2> PICK o \in CommitOutcome :
        /\ Charge(o)
        /\ IF o.stored THEN attempts' = Counted(current) ELSE UNCHANGED rowVars
    BY <1>6 DEF CommitDelivery
  <2>1. /\ UNCHANGED <<posts, restarts>> /\ current \in Requests
        /\ faults' = faults + (IF o.raised THEN 1 ELSE 0)
    BY <1>1, <1>6, ChargeBound
       DEF CommitDelivery, endpointVars, IInv, TypeOK, Delivering
  <2>2. InFlight(r) = 1 => current = r
    BY DEF InFlight
  <2>3. CASE o.stored
    <3>1. attempts'[r] = attempts[r] + (IF current = r THEN 1 ELSE 0)
      BY <1>1, <2>1, <2>3 DEF Counted, TypeOK
    <3> QED BY <1>1, <1>2, <1>3, <2>1, <2>2, <3>1
  <2>4. CASE ~o.stored
    <3>1. attempts' = attempts /\ faults' = faults + 1
      BY <2>1, <2>4, OutcomeFields DEF rowVars
    <3> QED BY <1>1, <1>2, <1>3, <2>1, <3>1
  <2> QED BY <2>3, <2>4
<1>7. CASE AuditDelivery
  <2>1. /\ UNCHANGED <<posts, attempts, restarts>> /\ stage = "audit"
        /\ \E o \in CommitOutcome : Charge(o)
    BY <1>7 DEF AuditDelivery, endpointVars, rowVars
  <2>2. faults' >= faults
    BY <1>2, <2>1 DEF Charge
  <2>3. InFlight(r) = 0
    BY <2>1 DEF InFlight
  <2> QED BY <1>1, <1>2, <1>3, <2>1, <2>2, <2>3
<1>8. CASE ~TakeBatch /\ (\A q \in Requests : ~Deliver(q)) /\ ~CommitDelivery /\ ~AuditDelivery
  <2>1. /\ UNCHANGED <<posts, attempts>> /\ faults' >= faults /\ restarts' >= restarts
        /\ UNCHANGED <<stage, current>> \/ restarts' = restarts + 1
    BY <1>8, CountersKept
  <2>2. CASE UNCHANGED <<stage, current>>
    <3>1. InFlight(r)' = InFlight(r)
      BY <2>2 DEF InFlight
    <3> QED BY <1>1, <1>2, <1>3, <2>1, <3>1
  <2>3. CASE restarts' = restarts + 1
    BY <1>1, <1>2, <1>3, <2>1, <2>3
  <2> QED BY <2>1, <2>2, <2>3
<1> QED BY <1>4, <1>5, <1>6, <1>7, <1>8

\* The endpoint sees an event no more often than its attempts, the database
\* errors, the crashes and the post under way account for.
THEOREM PostsPaidForThm == Spec => []PostsPaidFor
<1>1. Init => PostsInv
  BY DEF Init, PostsInv, InFlight
<1>2. PostsInv => PostsPaidFor
  BY DEF PostsInv, PostsPaidFor, InFlight
<1> QED BY <1>1, <1>2, StepPosts, Invariance, PTL DEF Spec

\* How often the endpoint may see an event.
EndpointLoad == \A r \in Requests : posts[r] <= MaxAttempts + MaxFaults + MaxRestarts

\* Whatever the endpoint answers, it sees an event at most MaxAttempts times and
\* once more for each database error and each crash (_deliver_event).
THEOREM EndpointLoadThm == Spec => []EndpointLoad
<1>1. ASSUME IInv, PostsPaidFor, NEW r \in Requests
      PROVE  posts[r] <= MaxAttempts + MaxFaults + MaxRestarts
  <2>1. /\ posts[r] \in Nat /\ attempts[r] \in 0..MaxAttempts
        /\ faults \in 0..MaxFaults /\ restarts \in 0..MaxRestarts
    BY <1>1 DEF IInv, TypeOK
  <2>2. CASE stage = "commit" /\ current = r
    <3>1. attempts[r] < MaxAttempts
      BY <1>1, <2>2 DEF IInv, Delivering, AttemptsLeft
    <3>2. posts[r] <= attempts[r] + faults + restarts + 1
      BY <1>1, <2>2 DEF PostsPaidFor
    <3> QED BY <2>1, <3>1, <3>2, ParametersAssumption
  <2>3. CASE ~(stage = "commit" /\ current = r)
    <3>1. posts[r] <= attempts[r] + faults + restarts + 0
      BY <1>1, <2>3 DEF PostsPaidFor
    <3> QED BY <2>1, <3>1, ParametersAssumption
  <2> QED BY <2>2, <2>3
<1>2. IInv /\ PostsPaidFor => EndpointLoad
  BY <1>1 DEF EndpointLoad
<1> QED BY <1>2, Invariance, PostsPaidForThm, PTL

\* A step leaves an event alone that is delivered or given up.
FinalKept ==
    \A r \in Requests : status[r] \in Final =>
        status'[r] = status[r] /\ attempts'[r] = attempts[r] /\ posts'[r] = posts[r]

LEMMA StepFinal == ASSUME IInv, [Next]_vars PROVE FinalKept
<1> SUFFICES ASSUME NEW r \in Requests, status[r] \in Final
             PROVE  /\ status'[r] = status[r] /\ attempts'[r] = attempts[r]
                    /\ posts'[r] = posts[r]
  BY DEF FinalKept
<1>1. TypeOK /\ status[r] \notin Live /\ status[r] # "none"
  BY DEF IInv, Live, Final
<1>2. status'[r] = status[r] /\ attempts'[r] = attempts[r]
  <2>1. CASE UNCHANGED <<status, attempts>>
    BY <2>1
  <2>2. ASSUME NEW q \in Requests, Event!Enqueue(q) \/ Event!Attempt(q)
        PROVE  status'[r] = status[r] /\ attempts'[r] = attempts[r]
    <3>1. q # r
      BY <1>1, <2>2 DEF Event!Enqueue, Event!Attempt, Live
    <3> QED BY <1>1, <2>2, <3>1 DEF Event!Enqueue, Event!Attempt, TypeOK
  <2> QED BY <2>1, <2>2, StepEvent DEF Event!Next, Event!vars
<1>3. posts'[r] = posts[r]
  <2>1. ASSUME NEW q \in Requests, Deliver(q) PROVE posts'[r] = posts[r]
    <3>1. q \in batch /\ status[q] \in Live
      BY <2>1 DEF Deliver, Oldest, IInv, Batch
    <3>2. q # r
      BY <1>1, <3>1
    <3> QED BY <1>1, <2>1, <3>2 DEF Deliver, endpointVars, TypeOK
  <2>2. CASE TakeBatch \/ CommitDelivery \/ AuditDelivery
    BY <2>2 DEF TakeBatch, CommitDelivery, AuditDelivery, endpointVars
  <2>3. CASE ~TakeBatch /\ (\A q \in Requests : ~Deliver(q)) /\ ~CommitDelivery /\ ~AuditDelivery
    BY <2>3, CountersKept
  <2> QED BY <2>1, <2>2, <2>3
<1> QED BY <1>2, <1>3

\* An event that was delivered or given up is never posted, counted or moved again:
\* not by a batch taken before, nor after errors and crashes (process_outbound_batch).
THEOREM FinalIsFinal == Spec => [][FinalKept]_vars
<1>1. IInv /\ [Next]_vars => [FinalKept]_vars
  BY StepFinal
<1> QED BY <1>1, Invariance, PTL DEF Spec

LEMMA StepAudit ==
    ASSUME IInv, IInv', AuditInv, [Next]_vars
    PROVE  AuditInv'
<1> SUFFICES ASSUME NEW r \in Requests
             PROVE  /\ audited'[r] + Unaudited(r)' <= attempts'[r]
                    /\ attempts'[r] <= audited'[r] + Unaudited(r)' + faults' + restarts'
  BY DEF AuditInv
<1>1. /\ TypeOK /\ TypeOK' /\ audited[r] + Unaudited(r) <= attempts[r]
      /\ attempts[r] <= audited[r] + Unaudited(r) + faults + restarts
  BY DEF IInv, AuditInv
<1>2. /\ audited[r] \in Nat /\ attempts[r] \in Nat /\ Unaudited(r) \in {0, 1}
      /\ faults \in Nat /\ restarts \in Nat
  BY <1>1, Counters
<1>3. /\ audited'[r] \in Nat /\ attempts'[r] \in Nat /\ Unaudited(r)' \in {0, 1}
      /\ faults' \in Nat /\ restarts' \in Nat
  BY <1>1, ParametersAssumption DEF TypeOK, Unaudited
<1>4. CASE TakeBatch \/ \E q \in Requests : Deliver(q)
  <2>1. /\ UNCHANGED <<audited, attempts, faults, restarts>>
        /\ stage # "audit" /\ stage' # "audit"
    BY <1>4 DEF TakeBatch, Deliver, rowVars
  <2> QED BY <1>1, <1>2, <2>1 DEF Unaudited
<1>5. CASE CommitDelivery
  <2> PICK o \in CommitOutcome :
        /\ Charge(o)
        /\ IF o.stored THEN attempts' = Counted(current) ELSE UNCHANGED rowVars
        /\ IF o.raised THEN stage' = "idle" ELSE stage' = "audit" /\ UNCHANGED current
    BY <1>5 DEF CommitDelivery
  <2>1. /\ audited' = audited /\ stage = "commit" /\ current \in Requests
        /\ restarts' = restarts /\ faults' = faults + (IF o.raised THEN 1 ELSE 0)
    BY <1>1, <1>5, ChargeBound DEF CommitDelivery, IInv, TypeOK, Delivering
  <2>2. Unaudited(r) = 0
    BY <2>1 DEF Unaudited
  <2>3. Unaudited(r)' = IF ~o.raised /\ current = r THEN 1 ELSE 0
    BY OutcomeFields DEF Unaudited
  <2>4. CASE o.stored
    <3>1. attempts'[r] = attempts[r] + (IF current = r THEN 1 ELSE 0)
      BY <1>1, <2>1, <2>4 DEF Counted, TypeOK
    <3> QED BY <1>1, <1>2, <1>3, <2>1, <2>2, <2>3, <3>1
  <2>5. CASE ~o.stored
    <3>1. attempts' = attempts /\ o.raised
      BY <2>5, OutcomeFields DEF rowVars
    <3> QED BY <1>1, <1>2, <2>1, <2>2, <2>3, <3>1
  <2> QED BY <2>4, <2>5
<1>6. CASE AuditDelivery
  <2> PICK o \in CommitOutcome :
        /\ Charge(o)
        /\ audited' = IF o.stored
                      THEN [q \in Requests |-> IF q \in AuditedRows THEN audited[q] + 1
                                               ELSE audited[q]]
                      ELSE audited
    BY <1>6 DEF AuditDelivery
  <2>1. /\ attempts' = attempts /\ restarts' = restarts
        /\ stage = "audit" /\ stage' # "audit"
        /\ faults' = faults + (IF o.raised THEN 1 ELSE 0)
    BY <1>1, <1>6, ChargeBound DEF AuditDelivery, rowVars, TypeOK
  <2>2. audited'[r] = IF o.stored THEN audited[r] + Unaudited(r) ELSE audited[r]
    BY <1>2, <2>1 DEF AuditedRows, Unaudited
  <2>3. Unaudited(r)' = 0
    BY <2>1 DEF Unaudited
  <2> QED BY <1>1, <1>2, <1>3, <2>1, <2>2, <2>3, OutcomeFields
<1>7. CASE ~TakeBatch /\ (\A q \in Requests : ~Deliver(q)) /\ ~CommitDelivery /\ ~AuditDelivery
  <2>1. /\ UNCHANGED <<audited, attempts>> /\ faults' >= faults /\ restarts' >= restarts
        /\ UNCHANGED <<stage, current>> \/ (restarts' = restarts + 1 /\ stage' = "idle")
    BY <1>7, CountersKept
  <2>2. \/ Unaudited(r)' = Unaudited(r)
        \/ Unaudited(r)' = 0 /\ restarts' = restarts + 1
    BY <2>1 DEF Unaudited
  <2> QED BY <1>1, <1>2, <1>3, <2>1, <2>2
<1> QED BY <1>4, <1>5, <1>6, <1>7

\* Every counted attempt has its entry in the trail and every entry its attempt,
\* but for one entry for each error and each crash (process_outbound_batch).
THEOREM TrailMatchesAttemptsThm == Spec => []TrailMatchesAttempts
<1>1. Init => AuditInv
  BY DEF Init, AuditInv, Unaudited
<1>2. IInv /\ AuditInv => TrailMatchesAttempts
  <2> SUFFICES ASSUME IInv, AuditInv, NEW r \in Requests
               PROVE  /\ audited[r] <= attempts[r]
                      /\ attempts[r] <= audited[r] + faults + restarts + Unaudited(r)
    BY DEF TrailMatchesAttempts, Unaudited
  <2>1. /\ audited[r] \in Nat /\ attempts[r] \in Nat /\ Unaudited(r) \in {0, 1}
        /\ faults \in Nat /\ restarts \in Nat
    BY Counters DEF IInv
  <2> QED BY <2>1 DEF AuditInv
<1> QED BY <1>1, <1>2, StepAudit, Invariance, PTL DEF Spec
=============================================================================
