---------------------------- MODULE OutboundSync ----------------------------
(***************************************************************************)
(* Outbound synchronisation of approved documents: POST /v1/sync/outbound  *)
(* (enqueue_outbound_sync and sync_outbound_service) and the delivery      *)
(* worker (outbound_delivery_service).                                     *)
(*                                                                         *)
(* Requests run concurrently in the thread pool, one step for each         *)
(* database call; the worker is a single task that takes a batch, and for  *)
(* each event posts it, commits the result and writes an audit entry.  The *)
(* row a request inserts is named by that request.                         *)
(***************************************************************************)
EXTENDS Naturals, FiniteSets

CONSTANTS
    Requests,     \* calls of POST /v1/sync/outbound
    KeyOf,        \* KeyOf[r]: company_id and Idempotency-Key
    EventIdOf,    \* EventIdOf[r]: body.event_id, unique unless the caller sets it
    DocOf,        \* DocOf[r]: body.document.document_id
    Docs,
    MaxAttempts,  \* SYNC_OUTBOUND_MAX_ATTEMPTS
    BatchLimit,   \* limit of process_outbound_batch
    Targets,      \* what the configuration may say: a webhook "url", none but
                  \* ALLOW_NOOP_TARGET ("noop"), or "none"
    MaxFaults,    \* bound on the database errors of a behaviour
    MaxRestarts   \* bound on the crashes of a behaviour

NoEvent == "none"
Answers == {"none", "refused", "error"}

ASSUME RequestsAssumption ==
    /\ DocOf \in [Requests -> Docs]
    /\ NoEvent \notin Requests
    /\ Requests \cap Answers = {}
ASSUME ParametersAssumption ==
    /\ MaxAttempts \in Nat \ {0}
    /\ BatchLimit \in Nat \ {0}
    /\ Targets \subseteq {"url", "noop", "none"} /\ Targets # {}
    /\ MaxFaults \in Nat /\ MaxRestarts \in Nat

VARIABLES
    \* the database
    approved,   \* documents with processing_status approved_for_sync
    status,     \* delivery_status of the row r inserted, "none" without a row
    rank,       \* rank[r]: its place in the order of created_at
    attempts,   \* attempts
    retryAt,    \* next_retry_at: "null", "later" or "now" (reached)
    waited,     \* waited[r]: the delays scheduled for r
    audited,    \* audited[r]: its sync_outbound_delivery_attempt entries
    \* the handlers
    pc,         \* pc[r]: the call the handler is about to make
    answer,     \* answer[r]: the event in its 200 answer, or how it failed
    \* the worker
    target,     \* the configuration the process started with
    stage,      \* "idle", "next", "commit" or "audit"
    batch,      \* events of the batch not yet processed
    current,    \* the event being delivered
    success,    \* whether _deliver_event is about to commit a delivery
    \* the endpoint, and bounds
    posts,      \* posts[r]: requests sent to the endpoint for r
    received,   \* events the endpoint answered with a status below 300
    faults, restarts

rowVars == <<status, rank, attempts, retryAt, waited>>
handlerVars == <<pc, answer>>
workerVars == <<target, stage, batch, current, success>>
endpointVars == <<posts, received>>
vars == <<approved, rowVars, audited, handlerVars, workerVars, endpointVars,
          faults, restarts>>

Live == {"queued", "retry"}
Final == {"delivered", "failed_dlq"}
Stored(r) == status[r] # "none"

Init ==
    /\ approved = {}
    /\ status = [r \in Requests |-> "none"]
    /\ rank = [r \in Requests |-> 0]
    /\ attempts = [r \in Requests |-> 0]
    /\ retryAt = [r \in Requests |-> "null"]
    /\ waited = [r \in Requests |-> {}]
    /\ audited = [r \in Requests |-> 0]
    /\ pc = [r \in Requests |-> "new"]
    /\ answer = [r \in Requests |-> "none"]
    /\ target \in Targets
    /\ stage = "idle"
    /\ batch = {}
    /\ current = NoEvent
    /\ success = FALSE
    /\ posts = [r \in Requests |-> 0]
    /\ received = {}
    /\ faults = 0
    /\ restarts = 0

---------------------------------------------------------------------------
\* A commit is stored or not, and may raise either way; only an error that
\* raises counts against the bound.
CommitOutcome == {o \in [stored : BOOLEAN, raised : BOOLEAN] : ~o.raised => o.stored}

Charge(o) ==
    /\ o.raised => faults < MaxFaults
    /\ faults' = IF o.raised THEN faults + 1 ELSE faults

---------------------------------------------------------------------------
(* The document.                                                           *)

\* approve_document_for_sync
Approve(d) ==
    /\ d \notin approved
    /\ approved' = approved \cup {d}
    /\ UNCHANGED <<rowVars, audited, handlerVars, workerVars, endpointVars,
                   faults, restarts>>

\* revalidate_csf_qr and a new upload of the document overwrite
\* processing_status, approved or not.
Revoke(d) ==
    /\ d \in approved
    /\ approved' = approved \ {d}
    /\ UNCHANGED <<rowVars, audited, handlerVars, workerVars, endpointVars,
                   faults, restarts>>

---------------------------------------------------------------------------
(* The handler enqueue_outbound_sync.                                      *)

Answer(r, a) ==
    /\ pc' = [pc EXCEPT ![r] = "ended"]
    /\ answer' = [answer EXCEPT ![r] = a]

\* The approval is checked before the key is looked up.
CheckApproved(r) ==
    /\ pc[r] = "new"
    /\ IF DocOf[r] \in approved
       THEN pc' = [pc EXCEPT ![r] = "lookup"] /\ UNCHANGED answer
       ELSE Answer(r, "refused")
    /\ UNCHANGED <<approved, rowVars, audited, workerVars, endpointVars,
                   faults, restarts>>

SameKey(r) == {q \in Requests : Stored(q) /\ KeyOf[q] = KeyOf[r]}

\* get_by_idempotency_key
LookUpKey(r) ==
    /\ pc[r] = "lookup"
    /\ pc' = [pc EXCEPT ![r] = IF SameKey(r) = {} THEN "insert" ELSE "audit"]
    /\ UNCHANGED <<approved, rowVars, audited, answer, workerVars, endpointVars,
                   faults, restarts>>

\* Mutation: the table has no unique constraint on the key.
Conflict_EventIdOnly(r) == \E q \in Requests : Stored(q) /\ EventIdOf[q] = EventIdOf[r]

\* uq_doc_sync_company_idem, and event_id is unique.
Conflict(r) ==
    \E q \in Requests : Stored(q) /\ (KeyOf[q] = KeyOf[r] \/ EventIdOf[q] = EventIdOf[r])

\* An IntegrityError is not caught: the request answers 500.
InsertConflict(r) ==
    /\ pc[r] = "insert"
    /\ Conflict(r)
    /\ Answer(r, "error")
    /\ UNCHANGED <<approved, rowVars, audited, workerVars, endpointVars,
                   faults, restarts>>

InsertEvent(r) ==
    /\ pc[r] = "insert"
    /\ ~Conflict(r)
    /\ \E o \in CommitOutcome :
        /\ Charge(o)
        /\ IF o.stored
           THEN /\ status' = [status EXCEPT ![r] = "queued"]
                /\ rank' = [rank EXCEPT ![r] = Cardinality({q \in Requests : Stored(q)}) + 1]
           ELSE UNCHANGED <<status, rank>>
        /\ IF o.raised
           THEN Answer(r, "error")
           ELSE pc' = [pc EXCEPT ![r] = "audit"] /\ UNCHANGED answer
    /\ UNCHANGED <<approved, attempts, retryAt, waited, audited, workerVars,
                   endpointVars, restarts>>

\* The audit entry sync_outbound_enqueued, then the answer.
AuditEnqueued(r) ==
    /\ pc[r] = "audit"
    /\ \E o \in CommitOutcome :
        /\ Charge(o)
        /\ IF o.raised THEN Answer(r, "error") ELSE \E q \in SameKey(r) : Answer(r, q)
    /\ UNCHANGED <<approved, rowVars, audited, workerVars, endpointVars, restarts>>

---------------------------------------------------------------------------
(* The delivery worker.                                                    *)

\* Mutation: the query does not look at delivery_status.
Due_AnyStatus == {r \in Requests : Stored(r) /\ retryAt[r] # "later"}

\* Mutation: the query forgets the events that wait for a retry.
Due_QueuedOnly == {r \in Requests : status[r] = "queued"}

\* delivery_status queued or retry, next_retry_at null or reached
Due == {r \in Requests : status[r] \in Live /\ retryAt[r] # "later"}

\* process_outbound_batch: the first BatchLimit due events by created_at
TakeBatch ==
    /\ stage = "idle"
    /\ Due # {}
    /\ batch' = {r \in Due : Cardinality({q \in Due : rank[q] < rank[r]}) < BatchLimit}
    /\ stage' = "next"
    /\ UNCHANGED <<approved, rowVars, audited, handlerVars, target, current, success,
                   endpointVars, faults, restarts>>

Oldest(r) == r \in batch /\ \A q \in batch : rank[r] <= rank[q]

\* What the endpoint does with a POST, and whether the worker learns of it:
\* the answer may be lost, and the request may never arrive.
Reply == {[accepted |-> TRUE,  ok |-> TRUE],
          [accepted |-> TRUE,  ok |-> FALSE],
          [accepted |-> FALSE, ok |-> FALSE]}

\* _deliver_event, up to its commit
Deliver(r) ==
    /\ stage = "next"
    /\ Oldest(r)
    /\ batch' = batch \ {r}
    /\ current' = r
    /\ stage' = "commit"
    /\ \/ /\ target = "url"
          /\ \E reply \in Reply :
                /\ posts' = [posts EXCEPT ![r] = @ + 1]
                /\ received' = IF reply.accepted THEN received \cup {r} ELSE received
                /\ success' = reply.ok
       \/ /\ target # "url"
          /\ success' = (target = "noop")
          /\ UNCHANGED endpointVars
    /\ UNCHANGED <<approved, rowVars, audited, handlerVars, target, faults, restarts>>

\* _retry_delay_seconds
Schedule == <<60, 300, 900, 3600, 21600, 86400>>
RetryDelay(attempt) == Schedule[IF attempt < 6 THEN attempt ELSE 6]

\* Mutation: the limit is compared with the attempts before this one.
Exhausted_OffByOne(n) == n > MaxAttempts

\* event.attempts >= SYNC_OUTBOUND_MAX_ATTEMPTS
Exhausted(n) == n >= MaxAttempts

\* Mutation: a failed attempt is recorded as delivered.
Recorded_AlwaysDelivered(r, n) ==
    /\ status' = [status EXCEPT ![r] = "delivered"]
    /\ retryAt' = [retryAt EXCEPT ![r] = "null"]
    /\ UNCHANGED waited

\* What attempt n leaves in the row of r.  The noop target does not reset
\* next_retry_at.
Recorded(r, n) ==
    \/ /\ success
       /\ status' = [status EXCEPT ![r] = "delivered"]
       /\ retryAt' = IF target = "noop" THEN retryAt
                     ELSE [retryAt EXCEPT ![r] = "null"]
       /\ UNCHANGED waited
    \/ /\ ~success
       /\ Exhausted(n)
       /\ status' = [status EXCEPT ![r] = "failed_dlq"]
       /\ retryAt' = [retryAt EXCEPT ![r] = "null"]
       /\ UNCHANGED waited
    \/ /\ ~success
       /\ ~Exhausted(n)
       /\ status' = [status EXCEPT ![r] = "retry"]
       /\ retryAt' = [retryAt EXCEPT ![r] = "later"]
       /\ waited' = [waited EXCEPT ![r] = @ \cup {RetryDelay(n)}]

\* Mutation: a delivery is not counted as an attempt.
Counted_FailuresOnly(r) == IF success THEN attempts ELSE [attempts EXCEPT ![r] = @ + 1]

\* event.attempts = (event.attempts or 0) + 1
Counted(r) == [attempts EXCEPT ![r] = @ + 1]

\* The commit of _deliver_event.  An error leaves the batch: the loop of the
\* worker catches it and polls again later.
CommitDelivery ==
    /\ stage = "commit"
    /\ \E o \in CommitOutcome :
        /\ Charge(o)
        /\ IF o.stored
           THEN /\ attempts' = Counted(current)
                /\ Recorded(current, attempts[current] + 1)
                /\ UNCHANGED rank
           ELSE UNCHANGED rowVars
        /\ IF o.raised
           THEN stage' = "idle" /\ batch' = {} /\ current' = NoEvent
           ELSE stage' = "audit" /\ UNCHANGED <<batch, current>>
    /\ success' = FALSE
    /\ UNCHANGED <<approved, audited, handlerVars, target, endpointVars, restarts>>

\* Mutation: every event of the batch is written to the trail each time.
AuditedRows_Batch == batch \cup {current}

\* The event the audit entry of the loop is about
AuditedRows == {current}

\* The audit entry sync_outbound_delivery_attempt
AuditDelivery ==
    /\ stage = "audit"
    /\ \E o \in CommitOutcome :
        /\ Charge(o)
        /\ audited' = IF o.stored
                      THEN [r \in Requests |-> IF r \in AuditedRows THEN audited[r] + 1
                                               ELSE audited[r]]
                      ELSE audited
        /\ stage' = IF o.raised \/ batch = {} THEN "idle" ELSE "next"
        /\ batch' = IF o.raised THEN {} ELSE batch
    /\ current' = NoEvent
    /\ UNCHANGED <<approved, rowVars, handlerVars, target, success, endpointVars,
                   restarts>>

---------------------------------------------------------------------------
(* Time and the process.                                                   *)

\* next_retry_at passes.
Elapse(r) ==
    /\ retryAt[r] = "later"
    /\ retryAt' = [retryAt EXCEPT ![r] = "now"]
    /\ UNCHANGED <<approved, status, rank, attempts, waited, audited, handlerVars,
                   workerVars, endpointVars, faults, restarts>>

\* The process stops between two calls and is started again, perhaps with
\* another configuration.
Crash ==
    /\ restarts < MaxRestarts
    /\ restarts' = restarts + 1
    /\ target' \in Targets
    /\ stage' = "idle"
    /\ batch' = {}
    /\ current' = NoEvent
    /\ success' = FALSE
    /\ pc' = [r \in Requests |-> IF pc[r] = "new" THEN "new" ELSE "ended"]
    /\ answer' = [r \in Requests |-> IF pc[r] \in {"new", "ended"} THEN answer[r]
                                     ELSE "error"]
    /\ UNCHANGED <<approved, rowVars, audited, endpointVars, faults>>

---------------------------------------------------------------------------
Handler(r) == LookUpKey(r) \/ InsertConflict(r) \/ InsertEvent(r) \/ AuditEnqueued(r)
Worker == TakeBatch \/ (\E r \in Requests : Deliver(r)) \/ CommitDelivery \/ AuditDelivery

Next ==
    \/ \E d \in Docs : Approve(d) \/ Revoke(d)
    \/ \E r \in Requests : CheckApproved(r) \/ Handler(r) \/ Elapse(r)
    \/ Worker
    \/ Crash

Spec == Init /\ [][Next]_vars

\* Threads run, the worker polls every SYNC_OUTBOUND_POLL_SECONDS, time passes.
Fairness ==
    /\ \A r \in Requests : WF_vars(Handler(r)) /\ WF_vars(Elapse(r))
    /\ WF_vars(Worker)

FairSpec == Spec /\ Fairness

---------------------------------------------------------------------------
(* Properties.                                                             *)

TypeOK ==
    /\ approved \in SUBSET Docs
    /\ status \in [Requests -> {"none"} \cup Live \cup Final]
    /\ rank \in [Requests -> Nat]
    /\ attempts \in [Requests -> 0..MaxAttempts]
    /\ retryAt \in [Requests -> {"null", "later", "now"}]
    /\ waited \in [Requests -> SUBSET {Schedule[i] : i \in 1..6}]
    /\ audited \in [Requests -> Nat]
    /\ pc \in [Requests -> {"new", "lookup", "insert", "audit", "ended"}]
    /\ answer \in [Requests -> Requests \cup Answers]
    /\ target \in Targets
    /\ stage \in {"idle", "next", "commit", "audit"}
    /\ batch \in SUBSET Requests
    /\ current \in Requests \cup {NoEvent}
    /\ success \in BOOLEAN
    /\ posts \in [Requests -> Nat]
    /\ received \in SUBSET Requests
    /\ faults \in 0..MaxFaults
    /\ restarts \in 0..MaxRestarts

(***************************************************************************)
(* However requests interleave, accepted requests with one key are         *)
(* answered with one event, stored under that key: only one of the         *)
(* requests that found no event inserts (enqueue_outbound_event).          *)
(***************************************************************************)
SameAnswer ==
    \A r \in Requests : answer[r] \in Requests =>
        /\ Stored(answer[r]) /\ KeyOf[answer[r]] = KeyOf[r]
        /\ \A q \in Requests :
              answer[q] \in Requests /\ KeyOf[q] = KeyOf[r] => answer[q] = answer[r]

(***************************************************************************)
(* Without a noop target an event is only reported delivered when the      *)
(* endpoint accepted it (_deliver_event, process_outbound_batch).          *)
(***************************************************************************)
DeliveredWasReceived ==
    "noop" \notin Targets =>
        \A r \in Requests : status[r] = "delivered" => r \in received

(***************************************************************************)
(* The bookkeeping of the worker: a live event has attempts left; only an  *)
(* event that waits for a retry has a next_retry_at ahead; the dead-letter *)
(* state is only reached with every attempt used.                          *)
(***************************************************************************)
AttemptsLeft ==
    \A r \in Requests :
        /\ status[r] \in Live => attempts[r] < MaxAttempts
        /\ status[r] = "retry" <=> (retryAt[r] # "null" /\ status[r] \in Live)
        /\ retryAt[r] = "later" => status[r] = "retry"
        /\ status[r] = "failed_dlq" => attempts[r] = MaxAttempts

(***************************************************************************)
(* At least once, and no more than that costs: the endpoint sees an event  *)
(* more often than its attempts only by as many posts as there were        *)
(* database errors and crashes, plus the one in flight.                    *)
(***************************************************************************)
PostsPaidFor ==
    \A r \in Requests :
        posts[r] <= attempts[r] + faults + restarts
                      + (IF stage = "commit" /\ current = r THEN 1 ELSE 0)

(***************************************************************************)
(* The trail and the counter tell one story: no entry for an attempt that  *)
(* was not counted, and a counted attempt without its entry only for an    *)
(* error or a crash between the two commits, or while its entry is about   *)
(* to be written (the loop of process_outbound_batch).                     *)
(***************************************************************************)
TrailMatchesAttempts ==
    \A r \in Requests :
        /\ audited[r] <= attempts[r]
        /\ attempts[r] <= audited[r] + faults + restarts
                            + (IF stage = "audit" /\ current = r THEN 1 ELSE 0)

(***************************************************************************)
(* Requests, errors, crashes and the batches of the worker implement the   *)
(* life of an event a client may rely on.                                  *)
(***************************************************************************)
Event == INSTANCE OutboundEvent WITH Events <- Requests
ImplementsEvent == Event!Spec

(***************************************************************************)
(* Every event is eventually delivered or given up, if the worker keeps    *)
(* running: errors and crashes delay it, an endpoint that never answers    *)
(* does not keep it alive.                                                 *)
(***************************************************************************)
EventSettles == \A r \in Requests : status[r] = "queued" ~> status[r] \in Final

(***************************************************************************)
(* CONTRATO_OPERATIVO_V1.md 6: "Reintento con misma clave devuelve misma   *)
(* respuesta semantica."  Once a key is answered with an event, a request  *)
(* with that key does not fail: it gets that event, or it is refused for   *)
(* what the document was when it was checked.                              *)
(***************************************************************************)
RetrySameAnswer ==
    \A r, q \in Requests :
        KeyOf[r] = KeyOf[q] /\ answer[q] \in Requests =>
            answer[r] \in {"none", "refused", answer[q]}
=============================================================================
