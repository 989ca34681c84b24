--------------------------- MODULE DocumentJobs ---------------------------
(***************************************************************************)
(* Asynchronous ingestion of documents: POST /v1/documents (the handler    *)
(* ingest_document), the in-process queue and its worker tasks             *)
(* (services/document_queue.py) and the job rows they write                *)
(* (services/job_service.py).                                              *)
(*                                                                         *)
(* The database survives a restart; the asyncio queue, the requests in     *)
(* flight and the worker tasks do not.  Every database call of the handler *)
(* and of the worker is a step of its own, because a worker runs in a      *)
(* thread (asyncio.to_thread) and the process may stop between two calls.  *)
(***************************************************************************)
EXTENDS Naturals, Sequences, FiniteSets

CONSTANTS
    Jobs,         \* uploads, each with the id its job row gets
    Docs,         \* documents, told apart by their tenant-scoped csf_hash
    DocOf,        \* DocOf[j]: the document uploaded as j
    Workers,      \* the worker tasks, DOCUMENT_QUEUE_WORKERS of them
    MaxFaults,    \* bound on the database errors of a behaviour
    MaxRestarts   \* bound on the crashes and shutdowns of a behaviour

NoJob == "no job"
NoDoc == "none"

ASSUME JobsAssumption ==
    /\ NoJob \notin Jobs
    /\ NoDoc \notin Docs
    /\ DocOf \in [Jobs -> Docs]
ASSUME BoundsAssumption == MaxFaults \in Nat /\ MaxRestarts \in Nat

VARIABLES
    \* the database
    status,      \* document_job.status, "none" while there is no row
    documentId,  \* document_job.document_id
    csfs,        \* documents stored in the csf table
    startLog,    \* jobs with a document_upload_start audit entry
    endLog,      \* endLog[j]: outcomes in its document_upload_complete entries
    \* the process
    process,     \* "up", "draining" (lifespan exit) or "down"
    request,     \* request[j]: where the handler that uploads j is
    queue,       \* InProcessDocumentQueue._queue
    pc,          \* pc[w]: the call of _process_document_task w is about to make
    task,        \* task[w]: the job w holds
    poisoned,    \* poisoned[w]: w's session needs a rollback it never gets
    \* history: accepted jobs that were unfinished when the process stopped; no
    \* action reads it
    abandoned,
    \* bounds
    faults, restarts

database == <<status, documentId, csfs, startLog, endLog>>
vars == <<database, process, request, queue, pc, task, poisoned,
          abandoned, faults, restarts>>

Running == {"begin", "extract", "persist", "finish", "audit", "fail", "failaudit"}

TypeOK ==
    /\ status \in [Jobs -> {"none", "queued", "processing", "done", "failed"}]
    /\ documentId \in [Jobs -> Docs \cup {NoDoc}]
    /\ csfs \in SUBSET Docs
    /\ startLog \in SUBSET Jobs
    /\ endLog \in [Jobs -> SUBSET {"success", "error"}]
    /\ process \in {"up", "draining", "down"}
    /\ request \in [Jobs -> {"new", "created", "reading", "accepted", "error"}]
    /\ queue \in Seq(Jobs)
    /\ pc \in [Workers -> Running \cup {"idle", "gone"}]
    /\ task \in [Workers -> Jobs \cup {NoJob}]
    /\ poisoned \in [Workers -> BOOLEAN]
    /\ abandoned \in SUBSET Jobs
    /\ faults \in 0..MaxFaults
    /\ restarts \in 0..MaxRestarts

Init ==
    /\ status = [j \in Jobs |-> "none"]
    /\ documentId = [j \in Jobs |-> NoDoc]
    /\ csfs = {}
    /\ startLog = {}
    /\ endLog = [j \in Jobs |-> {}]
    /\ process = "up"
    /\ request = [j \in Jobs |-> "new"]
    /\ queue = <<>>
    /\ pc = [w \in Workers |-> "idle"]
    /\ task = [w \in Workers |-> NoJob]
    /\ poisoned = [w \in Workers |-> FALSE]
    /\ abandoned = {}
    /\ faults = 0
    /\ restarts = 0

---------------------------------------------------------------------------
(* The outcomes of a call that reads a row, writes and commits.  It may    *)
(* raise with the write stored or not, and leave the session usable or     *)
(* refusing every later statement until a rollback:                        *)
(*   not stored, usable   a statement raises before the write (SQLite's    *)
(*                        "database is locked" on a SELECT)                *)
(*   not stored, poisons  the write raises inside the flush                *)
(*   stored, poisons      the answer of the commit is lost                 *)
(*   stored, usable       the db.refresh after the commit raises           *)

CommitRefresh ==
    {o \in [stored : BOOLEAN, raised : BOOLEAN, poisons : BOOLEAN] :
        ~o.raised => o.stored /\ ~o.poisons}

\* The update_job_* functions do not refresh.
Commit == {o \in CommitRefresh : o.raised /\ o.stored => o.poisons}

Charge(o) ==
    /\ o.raised => faults < MaxFaults
    /\ faults' = IF o.raised THEN faults + 1 ELSE faults

---------------------------------------------------------------------------
(* The handler ingest_document.                                            *)

\* job_service.create_job: the row is committed before the content is read.
CreateJob(j) ==
    /\ process = "up"
    /\ request[j] = "new"
    /\ \E o \in CommitRefresh :
        /\ Charge(o)
        /\ status' = IF o.stored THEN [status EXCEPT ![j] = "queued"] ELSE status
        /\ request' = [request EXCEPT ![j] = IF o.raised THEN "error" ELSE "created"]
    /\ UNCHANGED <<documentId, csfs, startLog, endLog, process, queue, pc, task,
                   poisoned, abandoned, restarts>>

AuditStart(j) ==
    /\ process = "up"
    /\ request[j] = "created"
    /\ \E o \in CommitRefresh :
        /\ Charge(o)
        /\ startLog' = IF o.stored THEN startLog \cup {j} ELSE startLog
        /\ request' = [request EXCEPT ![j] = IF o.raised THEN "error" ELSE "reading"]
    /\ UNCHANGED <<status, documentId, csfs, endLog, process, queue, pc, task,
                   poisoned, abandoned, restarts>>

\* await file.read() returned; the queue is unbounded, so put never waits.
Enqueue(j) ==
    /\ process = "up"
    /\ request[j] = "reading"
    /\ queue' = Append(queue, j)
    /\ request' = [request EXCEPT ![j] = "accepted"]
    /\ UNCHANGED <<database, process, pc, task, poisoned, abandoned,
                   faults, restarts>>

\* await file.read() raised, or the request was cancelled while it waited.
ReadFails(j) ==
    /\ process = "up"
    /\ request[j] = "reading"
    /\ request' = [request EXCEPT ![j] = "error"]
    /\ UNCHANGED <<database, process, queue, pc, task, poisoned, abandoned,
                   faults, restarts>>

---------------------------------------------------------------------------
(* A worker task.                                                          *)

\* Mutation: a document that cannot be read ends the worker.
OnError_NoHandler(w) == "gone"

\* An exception inside the try goes to the handler ("fail"); inside the
\* handler it ends the worker's loop, which has a finally and no except.
OnError(w) == IF pc[w] \in {"fail", "failaudit"} THEN "gone" ELSE "fail"

\* Mutation: the worker leaves its loop after one task.
NextTask_Once == "gone"

\* After the last call the loop gets the next task, unless stop() cancelled it.
NextTask == IF process = "up" THEN "idle" ELSE "gone"

\* w makes a database call with outcome o and goes to next if it returned.
\* Leaving the function closes the session.
Goto(w, o, next) ==
    LET to == IF o.raised THEN OnError(w) ELSE next IN
    /\ pc' = [pc EXCEPT ![w] = to]
    /\ task' = IF to \in {"idle", "gone"} THEN [task EXCEPT ![w] = NoJob] ELSE task
    /\ poisoned' = [poisoned EXCEPT ![w] = o.poisons /\ to \notin {"idle", "gone"}]

Call(w, o, next) == Charge(o) /\ Goto(w, o, next)

\* Mutation: the task stays at the head of the queue while it is processed.
GetTask_Peek(w) ==
    /\ process = "up"
    /\ pc[w] = "idle"
    /\ queue # <<>>
    /\ task' = [task EXCEPT ![w] = Head(queue)]
    /\ pc' = [pc EXCEPT ![w] = "begin"]
    /\ UNCHANGED <<database, process, request, queue, poisoned, abandoned,
                   faults, restarts>>

\* _worker_loop: task = await self._queue.get()
GetTask(w) ==
    /\ process = "up"
    /\ pc[w] = "idle"
    /\ queue # <<>>
    /\ task' = [task EXCEPT ![w] = Head(queue)]
    /\ queue' = Tail(queue)
    /\ pc' = [pc EXCEPT ![w] = "begin"]
    /\ UNCHANGED <<database, process, request, poisoned, abandoned, faults,
                   restarts>>

UpdateJobProcessing(w) ==
    /\ pc[w] = "begin"
    /\ \E o \in Commit :
        /\ Call(w, o, "extract")
        /\ status' = IF o.stored THEN [status EXCEPT ![task[w]] = "processing"]
                     ELSE status
    /\ UNCHANGED <<documentId, csfs, startLog, endLog, process, request, queue,
                   abandoned, restarts>>

\* Mutation: process_pdf's result is never stored.
Extract_NoPersist(w) ==
    /\ pc[w] = "extract"
    /\ pc' = [pc EXCEPT ![w] = "finish"]
    /\ UNCHANGED <<database, process, request, queue, task, poisoned, abandoned,
                   faults, restarts>>

\* save_upload and process_pdf use no session: a document they cannot read
\* raises and leaves the session clean.
Extract(w) ==
    /\ pc[w] = "extract"
    /\ pc' = [pc EXCEPT ![w] = "persist"]
    /\ UNCHANGED <<database, process, request, queue, task, poisoned, abandoned,
                   faults, restarts>>

ExtractRaises(w) ==
    /\ pc[w] = "extract"
    /\ Goto(w, [stored |-> FALSE, raised |-> TRUE, poisons |-> FALSE], "persist")
    /\ UNCHANGED <<database, process, request, queue, abandoned, faults,
                   restarts>>

\* Mutation: the success entry is written before update_job_done.
PersistCsf_AuditFirst(w) ==
    /\ pc[w] = "persist"
    /\ \E o \in CommitRefresh :
        /\ Call(w, o, "audit")
        /\ csfs' = IF o.stored THEN csfs \cup {DocOf[task[w]]} ELSE csfs
    /\ UNCHANGED <<status, documentId, startLog, endLog, process, request, queue,
                   abandoned, restarts>>

\* _persist_csf inserts the document or updates the row with its hash.
PersistCsf(w) ==
    /\ pc[w] = "persist"
    /\ \E o \in CommitRefresh :
        /\ Call(w, o, "finish")
        /\ csfs' = IF o.stored THEN csfs \cup {DocOf[task[w]]} ELSE csfs
    /\ UNCHANGED <<status, documentId, startLog, endLog, process, request, queue,
                   abandoned, restarts>>

\* Mutation: update_job_done is given the job's id for the document's.
CsfId_JobId(w) == task[w]

\* csf.id, the row _persist_csf returned
CsfId(w) == DocOf[task[w]]

UpdateJobDone(w) ==
    /\ pc[w] = "finish"
    /\ \E o \in Commit :
        /\ Call(w, o, "audit")
        /\ status' = IF o.stored THEN [status EXCEPT ![task[w]] = "done"] ELSE status
        /\ documentId' = IF o.stored
                         THEN [documentId EXCEPT ![task[w]] = CsfId(w)]
                         ELSE documentId
    /\ UNCHANGED <<csfs, startLog, endLog, process, request, queue, abandoned,
                   restarts>>

AuditDone(w) ==
    /\ pc[w] = "audit"
    /\ \E o \in CommitRefresh :
        /\ Call(w, o, NextTask)
        /\ endLog' = IF o.stored THEN [endLog EXCEPT ![task[w]] = @ \cup {"success"}]
                     ELSE endLog
    /\ UNCHANGED <<status, documentId, csfs, startLog, process, request, queue,
                   abandoned, restarts>>

\* Mutation: a failed job takes back the document_id it published.
UpdateJobFailed_Withdraws(w) ==
    /\ pc[w] = "fail"
    /\ ~poisoned[w]
    /\ \E o \in Commit :
        /\ Call(w, o, "failaudit")
        /\ status' = IF o.stored THEN [status EXCEPT ![task[w]] = "failed"] ELSE status
        /\ documentId' = IF o.stored THEN [documentId EXCEPT ![task[w]] = NoDoc]
                         ELSE documentId
    /\ UNCHANGED <<csfs, startLog, endLog, process, request, queue, abandoned,
                   restarts>>

\* The except branch calls update_job_failed without a rollback: on a session
\* that needs one the first query raises again.
UpdateJobFailed(w) ==
    /\ pc[w] = "fail"
    /\ ~poisoned[w]
    /\ \E o \in Commit :
        /\ Call(w, o, "failaudit")
        /\ status' = IF o.stored THEN [status EXCEPT ![task[w]] = "failed"] ELSE status
    /\ UNCHANGED <<documentId, csfs, startLog, endLog, process, request, queue,
                   abandoned, restarts>>

UpdateJobFailedRaises(w) ==
    /\ pc[w] = "fail"
    /\ poisoned[w]
    /\ Goto(w, [stored |-> FALSE, raised |-> TRUE, poisons |-> TRUE], "gone")
    /\ UNCHANGED <<database, process, request, queue, abandoned, faults,
                   restarts>>

AuditFailed(w) ==
    /\ pc[w] = "failaudit"
    /\ \E o \in CommitRefresh :
        /\ Call(w, o, NextTask)
        /\ endLog' = IF o.stored THEN [endLog EXCEPT ![task[w]] = @ \cup {"error"}]
                     ELSE endLog
    /\ UNCHANGED <<status, documentId, csfs, startLog, process, request, queue,
                   abandoned, restarts>>

---------------------------------------------------------------------------
(* The process.                                                            *)

\* Requests that have not answered are lost with the process.
AbortRequests ==
    request' = [j \in Jobs |-> IF request[j] \in {"created", "reading"}
                               THEN "error" ELSE request[j]]

\* Accepted jobs whose row says that they still run
Unfinished ==
    {j \in Jobs : request[j] = "accepted" /\ status[j] \in {"queued", "processing"}}

\* stop() cancels the worker tasks; a call running in a thread goes on.
Shutdown ==
    /\ process = "up"
    /\ restarts < MaxRestarts
    /\ process' = "draining"
    /\ pc' = [w \in Workers |-> IF pc[w] = "idle" THEN "gone" ELSE pc[w]]
    /\ AbortRequests
    /\ UNCHANGED <<database, queue, task, poisoned, abandoned, faults, restarts>>

Exit ==
    /\ process = "draining"
    /\ \A w \in Workers : pc[w] = "gone"
    /\ process' = "down"
    /\ queue' = <<>>
    /\ abandoned' = abandoned \cup Unfinished
    /\ UNCHANGED <<database, request, pc, task, poisoned, faults, restarts>>

Crash ==
    /\ process \in {"up", "draining"}
    /\ restarts < MaxRestarts
    /\ process' = "down"
    /\ queue' = <<>>
    /\ abandoned' = abandoned \cup Unfinished
    /\ pc' = [w \in Workers |-> "gone"]
    /\ task' = [w \in Workers |-> NoJob]
    /\ poisoned' = [w \in Workers |-> FALSE]
    /\ AbortRequests
    /\ UNCHANGED <<database, faults, restarts>>

\* lifespan: start() creates the workers over a new, empty queue; no job row
\* is read back.
Restart ==
    /\ process = "down"
    /\ process' = "up"
    /\ restarts' = restarts + 1
    /\ pc' = [w \in Workers |-> "idle"]
    /\ UNCHANGED <<database, request, queue, task, poisoned, abandoned, faults>>

---------------------------------------------------------------------------
Handler(j) == CreateJob(j) \/ AuditStart(j) \/ Enqueue(j) \/ ReadFails(j)

Worker(w) ==
    \/ GetTask(w) \/ UpdateJobProcessing(w) \/ Extract(w) \/ ExtractRaises(w)
    \/ PersistCsf(w) \/ UpdateJobDone(w) \/ AuditDone(w)
    \/ UpdateJobFailed(w) \/ UpdateJobFailedRaises(w) \/ AuditFailed(w)

Next ==
    \/ \E j \in Jobs : Handler(j)
    \/ \E w \in Workers : Worker(w)
    \/ Shutdown \/ Exit \/ Crash \/ Restart

Spec == Init /\ [][Next]_vars

\* The event loop resumes a request whose content is read, the threads run,
\* and the platform restarts the process.  Nothing is assumed of the clients,
\* of the database or of how often the process stops.
Fairness ==
    /\ \A j \in Jobs : WF_vars(AuditStart(j)) /\ WF_vars(Enqueue(j) \/ ReadFails(j))
    /\ \A w \in Workers : WF_vars(Worker(w))
    /\ WF_vars(Exit) /\ WF_vars(Restart)

FairSpec == Spec /\ Fairness

---------------------------------------------------------------------------
(* Properties.                                                             *)

Queued(j) == \E i \in 1..Len(queue) : queue[i] = j
Held(j) == \E w \in Workers : task[w] = j

(***************************************************************************)
(* A job reported done names the stored document that was uploaded as that *)
(* job, and no document_id ever names a document that is not stored: what  *)
(* get_job_status publishes as pdf_download_path can be fetched.           *)
(***************************************************************************)
DoneHasDocument ==
    \A j \in Jobs :
        /\ status[j] = "done" => documentId[j] = DocOf[j]
        /\ documentId[j] # NoDoc => documentId[j] \in csfs

(***************************************************************************)
(* A job is in one place: never queued twice, never held by two workers,   *)
(* never queued while a worker holds it.  The update_job_* functions test  *)
(* no status, so this is all that keeps two workers from writing one row.  *)
(***************************************************************************)
OneOwner ==
    /\ \A i, k \in 1..Len(queue) : queue[i] = queue[k] => i = k
    /\ \A v, w \in Workers : task[v] = task[w] /\ task[v] # NoJob => v = w
    /\ \A j \in Jobs : ~(Queued(j) /\ Held(j))

(***************************************************************************)
(* The audit trail never says more than the job: an accepted upload has    *)
(* its start entry; a success entry is only written for a job that         *)
(* published a stored document, an error entry only for a failed one.      *)
(* (Both entries can exist: a refresh that raises after the success entry  *)
(* is committed sends the worker to its except branch.)                    *)
(***************************************************************************)
AuditFollowsJob ==
    \A j \in Jobs :
        /\ request[j] = "accepted" => j \in startLog
        /\ "success" \in endLog[j] => /\ status[j] \in {"done", "failed"}
                                      /\ documentId[j] = DocOf[j]
        /\ "error" \in endLog[j] => status[j] = "failed"

\* Accepted jobs that will never be finished unless a worker is left: no worker
\* holds them, and they are not in the queue or nobody takes from it any more
WorkerLeft == \E w \in Workers : pc[w] # "gone"
Dropped == {j \in Unfinished : ~Held(j) /\ ~Queued(j)}
Lost == {j \in Unfinished : ~Held(j) /\ (Queued(j) => ~WorkerLeft)}

(***************************************************************************)
(* What an accepted job can be lost to.  A stop of the process abandons    *)
(* every unfinished job, queued or running: the queue is in memory and     *)
(* start() reads no row back.  Otherwise each database error drops at most *)
(* the one job whose worker it ends (the except branch raises again), and  *)
(* as long as there were fewer errors than workers a worker is left for    *)
(* the others.  As many errors as workers, one with the default of one     *)
(* worker, can strand the whole queue in a process that still accepts.     *)
(***************************************************************************)
LossBounded ==
    /\ Cardinality(Dropped \ abandoned) <= faults
    /\ process = "up" /\ faults < Cardinality(Workers) =>
           Cardinality(Lost \ abandoned) <= faults

(***************************************************************************)
(* The queue, the workers and their failures implement the life of a job   *)
(* that a polling client may rely on.                                      *)
(***************************************************************************)
Lifecycle == INSTANCE JobLifecycle
ImplementsLifecycle == Lifecycle!Spec

(***************************************************************************)
(* Every accepted upload ends, whatever documents are uploaded: a worker   *)
(* that is left takes every queued job to done or failed, also after       *)
(* errors of other jobs and after restarts.  Only a database error or a    *)
(* stop of the process makes it one of the Lost that LossBounded counts,   *)
(* or leaves its end without an audit entry.                               *)
(***************************************************************************)
Disturbed == faults > 0 \/ process # "up" \/ restarts > 0
AcceptedJobEnds ==
    \A j \in Jobs : request[j] = "accepted" ~>
        \/ status[j] \in {"done", "failed"} /\ (endLog[j] # {} \/ Disturbed)
        \/ j \in Lost /\ Disturbed
===========================================================================
