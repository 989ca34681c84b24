------------------------ MODULE DocumentJobs_proofs ------------------------
(* Safety of the ingestion queue for every set of jobs, documents and      *)
(* workers and every bound on errors and restarts.                         *)
EXTENDS DocumentJobs, FiniteSetTheorems, TLAPS

\* Where a worker is says what the row of its job holds.
Stage(w) ==
    LET j == task[w] IN
    /\ pc[w] \in {"idle", "gone"} <=> j = NoJob
    /\ j # NoJob => request[j] = "accepted"
    /\ pc[w] = "begin" => status[j] = "queued"
    /\ pc[w] \in {"extract", "persist", "finish"} => status[j] = "processing"
    /\ pc[w] = "finish" => DocOf[j] \in csfs
    /\ pc[w] = "audit" => status[j] = "done"
    /\ pc[w] = "fail" => status[j] \in {"queued", "processing", "done"}
    /\ pc[w] = "failaudit" => status[j] = "failed"
    /\ poisoned[w] => pc[w] = "fail"

\* A job waiting in the queue was accepted and nobody touched its row.
Waiting ==
    \A i \in 1..Len(queue) :
        request[queue[i]] = "accepted" /\ status[queue[i]] = "queued"

\* How far the handler got, and what it wrote.
Uploading ==
    \A j \in Jobs :
        /\ request[j] = "new" => status[j] = "none"
        /\ request[j] \in {"created", "reading"} => status[j] = "queued"
        /\ request[j] \in {"reading", "accepted"} => j \in startLog

\* A published document_id is the stored document of that job.
Published ==
    \A j \in Jobs :
        /\ documentId[j] # NoDoc => documentId[j] = DocOf[j] /\ DocOf[j] \in csfs
        /\ status[j] = "done" => documentId[j] = DocOf[j]

Stopped ==
    /\ process # "up" => restarts < MaxRestarts
    /\ process = "down" => queue = <<>> /\ \A w \in Workers : pc[w] = "gone"

IInv ==
    /\ TypeOK
    /\ \A w \in Workers : Stage(w)
    /\ OneOwner
    /\ Waiting
    /\ Uploading
    /\ Published
    /\ AuditFollowsJob
    /\ Stopped

---------------------------------------------------------------------------
\* What the outcomes of a database call may combine.
LEMMA OutcomeFields ==
    /\ Commit \subseteq CommitRefresh
    /\ \A o \in CommitRefresh :
        /\ o.stored \in BOOLEAN /\ o.raised \in BOOLEAN /\ o.poisons \in BOOLEAN
        /\ ~o.raised => o.stored /\ ~o.poisons
BY DEF Commit, CommitRefresh

\* Charging an error keeps the count within its bound.
LEMMA ChargeBound ==
    ASSUME faults \in 0..MaxFaults, NEW o \in CommitRefresh, Charge(o)
    PROVE  faults' \in 0..MaxFaults
BY BoundsAssumption, OutcomeFields DEF Charge

\* Appending to and taking from the queue, index by index.
LEMMA AppendIndex ==
    ASSUME NEW q \in Seq(Jobs), NEW j \in Jobs
    PROVE  /\ Append(q, j) \in Seq(Jobs)
           /\ Len(Append(q, j)) = Len(q) + 1
           /\ \A i \in 1..Len(q) : Append(q, j)[i] = q[i]
           /\ Append(q, j)[Len(q) + 1] = j
OBVIOUS

LEMMA TailIndex ==
    ASSUME NEW q \in Seq(Jobs), q # <<>>
    PROVE  /\ Head(q) = q[1] /\ Head(q) \in Jobs
           /\ Tail(q) \in Seq(Jobs)
           /\ Len(q) \in Nat \ {0}
           /\ Len(Tail(q)) = Len(q) - 1
           /\ \A i \in 1..Len(Tail(q)) : i + 1 \in 1..Len(q) /\ Tail(q)[i] = q[i + 1]
OBVIOUS

LEMMA InitIInv == Init => IInv
BY JobsAssumption, BoundsAssumption
   DEF Init, IInv, TypeOK, Stage, OneOwner, Queued, Held, Waiting, Uploading,
       Published, AuditFollowsJob, Stopped, Running

\* The steps of the handler that do not touch the queue.
LEMMA HandlerIInv ==
    ASSUME IInv, NEW j \in Jobs, CreateJob(j) \/ AuditStart(j) \/ ReadFails(j)
    PROVE  IInv'
<1>1. CASE CreateJob(j)
  <2> PICK o \in CommitRefresh :
        /\ Charge(o)
        /\ status' = IF o.stored THEN [status EXCEPT ![j] = "queued"] ELSE status
        /\ request' = [request EXCEPT ![j] = IF o.raised THEN "error" ELSE "created"]
    BY <1>1 DEF CreateJob
  <2>1. faults' \in 0..MaxFaults
    BY ChargeBound DEF IInv, TypeOK
  <2>2. TypeOK'
    BY <1>1, <2>1, OutcomeFields DEF IInv, TypeOK, CreateJob
  <2>3. request[j] = "new" /\ status[j] = "none"
    BY <1>1 DEF CreateJob, IInv, Uploading
  <2>4. (\A w \in Workers : Stage(w))'
    BY <1>1, <2>3, OutcomeFields DEF IInv, TypeOK, Stage, CreateJob
  <2>5. OneOwner'
    BY <1>1 DEF IInv, OneOwner, Queued, Held, CreateJob
  <2>6. Waiting'
    BY <1>1, <2>3, OutcomeFields DEF IInv, TypeOK, Waiting, CreateJob
  <2>7. Uploading'
    BY <1>1, <2>3, OutcomeFields DEF IInv, TypeOK, Uploading, CreateJob
  <2>8. Published' /\ AuditFollowsJob'
    BY <1>1, <2>3, OutcomeFields
       DEF IInv, TypeOK, Published, AuditFollowsJob, CreateJob
  <2>9. Stopped'
    BY <1>1 DEF IInv, Stopped, CreateJob
  <2> QED
    BY <2>2, <2>4, <2>5, <2>6, <2>7, <2>8, <2>9 DEF IInv
<1>2. CASE AuditStart(j)
  <2> PICK o \in CommitRefresh :
        /\ Charge(o)
        /\ startLog' = IF o.stored THEN startLog \cup {j} ELSE startLog
        /\ request' = [request EXCEPT ![j] = IF o.raised THEN "error" ELSE "reading"]
    BY <1>2 DEF AuditStart
  <2>1. faults' \in 0..MaxFaults
    BY ChargeBound DEF IInv, TypeOK
  <2>2. TypeOK'
    BY <1>2, <2>1, OutcomeFields DEF IInv, TypeOK, AuditStart
  <2>3. (\A w \in Workers : Stage(w))'
    BY <1>2 DEF IInv, TypeOK, Stage, AuditStart
  <2>4. OneOwner' /\ Published' /\ Stopped'
    BY <1>2 DEF IInv, OneOwner, Queued, Held, Published, Stopped, AuditStart
  <2>5. Waiting' /\ Uploading' /\ AuditFollowsJob'
    BY <1>2, OutcomeFields
       DEF IInv, TypeOK, Waiting, Uploading, AuditFollowsJob, AuditStart
  <2> QED
    BY <2>2, <2>3, <2>4, <2>5 DEF IInv
<1>3. CASE ReadFails(j)
  <2>1. TypeOK'
    BY <1>3 DEF IInv, TypeOK, ReadFails, database
  <2>2. (\A w \in Workers : Stage(w))'
    BY <1>3 DEF IInv, TypeOK, Stage, ReadFails, database
  <2>3. OneOwner' /\ Published' /\ Stopped'
    BY <1>3 DEF IInv, OneOwner, Queued, Held, Published, Stopped, ReadFails, database
  <2>4. Waiting' /\ Uploading' /\ AuditFollowsJob'
    BY <1>3 DEF IInv, TypeOK, Waiting, Uploading, AuditFollowsJob, ReadFails, database
  <2> QED
    BY <2>1, <2>2, <2>3, <2>4 DEF IInv
<1> QED BY <1>1, <1>2, <1>3

\* The accepted job was in no queue and in no worker's hands.
LEMMA EnqueueIInv ==
    ASSUME IInv, NEW j \in Jobs, Enqueue(j)
    PROVE  IInv'
<1> USE DEF Enqueue, database
<1>1. queue' \in Seq(Jobs) /\ Len(queue') = Len(queue) + 1
      /\ (\A i \in 1..Len(queue) : queue'[i] = queue[i])
      /\ queue'[Len(queue) + 1] = j
      /\ Len(queue) \in Nat
  BY AppendIndex DEF IInv, TypeOK
<1>2. TypeOK'
  BY <1>1 DEF IInv, TypeOK
<1>3. ~Queued(j) /\ ~Held(j)
  BY JobsAssumption DEF IInv, Waiting, Stage, Queued, Held
<1>4. (\A w \in Workers : Stage(w))'
  BY <1>3 DEF IInv, TypeOK, Stage
<1>5. OneOwner'
  <2>1. \A i, k \in 1..Len(queue') : queue'[i] = queue'[k] => i = k
    <3> TAKE i, k \in 1..Len(queue')
    <3>1. CASE i \in 1..Len(queue) /\ k \in 1..Len(queue)
      BY <1>1, <3>1 DEF IInv, OneOwner
    <3>2. CASE i = Len(queue) + 1 \/ k = Len(queue) + 1
      BY <1>1, <1>3, <3>2 DEF Queued
    <3> QED BY <1>1, <3>1, <3>2
  <2>2. \A jj \in Jobs : Queued(jj)' => Queued(jj) \/ jj = j
    BY <1>1 DEF Queued
  <2>3. \A jj \in Jobs : Held(jj)' <=> Held(jj)
    BY DEF Held
  <2> QED BY <1>3, <2>1, <2>2, <2>3 DEF IInv, OneOwner
<1>6. Waiting'
  BY <1>1 DEF IInv, TypeOK, Waiting, Uploading
<1>7. Uploading' /\ Published' /\ AuditFollowsJob' /\ Stopped'
  BY DEF IInv, TypeOK, Uploading, Published, AuditFollowsJob, Stopped
<1> QED BY <1>2, <1>4, <1>5, <1>6, <1>7 DEF IInv

\* The job leaves the queue and enters the worker's hands.
LEMMA GetTaskIInv ==
    ASSUME IInv, NEW w \in Workers, GetTask(w)
    PROVE  IInv'
<1> USE DEF GetTask, database
<1> DEFINE h == Head(queue)
<1>1. h = queue[1] /\ h \in Jobs /\ 1 \in 1..Len(queue)
      /\ queue' \in Seq(Jobs) /\ Len(queue') = Len(queue) - 1
      /\ \A i \in 1..Len(queue') : i + 1 \in 1..Len(queue) /\ queue'[i] = queue[i + 1]
  BY TailIndex DEF IInv, TypeOK
<1>2. TypeOK'
  BY <1>1 DEF IInv, TypeOK, Running
<1>3. Queued(h) /\ ~Held(h) /\ status[h] = "queued" /\ request[h] = "accepted"
      /\ h # NoJob
  BY <1>1, JobsAssumption DEF IInv, OneOwner, Waiting, Queued
<1>4. (\A v \in Workers : Stage(v))'
  BY <1>1, <1>3 DEF IInv, TypeOK, Stage
<1>5. OneOwner'
  <2>1. \A i, k \in 1..Len(queue') : queue'[i] = queue'[k] => i = k
    BY <1>1 DEF IInv, OneOwner
  <2>2. \A v, u \in Workers : task'[v] = task'[u] /\ task'[v] # NoJob => v = u
    BY <1>3 DEF IInv, TypeOK, OneOwner, Held
  <2>3. \A j \in Jobs : ~(Queued(j)' /\ Held(j)')
    <3> SUFFICES ASSUME NEW j \in Jobs, Queued(j)', Held(j)' PROVE FALSE
      OBVIOUS
    <3>1. PICK i \in 1..Len(queue') : queue'[i] = j
      BY DEF Queued
    <3>2. queue[i + 1] = j /\ i + 1 \in 1..Len(queue) /\ i + 1 # 1
      BY <1>1, <3>1
    <3>3. j # h
      BY <1>1, <3>2 DEF IInv, OneOwner
    <3>4. Queued(j) /\ Held(j)
      BY <3>2, <3>3 DEF Queued, Held, IInv, TypeOK
    <3> QED BY <3>4 DEF IInv, OneOwner
  <2> QED BY <2>1, <2>2, <2>3 DEF OneOwner
<1>6. Waiting'
  BY <1>1 DEF IInv, Waiting
<1>7. Uploading' /\ Published' /\ AuditFollowsJob' /\ Stopped'
  BY DEF IInv, Uploading, Published, AuditFollowsJob, Stopped
<1> QED BY <1>2, <1>4, <1>5, <1>6, <1>7 DEF IInv

---------------------------------------------------------------------------
\* The worker w makes a database call and moves to next, to the except branch
\* or out of its loop.  No other worker moves.
LEMMA CallTyped ==
    ASSUME TypeOK, NEW w \in Workers, NEW o \in CommitRefresh,
           NEW next \in Running \cup {"idle", "gone"}, Call(w, o, next)
    PROVE  /\ pc' \in [Workers -> Running \cup {"idle", "gone"}]
           /\ task' \in [Workers -> Jobs \cup {NoJob}]
           /\ poisoned' \in [Workers -> BOOLEAN]
           /\ faults' \in 0..MaxFaults
<1>1. faults' \in 0..MaxFaults
  BY ChargeBound DEF Call, TypeOK
<1>2. OnError(w) \in Running \cup {"idle", "gone"}
  BY DEF OnError, Running
<1> QED BY <1>1, <1>2, OutcomeFields DEF Call, Goto, TypeOK

\* Only a worker in its except branch has a session that needs a rollback.
LEMMA CallPoisons ==
    ASSUME TypeOK, NEW w \in Workers, NEW o \in CommitRefresh, NEW next, Call(w, o, next)
    PROVE  /\ poisoned'[w] => pc'[w] = "fail"
           /\ \A v \in Workers \ {w} : poisoned'[v] = poisoned[v]
BY OutcomeFields DEF TypeOK, Call, Goto, OnError

\* Letting go of a job keeps every job in at most one place.
LEMMA LetGo ==
    ASSUME TypeOK, OneOwner, UNCHANGED queue, NEW w \in Workers,
           task' = task \/ task' = [task EXCEPT ![w] = NoJob]
    PROVE  OneOwner'
<1>1. \A v \in Workers : task'[v] = task[v] \/ task'[v] = NoJob
  BY DEF TypeOK
<1>2. \A j \in Jobs : Held(j)' => Held(j)
  BY <1>1, JobsAssumption DEF Held
<1> QED BY <1>1, <1>2 DEF OneOwner, Queued

\* While w holds job j it is alone with j's row.
LEMMA Alone ==
    ASSUME IInv, NEW w \in Workers, task[w] # NoJob
    PROVE  /\ task[w] \in Jobs /\ request[task[w]] = "accepted"
           /\ \A v \in Workers \ {w} : task[v] # task[w]
           /\ \A i \in 1..Len(queue) : queue[i] # task[w]
BY DEF IInv, TypeOK, Stage, OneOwner, Queued, Held

\* A document that cannot be read sends the worker to its except branch with
\* a session in order.
LEMMA ExtractRaisesStep ==
    ASSUME IInv, NEW w \in Workers, ExtractRaises(w)
    PROVE  /\ pc[w] = "extract"
           /\ pc' = [pc EXCEPT ![w] = "fail"]
           /\ UNCHANGED <<database, process, request, queue, task, poisoned,
                          abandoned, faults, restarts>>
<1>1. pc[w] = "extract" /\ ~poisoned[w]
  BY DEF ExtractRaises, IInv, Stage
<1>2. pc' = [pc EXCEPT ![w] = "fail"] /\ task' = task
      /\ poisoned' = [poisoned EXCEPT ![w] = FALSE]
  BY <1>1 DEF ExtractRaises, Goto, OnError
<1>3. poisoned' = poisoned
  BY <1>1, <1>2 DEF IInv, TypeOK
<1> QED BY <1>1, <1>2, <1>3 DEF ExtractRaises

LEMMA ExtractIInv ==
    ASSUME IInv, NEW w \in Workers, Extract(w) \/ ExtractRaises(w)
    PROVE  IInv'
<1> USE DEF database
<1>1. /\ pc[w] = "extract"
      /\ pc' \in {[pc EXCEPT ![w] = "persist"], [pc EXCEPT ![w] = "fail"]}
      /\ UNCHANGED <<database, process, request, queue, task, poisoned, abandoned,
                     faults, restarts>>
  BY ExtractRaisesStep DEF Extract
<1>2. TypeOK'
  BY <1>1 DEF IInv, TypeOK, Running
<1>3. (\A v \in Workers : Stage(v))'
  BY <1>1 DEF IInv, TypeOK, Stage
<1>4. OneOwner' /\ Waiting' /\ Uploading' /\ Published' /\ AuditFollowsJob'
  BY <1>1 DEF IInv, OneOwner, Queued, Held, Waiting, Uploading, Published, AuditFollowsJob
<1>5. Stopped'
  BY <1>1 DEF IInv, Stopped
<1> QED BY <1>2, <1>3, <1>4, <1>5 DEF IInv

LEMMA UpdateJobProcessingIInv ==
    ASSUME IInv, NEW w \in Workers, UpdateJobProcessing(w)
    PROVE  IInv'
<1> USE DEF UpdateJobProcessing
<1> DEFINE j == task[w]
<1> PICK o \in CommitRefresh :
      /\ Call(w, o, "extract")
      /\ status' = IF o.stored THEN [status EXCEPT ![j] = "processing"] ELSE status
  BY OutcomeFields
<1>1. j \in Jobs /\ j # NoJob /\ request[j] = "accepted" /\ status[j] = "queued"
      /\ (\A v \in Workers \ {w} : task[v] # j)
      /\ \A i \in 1..Len(queue) : queue[i] # j
  BY Alone DEF IInv, Stage
<1>2. TypeOK'
  BY <1>1, CallTyped, OutcomeFields DEF IInv, TypeOK, Running
<1>3. pc' = [pc EXCEPT ![w] = IF o.raised THEN "fail" ELSE "extract"] /\ task' = task
  BY DEF Call, Goto, OnError
<1>4. (\A v \in Workers : Stage(v))'
  BY CallPoisons, <1>1, <1>3, OutcomeFields DEF IInv, TypeOK, Stage
<1>5. OneOwner'
  BY <1>3, LetGo DEF IInv
<1>6. /\ status'[j] \in {status[j], "processing"}
      /\ \A x \in Jobs \ {j} : status'[x] = status[x]
  BY <1>1 DEF IInv, TypeOK
<1>7. Waiting'
  BY <1>1, <1>6 DEF IInv, TypeOK, Waiting
<1>8. Uploading'
  BY <1>1, <1>6 DEF IInv, Uploading
<1>9. Published'
  BY <1>1, <1>6 DEF IInv, Published
<1>10. AuditFollowsJob'
  BY <1>1, <1>6 DEF IInv, AuditFollowsJob
<1>11. Stopped'
  BY <1>3 DEF IInv, Stopped
<1> QED BY <1>2, <1>4, <1>5, <1>7, <1>8, <1>9, <1>10, <1>11 DEF IInv

LEMMA PersistCsfIInv ==
    ASSUME IInv, NEW w \in Workers, PersistCsf(w)
    PROVE  IInv'
<1> USE DEF PersistCsf
<1> DEFINE j == task[w]
<1> PICK o \in CommitRefresh :
      /\ Call(w, o, "finish")
      /\ csfs' = IF o.stored THEN csfs \cup {DocOf[j]} ELSE csfs
  OBVIOUS
<1>1. j \in Jobs /\ j # NoJob /\ status[j] = "processing"
  BY Alone DEF IInv, Stage
<1>2. TypeOK'
  BY <1>1, CallTyped, JobsAssumption DEF IInv, TypeOK, Running
<1>3. pc' = [pc EXCEPT ![w] = IF o.raised THEN "fail" ELSE "finish"] /\ task' = task
  BY DEF Call, Goto, OnError
<1>4. (\A v \in Workers : Stage(v))'
  BY CallPoisons, <1>1, <1>3, OutcomeFields DEF IInv, TypeOK, Stage
<1>5. OneOwner'
  BY <1>3, LetGo DEF IInv
<1>6. Waiting' /\ Uploading' /\ Published' /\ AuditFollowsJob'
  BY DEF IInv, Waiting, Uploading, Published, AuditFollowsJob
<1>7. Stopped'
  BY <1>3 DEF IInv, Stopped
<1> QED BY <1>2, <1>4, <1>5, <1>6, <1>7 DEF IInv

LEMMA UpdateJobDoneIInv ==
    ASSUME IInv, NEW w \in Workers, UpdateJobDone(w)
    PROVE  IInv'
<1> USE DEF UpdateJobDone, CsfId
<1> DEFINE j == task[w]
<1> PICK o \in CommitRefresh :
      /\ Call(w, o, "audit")
      /\ status' = IF o.stored THEN [status EXCEPT ![j] = "done"] ELSE status
      /\ documentId' = IF o.stored THEN [documentId EXCEPT ![j] = DocOf[j]]
                       ELSE documentId
  BY OutcomeFields
<1>1. j \in Jobs /\ j # NoJob /\ request[j] = "accepted" /\ status[j] = "processing"
      /\ DocOf[j] \in csfs
      /\ (\A v \in Workers \ {w} : task[v] # j)
      /\ \A i \in 1..Len(queue) : queue[i] # j
  BY Alone DEF IInv, Stage
<1>2. TypeOK'
  BY <1>1, CallTyped, JobsAssumption DEF IInv, TypeOK, Running
<1>3. pc' = [pc EXCEPT ![w] = IF o.raised THEN "fail" ELSE "audit"] /\ task' = task
  BY DEF Call, Goto, OnError
<1>4. (\A v \in Workers : Stage(v))'
  BY CallPoisons, <1>1, <1>3, OutcomeFields DEF IInv, TypeOK, Stage
<1>5. OneOwner'
  BY <1>3, LetGo DEF IInv
<1>6. /\ status'[j] \in {status[j], "done"}
      /\ \A x \in Jobs \ {j} : status'[x] = status[x]
  BY <1>1 DEF IInv, TypeOK
<1>7. Waiting'
  BY <1>1, <1>6 DEF IInv, TypeOK, Waiting
<1>8. Uploading'
  BY <1>1, <1>6 DEF IInv, Uploading
<1>9. Published'
  BY <1>1, OutcomeFields DEF IInv, TypeOK, Published
<1>10. AuditFollowsJob'
  BY <1>1, <1>6, OutcomeFields DEF IInv, TypeOK, AuditFollowsJob
<1>11. Stopped'
  BY <1>3 DEF IInv, Stopped
<1> QED BY <1>2, <1>4, <1>5, <1>7, <1>8, <1>9, <1>10, <1>11 DEF IInv

LEMMA AuditDoneIInv ==
    ASSUME IInv, NEW w \in Workers, AuditDone(w)
    PROVE  IInv'
<1> USE DEF AuditDone
<1> DEFINE j == task[w]
<1> PICK o \in CommitRefresh :
      /\ Call(w, o, NextTask)
      /\ endLog' = IF o.stored THEN [endLog EXCEPT ![j] = @ \cup {"success"}] ELSE endLog
  OBVIOUS
<1>1. j \in Jobs /\ j # NoJob /\ status[j] = "done" /\ documentId[j] = DocOf[j]
  BY Alone DEF IInv, Stage, Published
<1>2. NextTask \in {"idle", "gone"} /\ (process = "down" => NextTask = "gone")
  BY DEF NextTask
<1>3. TypeOK'
  BY <1>1, <1>2, CallTyped DEF IInv, TypeOK, Running
<1>4. /\ pc' = [pc EXCEPT ![w] = IF o.raised THEN "fail" ELSE NextTask]
      /\ task' = IF o.raised THEN task ELSE [task EXCEPT ![w] = NoJob]
  BY <1>2 DEF Call, Goto, OnError
<1>5. (\A v \in Workers : Stage(v))'
  BY CallPoisons, <1>1, <1>2, <1>4 DEF IInv, TypeOK, Stage
<1>6. OneOwner'
  BY <1>4, LetGo DEF IInv
<1>7. Waiting' /\ Uploading' /\ Published' /\ AuditFollowsJob'
  BY <1>1 DEF IInv, TypeOK, Waiting, Uploading, Published, AuditFollowsJob
<1>8. Stopped'
  BY <1>2, <1>4 DEF IInv, TypeOK, Stopped
<1> QED BY <1>3, <1>5, <1>6, <1>7, <1>8 DEF IInv

LEMMA UpdateJobFailedIInv ==
    ASSUME IInv, NEW w \in Workers, UpdateJobFailed(w)
    PROVE  IInv'
<1> USE DEF UpdateJobFailed
<1> DEFINE j == task[w]
<1> PICK o \in CommitRefresh :
      /\ Call(w, o, "failaudit")
      /\ status' = IF o.stored THEN [status EXCEPT ![j] = "failed"] ELSE status
  BY OutcomeFields
<1>1. j \in Jobs /\ j # NoJob /\ request[j] = "accepted"
      /\ status[j] \in {"queued", "processing", "done"}
      /\ (\A v \in Workers \ {w} : task[v] # j)
      /\ \A i \in 1..Len(queue) : queue[i] # j
  BY Alone DEF IInv, Stage
<1>2. TypeOK'
  BY <1>1, CallTyped DEF IInv, TypeOK, Running
<1>3. /\ pc' = [pc EXCEPT ![w] = IF o.raised THEN "gone" ELSE "failaudit"]
      /\ task' = IF o.raised THEN [task EXCEPT ![w] = NoJob] ELSE task
  BY DEF Call, Goto, OnError
<1>4. (\A v \in Workers : Stage(v))'
  BY CallPoisons, <1>1, <1>3, OutcomeFields DEF IInv, TypeOK, Stage
<1>5. OneOwner'
  BY <1>3, LetGo DEF IInv
<1>6. /\ status'[j] \in {status[j], "failed"}
      /\ \A x \in Jobs \ {j} : status'[x] = status[x]
  BY <1>1 DEF IInv, TypeOK
<1>7. Waiting'
  BY <1>1, <1>6 DEF IInv, TypeOK, Waiting
<1>8. Uploading'
  BY <1>1, <1>6 DEF IInv, Uploading
<1>9. Published'
  BY <1>1, <1>6 DEF IInv, Published
<1>10. AuditFollowsJob'
  BY <1>1, <1>6 DEF IInv, AuditFollowsJob
<1>11. Stopped'
  BY <1>3 DEF IInv, Stopped
<1> QED BY <1>2, <1>4, <1>5, <1>7, <1>8, <1>9, <1>10, <1>11 DEF IInv

LEMMA UpdateJobFailedRaisesIInv ==
    ASSUME IInv, NEW w \in Workers, UpdateJobFailedRaises(w)
    PROVE  IInv'
<1> USE DEF UpdateJobFailedRaises, database
<1>1. /\ pc' = [pc EXCEPT ![w] = "gone"]
      /\ task' = [task EXCEPT ![w] = NoJob]
      /\ poisoned' = [poisoned EXCEPT ![w] = FALSE]
  BY DEF Goto, OnError
<1>2. TypeOK'
  BY <1>1 DEF IInv, TypeOK, Running
<1>3. (\A v \in Workers : Stage(v))'
  BY <1>1 DEF IInv, TypeOK, Stage
<1>4. OneOwner'
  BY <1>1, LetGo DEF IInv
<1>5. Waiting' /\ Uploading' /\ Published' /\ AuditFollowsJob'
  BY DEF IInv, Waiting, Uploading, Published, AuditFollowsJob
<1>6. Stopped'
  BY <1>1 DEF IInv, Stopped
<1> QED BY <1>2, <1>3, <1>4, <1>5, <1>6 DEF IInv

LEMMA AuditFailedIInv ==
    ASSUME IInv, NEW w \in Workers, AuditFailed(w)
    PROVE  IInv'
<1> USE DEF AuditFailed
<1> DEFINE j == task[w]
<1> PICK o \in CommitRefresh :
      /\ Call(w, o, NextTask)
      /\ endLog' = IF o.stored THEN [endLog EXCEPT ![j] = @ \cup {"error"}] ELSE endLog
  OBVIOUS
<1>1. j \in Jobs /\ j # NoJob /\ status[j] = "failed"
  BY Alone DEF IInv, Stage
<1>2. NextTask \in {"idle", "gone"} /\ (process = "down" => NextTask = "gone")
  BY DEF NextTask
<1>3. TypeOK'
  BY <1>1, <1>2, CallTyped DEF IInv, TypeOK, Running
<1>4. /\ pc' = [pc EXCEPT ![w] = IF o.raised THEN "gone" ELSE NextTask]
      /\ task' = [task EXCEPT ![w] = NoJob]
  BY <1>2 DEF Call, Goto, OnError
<1>5. (\A v \in Workers : Stage(v))'
  BY CallPoisons, <1>2, <1>4 DEF IInv, TypeOK, Stage
<1>6. OneOwner'
  BY <1>4, LetGo DEF IInv
<1>7. Waiting' /\ Uploading' /\ Published' /\ AuditFollowsJob'
  BY <1>1 DEF IInv, TypeOK, Waiting, Uploading, Published, AuditFollowsJob
<1>8. Stopped'
  BY <1>2, <1>4 DEF IInv, TypeOK, Stopped
<1> QED BY <1>3, <1>5, <1>6, <1>7, <1>8 DEF IInv

\* Shutdowns, crashes and restarts touch no table.
LEMMA ProcessIInv ==
    ASSUME IInv, Shutdown \/ Exit \/ Crash \/ Restart
    PROVE  IInv'
<1> USE DEF database, AbortRequests
<1>1. CASE Shutdown
  BY <1>1, JobsAssumption
     DEF Shutdown, IInv, TypeOK, Running, Stage, OneOwner, Queued, Held, Waiting,
         Uploading, Published, AuditFollowsJob, Stopped
<1>2. CASE Exit
  BY <1>2 DEF Exit, Unfinished, IInv, TypeOK, Stage, OneOwner, Queued, Held, Waiting,
         Uploading, Published, AuditFollowsJob, Stopped
<1>3. CASE Crash
  BY <1>3, JobsAssumption
     DEF Crash, Unfinished, IInv, TypeOK, Running, Stage, OneOwner, Queued, Held, Waiting,
         Uploading, Published, AuditFollowsJob, Stopped
<1>4. CASE Restart
  BY <1>4, BoundsAssumption
     DEF Restart, IInv, TypeOK, Running, Stage, OneOwner, Queued, Held, Waiting,
         Uploading, Published, AuditFollowsJob, Stopped
<1> QED BY <1>1, <1>2, <1>3, <1>4

LEMMA StutterIInv == IInv /\ UNCHANGED vars => IInv'
BY DEF vars, database, IInv, TypeOK, Stage, OneOwner, Queued, Held, Waiting,
       Uploading, Published, AuditFollowsJob, Stopped

LEMMA NextIInv == IInv /\ [Next]_vars => IInv'
<1> SUFFICES ASSUME IInv, [Next]_vars PROVE IInv'
  OBVIOUS
<1>1. CASE UNCHANGED vars
  BY <1>1, StutterIInv
<1>2. ASSUME NEW j \in Jobs, Handler(j) PROVE IInv'
  BY <1>2, HandlerIInv, EnqueueIInv DEF Handler
<1>3. ASSUME NEW w \in Workers, Worker(w) PROVE IInv'
  BY <1>3, GetTaskIInv, UpdateJobProcessingIInv, ExtractIInv, PersistCsfIInv,
     UpdateJobDoneIInv, AuditDoneIInv, UpdateJobFailedIInv,
     UpdateJobFailedRaisesIInv, AuditFailedIInv DEF Worker
<1>4. CASE Shutdown \/ Exit \/ Crash \/ Restart
  BY <1>4, ProcessIInv
<1> QED BY <1>1, <1>2, <1>3, <1>4 DEF Next

LEMMA Invariance == Spec => []IInv
BY InitIInv, NextIInv, PTL DEF Spec

\* Type correctness of the ingestion model.
THEOREM TypeCorrect == Spec => []TypeOK
<1>1. IInv => TypeOK
  BY DEF IInv
<1> QED BY Invariance, <1>1, PTL

\* A job reported done names its own stored document, whatever fails or stops
\* (update_job_done, get_job_status).
THEOREM DoneHasDocumentThm == Spec => []DoneHasDocument
<1>1. IInv => DoneHasDocument
  BY DEF IInv, Published, DoneHasDocument
<1> QED BY Invariance, <1>1, PTL

\* No job is ever held twice, for any number of workers (_worker_loop).
THEOREM OneOwnerThm == Spec => []OneOwner
<1>1. IInv => OneOwner
  BY DEF IInv
<1> QED BY Invariance, <1>1, PTL

\* The audit entries of an upload agree with its job (_process_document_task).
THEOREM AuditFollowsJobThm == Spec => []AuditFollowsJob
<1>1. IInv => AuditFollowsJob
  BY DEF IInv
<1> QED BY Invariance, <1>1, PTL

---------------------------------------------------------------------------
(* The refinement of the life a client may rely on.                        *)

LEMMA InitLifecycle == Init => Lifecycle!Init
BY DEF Init, Lifecycle!Init, Lifecycle!NoDoc, NoDoc

LEMMA StepLifecycle == IInv /\ [Next]_vars => [Lifecycle!Next]_Lifecycle!vars
<1> SUFFICES ASSUME IInv, [Next]_vars PROVE [Lifecycle!Next]_Lifecycle!vars
  OBVIOUS
<1> USE DEF Lifecycle!Next, Lifecycle!vars, database
<1>1. CASE UNCHANGED vars
  BY <1>1 DEF vars
<1>2. ASSUME NEW j \in Jobs, Handler(j) PROVE [Lifecycle!Next]_Lifecycle!vars
  <2>1. CASE CreateJob(j)
    BY <2>1 DEF CreateJob, Lifecycle!Create, IInv, Uploading
  <2>2. CASE AuditStart(j) \/ Enqueue(j) \/ ReadFails(j)
    BY <2>2 DEF AuditStart, Enqueue, ReadFails
  <2> QED BY <1>2, <2>1, <2>2 DEF Handler
<1>3. ASSUME NEW w \in Workers, Worker(w) PROVE [Lifecycle!Next]_Lifecycle!vars
  <2> DEFINE j == task[w]
  <2>0. j # NoJob => j \in Jobs /\ DocOf[j] \in Docs
    BY JobsAssumption DEF IInv, TypeOK
  <2>1. CASE GetTask(w) \/ Extract(w) \/ ExtractRaises(w)
             \/ UpdateJobFailedRaises(w)
    BY <2>1, ExtractRaisesStep DEF GetTask, Extract, UpdateJobFailedRaises
  <2>2. CASE UpdateJobProcessing(w)
    <3>1. j # NoJob /\ status[j] = "queued"
      BY <2>2 DEF UpdateJobProcessing, IInv, Stage
    <3> QED BY <2>0, <2>2, <3>1 DEF UpdateJobProcessing, Lifecycle!Start
  <2>3. CASE PersistCsf(w)
    <3>1. j # NoJob
      BY <2>3 DEF PersistCsf, IInv, Stage
    <3> QED BY <2>0, <2>3, <3>1 DEF PersistCsf, Lifecycle!Store
  <2>4. CASE UpdateJobDone(w)
    <3>1. j # NoJob /\ status[j] = "processing" /\ DocOf[j] \in csfs
      BY <2>4 DEF UpdateJobDone, IInv, Stage
    <3> QED BY <2>0, <2>4, <3>1 DEF UpdateJobDone, CsfId, Lifecycle!Complete
  <2>5. CASE UpdateJobFailed(w)
    <3>1. j # NoJob /\ status[j] \in {"queued", "processing", "done"}
      BY <2>5 DEF UpdateJobFailed, IInv, Stage
    <3> QED BY <2>0, <2>5, <3>1 DEF UpdateJobFailed, Lifecycle!Fail
  <2>6. CASE AuditDone(w) \/ AuditFailed(w)
    BY <2>6 DEF AuditDone, AuditFailed
  <2> QED BY <1>3, <2>1, <2>2, <2>3, <2>4, <2>5, <2>6 DEF Worker
<1>4. CASE Shutdown \/ Exit \/ Crash \/ Restart
  BY <1>4 DEF Shutdown, Exit, Crash, Restart
<1> QED BY <1>1, <1>2, <1>3, <1>4 DEF Next

\* The queue and its workers implement JobLifecycle: a polled job never loses
\* its document_id, and never leaves failed.
THEOREM ImplementsLifecycleThm == Spec => ImplementsLifecycle
BY Invariance, InitLifecycle, StepLifecycle, PTL
   DEF Spec, ImplementsLifecycle, Lifecycle!Spec

---------------------------------------------------------------------------
(* The loss of jobs to database errors.                                    *)

\* Jobs dropped by an error, and those whose worker will not survive its
\* except branch.
Doomed == (Dropped \ abandoned) \cup {task[w] : w \in {v \in Workers : poisoned[v]}}

\* Workers that an error has ended or is about to end.
Ending == {w \in Workers : pc[w] = "gone" \/ poisoned[w]}

AtMost(S, n) == IsFiniteSet(S) /\ Cardinality(S) <= n

DoomInv ==
    /\ AtMost(Doomed, faults)
    /\ process = "up" => AtMost(Ending, faults)

\* From S and m errors to T and n errors: one more element costs one more error.
Costs(S, T, m, n) ==
    \/ T \subseteq S /\ n \in {m, m + 1}
    \/ \E x : T \subseteq S \cup {x} /\ n = m + 1

LEMMA CostsKeepsBound ==
    ASSUME NEW S, NEW T, NEW m \in Nat, NEW n, AtMost(S, m), Costs(S, T, m, n)
    PROVE  AtMost(T, n)
<1>1. IsFiniteSet(S) /\ Cardinality(S) \in Nat
  BY FS_CardinalityType DEF AtMost
<1>2. CASE T \subseteq S /\ n \in {m, m + 1}
  <2>1. IsFiniteSet(T) /\ Cardinality(T) <= Cardinality(S)
    BY <1>2, FS_Subset DEF AtMost
  <2>2. Cardinality(T) \in Nat
    BY <2>1, FS_CardinalityType
  <2> QED BY <1>1, <1>2, <2>1, <2>2 DEF AtMost
<1>3. ASSUME NEW x, T \subseteq S \cup {x}, n = m + 1
      PROVE  AtMost(T, n)
  <2>1. IsFiniteSet(S \cup {x}) /\ Cardinality(S \cup {x}) <= Cardinality(S) + 1
    BY <1>1, FS_AddElement
  <2>2. IsFiniteSet(T) /\ Cardinality(T) <= Cardinality(S \cup {x})
    BY <1>3, <2>1, FS_Subset
  <2>3. Cardinality(T) \in Nat /\ Cardinality(S \cup {x}) \in Nat
    BY <2>1, <2>2, FS_CardinalityType
  <2> QED BY <1>1, <1>3, <2>1, <2>2, <2>3 DEF AtMost
<1> QED BY <1>2, <1>3 DEF Costs

\* A database call of w dooms no job but the one w holds, and that one only by
\* raising.
LEMMA CallDooms ==
    ASSUME IInv, IInv', NEW w \in Workers, task[w] # NoJob, ~poisoned[w],
           NEW o \in CommitRefresh, NEW next \in {"extract", "finish", "audit",
                                                "failaudit", "idle", "gone"},
           Call(w, o, next), UNCHANGED <<queue, request, abandoned>>,
           \A j \in Jobs \ {task[w]} : status'[j] = status[j],
           next \in {"idle", "gone"} => status[task[w]] \notin {"queued", "processing"},
           UNCHANGED status \/ next \notin {"idle", "gone"}
    PROVE  Costs(Doomed, Doomed', faults, faults')
<1> DEFINE j == task[w]
<1>1. j \in Jobs /\ (\A v \in Workers \ {w} : task[v] # j)
  BY Alone
<1>2. \A x \in Jobs \ {j} : Queued(x)' = Queued(x) /\ (Held(x) => Held(x)')
  BY DEF Queued, Held, Call, Goto, IInv, TypeOK
<1>3. \A v \in Workers \ {w} : poisoned'[v] = poisoned[v] /\ task'[v] = task[v]
  BY DEF Call, Goto, IInv, TypeOK
<1>4. Doomed' \subseteq Doomed \cup {j}
  <2>1. Dropped' \subseteq Dropped \cup {j}
    BY <1>2 DEF Dropped, Unfinished
  <2>2. task'[w] \in {j, NoJob} /\ (poisoned'[w] => task'[w] = j)
    BY DEF Call, Goto, IInv, TypeOK
  <2> QED BY <1>3, <2>1, <2>2 DEF Doomed
<1>5. CASE o.raised
  BY <1>4, <1>5 DEF Call, Charge, Costs
<1>6. CASE ~o.raised
  <2>1. ~poisoned'[w] /\ faults' = faults
    BY <1>6, OutcomeFields DEF Call, Goto, Charge, IInv, TypeOK
  <2>2. j \notin Dropped'
    <3>1. CASE next \in {"idle", "gone"}
      BY <3>1 DEF Dropped, Unfinished
    <3>2. CASE next \notin {"idle", "gone"}
      <4>1. task' = task
        BY <1>6, <3>2 DEF Call, Goto
      <4> QED BY <4>1 DEF Dropped, Held
    <3> QED BY <3>1, <3>2
  <2>3. \A v \in Workers : poisoned'[v] => task'[v] # j
    BY <1>1, <1>3, <2>1
  <2>4. j \notin Doomed'
    BY <2>2, <2>3 DEF Doomed
  <2> QED BY <1>4, <2>1, <2>4 DEF Costs
<1> QED BY <1>5, <1>6, OutcomeFields

\* It brings no worker but w to its end, and w only by raising.
LEMMA CallEnds ==
    ASSUME IInv, process = "up", NEW w \in Workers, ~poisoned[w],
           NEW o \in CommitRefresh, NEW next, next # "gone", Call(w, o, next)
    PROVE  Costs(Ending, Ending', faults, faults')
<1>1. Ending' \subseteq Ending \cup {w}
  BY DEF Ending, Call, Goto, IInv, TypeOK
<1>2. CASE o.raised
  BY <1>1, <1>2 DEF Call, Charge, Costs
<1>3. CASE ~o.raised
  <2>1. w \notin Ending' /\ faults' = faults
    BY <1>3, OutcomeFields DEF Ending, Call, Goto, Charge, IInv, TypeOK
  <2> QED BY <1>1, <2>1 DEF Costs
<1> QED BY <1>2, <1>3, OutcomeFields

LEMMA DoomInit == Init => DoomInv
<1> SUFFICES ASSUME Init PROVE DoomInv
  OBVIOUS
<1>1. Doomed = {} /\ Ending = {} /\ faults = 0
  BY DEF Init, Doomed, Dropped, Unfinished, Ending
<1> QED BY <1>1, FS_EmptySet DEF DoomInv, AtMost

\* A request in its handler drops no job.
LEMMA HandlerDooms ==
    ASSUME IInv, NEW j \in Jobs, Handler(j)
    PROVE  Costs(Doomed, Doomed', faults, faults')
<1>1. UNCHANGED <<task, poisoned, abandoned>>
  BY DEF Handler, CreateJob, AuditStart, Enqueue, ReadFails
<1>2. faults' \in {faults, faults + 1}
  BY DEF Handler, CreateJob, AuditStart, Enqueue, ReadFails, Charge
<1>3. CASE CreateJob(j) \/ AuditStart(j) \/ ReadFails(j)
  <2>1. request[j] # "accepted" /\ request'[j] # "accepted" /\ UNCHANGED queue
        /\ \A x \in Jobs \ {j} : request'[x] = request[x] /\ status'[x] = status[x]
    BY <1>3 DEF CreateJob, AuditStart, ReadFails, IInv, TypeOK, database
  <2>2. Dropped' \subseteq Dropped
    BY <1>1, <2>1 DEF Dropped, Unfinished, Queued, Held
  <2> QED BY <1>1, <1>2, <2>2 DEF Doomed, Costs
<1>4. CASE Enqueue(j)
  <2>1. queue' \in Seq(Jobs) /\ Len(queue') = Len(queue) + 1
        /\ (\A i \in 1..Len(queue) : queue'[i] = queue[i])
        /\ queue'[Len(queue) + 1] = j /\ Len(queue) \in Nat
    BY <1>4, AppendIndex DEF Enqueue, IInv, TypeOK
  <2>2. Queued(j)' /\ \A x \in Jobs : Queued(x) => Queued(x)'
    BY <2>1 DEF Queued
  <2>3. UNCHANGED status /\ \A x \in Jobs \ {j} : request'[x] = request[x]
    BY <1>4 DEF Enqueue, database, IInv, TypeOK
  <2>4. Dropped' \subseteq Dropped
    BY <1>1, <2>2, <2>3 DEF Dropped, Unfinished, Held
  <2> QED BY <1>1, <1>2, <2>4 DEF Doomed, Costs
<1> QED BY <1>3, <1>4 DEF Handler

\* A worker that takes a task drops none: the head of the queue is held.
LEMMA GetTaskDooms ==
    ASSUME IInv, NEW w \in Workers, GetTask(w)
    PROVE  Costs(Doomed, Doomed', faults, faults')
<1>1. task[w] = NoJob /\ ~poisoned[w]
  BY DEF GetTask, IInv, Stage
<1>2. \A x \in Jobs : Queued(x) \/ Held(x) => Queued(x)' \/ Held(x)'
  <2> SUFFICES ASSUME NEW x \in Jobs, Queued(x) \/ Held(x), ~Held(x)'
               PROVE  Queued(x)'
    OBVIOUS
  <2>1. queue # <<>> /\ queue \in Seq(Jobs) /\ Len(queue) \in Nat \ {0}
        /\ Head(queue) = queue[1] /\ queue' = Tail(queue)
        /\ Len(queue') = Len(queue) - 1
    BY TailIndex DEF GetTask, IInv, TypeOK
  <2>2. \A v \in Workers : task[v] # NoJob => task'[v] = task[v]
    BY <1>1 DEF GetTask, IInv, TypeOK
  <2>3. task'[w] = queue[1]
    BY <2>1 DEF GetTask, IInv, TypeOK
  <2>4. x # queue[1] /\ ~Held(x)
    BY <2>2, <2>3, JobsAssumption DEF Held
  <2>5. PICK i \in 1..Len(queue) : queue[i] = x
    BY <2>4 DEF Queued
  <2>6. i - 1 \in 1..Len(queue') /\ queue'[i - 1] = x
    BY <2>1, <2>4, <2>5
  <2> QED BY <2>6 DEF Queued
<1>3. Dropped' \subseteq Dropped /\ UNCHANGED <<abandoned, faults>>
  BY <1>2 DEF Dropped, Unfinished, GetTask, database
<1>4. \A v \in Workers : poisoned'[v] => poisoned[v] /\ task'[v] = task[v]
  BY <1>1 DEF GetTask, IInv, TypeOK
<1> QED BY <1>3, <1>4 DEF Doomed, Costs

\* The except branch that meets a poisoned session drops the job it had doomed.
LEMMA FailedRaisesDooms ==
    ASSUME IInv, NEW w \in Workers, UpdateJobFailedRaises(w)
    PROVE  Costs(Doomed, Doomed', faults, faults')
<1>1. task' = [task EXCEPT ![w] = NoJob] /\ poisoned' = [poisoned EXCEPT ![w] = FALSE]
      /\ poisoned[w] /\ UNCHANGED <<queue, request, status, abandoned, faults>>
  BY DEF UpdateJobFailedRaises, Goto, OnError, database
<1>2. \A x \in Jobs : Held(x) => Held(x)' \/ x = task[w]
  BY <1>1 DEF Held, IInv, TypeOK
<1>3. Dropped' \subseteq Dropped \cup {task[w]}
  BY <1>1, <1>2 DEF Dropped, Unfinished, Queued
<1>4. \A v \in Workers : poisoned'[v] => poisoned[v] /\ task'[v] = task[v]
  BY <1>1 DEF IInv, TypeOK
<1> QED BY <1>1, <1>3, <1>4 DEF Doomed, Costs

\* Every other step of a worker is one database call, or no call at all.
LEMMA WorkerDooms ==
    ASSUME IInv, IInv', NEW w \in Workers, Worker(w)
    PROVE  Costs(Doomed, Doomed', faults, faults')
<1> USE DEF database
<1> DEFINE j == task[w]
<1>1. CASE GetTask(w)
  BY <1>1, GetTaskDooms
<1>2. CASE Extract(w) \/ ExtractRaises(w)
  <2>1. Doomed' = Doomed /\ faults' = faults
    BY <1>2, ExtractRaisesStep DEF Extract, Doomed, Dropped, Unfinished, Queued, Held
  <2> QED BY <2>1 DEF Costs
<1>3. CASE UpdateJobFailedRaises(w)
  BY <1>3, FailedRaisesDooms
<1>4. CASE UpdateJobProcessing(w)
  <2>1. PICK o \in CommitRefresh : Call(w, o, "extract")
        /\ status' = IF o.stored THEN [status EXCEPT ![j] = "processing"] ELSE status
    BY <1>4, OutcomeFields DEF UpdateJobProcessing
  <2>2. j # NoJob /\ ~poisoned[w] /\ UNCHANGED <<queue, request, abandoned>>
        /\ \A x \in Jobs \ {j} : status'[x] = status[x]
    BY <1>4, <2>1 DEF UpdateJobProcessing, IInv, TypeOK, Stage
  <2> QED BY <2>1, <2>2, CallDooms
<1>5. CASE PersistCsf(w)
  <2>1. PICK o \in CommitRefresh : Call(w, o, "finish")
    BY <1>5 DEF PersistCsf
  <2>2. j # NoJob /\ ~poisoned[w] /\ UNCHANGED <<queue, request, abandoned, status>>
    BY <1>5 DEF PersistCsf, IInv, Stage
  <2> QED BY <2>1, <2>2, CallDooms
<1>6. CASE UpdateJobDone(w)
  <2>1. PICK o \in CommitRefresh : Call(w, o, "audit")
        /\ status' = IF o.stored THEN [status EXCEPT ![j] = "done"] ELSE status
    BY <1>6, OutcomeFields DEF UpdateJobDone
  <2>2. j # NoJob /\ ~poisoned[w] /\ UNCHANGED <<queue, request, abandoned>>
        /\ \A x \in Jobs \ {j} : status'[x] = status[x]
    BY <1>6, <2>1 DEF UpdateJobDone, IInv, TypeOK, Stage
  <2> QED BY <2>1, <2>2, CallDooms
<1>7. CASE AuditDone(w)
  <2>1. PICK o \in CommitRefresh : Call(w, o, NextTask)
    BY <1>7 DEF AuditDone
  <2>2. j # NoJob /\ ~poisoned[w] /\ UNCHANGED <<queue, request, abandoned, status>>
        /\ status[j] = "done"
    BY <1>7 DEF AuditDone, IInv, Stage
  <2>3. NextTask \in {"idle", "gone"}
    BY DEF NextTask
  <2> QED BY <2>1, <2>2, <2>3, CallDooms
<1>8. CASE UpdateJobFailed(w)
  <2>1. PICK o \in CommitRefresh : Call(w, o, "failaudit")
        /\ status' = IF o.stored THEN [status EXCEPT ![j] = "failed"] ELSE status
    BY <1>8, OutcomeFields DEF UpdateJobFailed
  <2>2. j # NoJob /\ ~poisoned[w] /\ UNCHANGED <<queue, request, abandoned>>
        /\ \A x \in Jobs \ {j} : status'[x] = status[x]
    BY <1>8, <2>1 DEF UpdateJobFailed, IInv, TypeOK, Stage
  <2> QED BY <2>1, <2>2, CallDooms
<1>9. CASE AuditFailed(w)
  <2>1. PICK o \in CommitRefresh : Call(w, o, NextTask)
    BY <1>9 DEF AuditFailed
  <2>2. j # NoJob /\ ~poisoned[w] /\ UNCHANGED <<queue, request, abandoned, status>>
        /\ status[j] = "failed"
    BY <1>9 DEF AuditFailed, IInv, Stage
  <2>3. NextTask \in {"idle", "gone"}
    BY DEF NextTask
  <2> QED BY <2>1, <2>2, <2>3, CallDooms
<1> QED
  BY <1>1, <1>2, <1>3, <1>4, <1>5, <1>6, <1>7, <1>8, <1>9 DEF Worker

\* A stop abandons what it drops, a restart drops nothing.
LEMMA ProcessDooms ==
    ASSUME IInv, Shutdown \/ Exit \/ Crash \/ Restart
    PROVE  Costs(Doomed, Doomed', faults, faults')
<1> USE DEF database
<1>1. \A j \in Jobs : request'[j] = "accepted" <=> request[j] = "accepted"
  BY DEF Shutdown, Exit, Crash, Restart, AbortRequests, IInv, TypeOK
<1>2. UNCHANGED <<status, faults>> /\ \A w \in Workers : poisoned'[w] => poisoned[w]
  BY DEF Shutdown, Exit, Crash, Restart, IInv, TypeOK
<1>3. CASE Shutdown \/ Restart
  <2>1. UNCHANGED <<queue, task, poisoned, abandoned>>
    BY <1>3 DEF Shutdown, Restart
  <2> QED BY <1>1, <1>2, <2>1 DEF Doomed, Dropped, Unfinished, Queued, Held, Costs
<1>4. CASE Exit \/ Crash
  <2>1. Unfinished' = Unfinished /\ abandoned' = abandoned \cup Unfinished
    BY <1>1, <1>2, <1>4 DEF Unfinished, Exit, Crash
  <2>2. Dropped' \ abandoned' = {}
    BY <2>1 DEF Dropped
  <2>3. \A w \in Workers : poisoned'[w] => task'[w] = task[w]
    BY <1>4 DEF Exit, Crash, IInv, TypeOK
  <2> QED BY <1>2, <2>2, <2>3 DEF Doomed, Costs
<1> QED BY <1>3, <1>4

\* In a running process only an error brings a worker to its end.
LEMMA StepEnds ==
    ASSUME IInv, [Next]_vars, process = "up", process' = "up"
    PROVE  Costs(Ending, Ending', faults, faults')
<1> USE DEF database
<1>1. CASE UNCHANGED vars
  BY <1>1 DEF vars, Ending, Costs
<1>2. ASSUME NEW j \in Jobs, Handler(j) PROVE Costs(Ending, Ending', faults, faults')
  <2>1. UNCHANGED <<pc, poisoned>> /\ faults' \in {faults, faults + 1}
    BY <1>2 DEF Handler, CreateJob, AuditStart, Enqueue, ReadFails, Charge
  <2> QED BY <2>1 DEF Ending, Costs
<1>3. ASSUME NEW w \in Workers, Worker(w) PROVE Costs(Ending, Ending', faults, faults')
  <2>1. CASE GetTask(w) \/ Extract(w) \/ ExtractRaises(w)
    <3>1. faults' = faults /\ \A v \in Workers :
              (pc'[v] = "gone" => pc[v] = "gone") /\ (poisoned'[v] => poisoned[v])
      BY <2>1 DEF GetTask, Extract, ExtractRaises, Goto, OnError, IInv, TypeOK, Stage
    <3> QED BY <3>1 DEF Ending, Costs
  <2>2. CASE UpdateJobFailedRaises(w)
    <3>1. poisoned[w] /\ faults' = faults /\ \A v \in Workers \ {w} :
              pc'[v] = pc[v] /\ poisoned'[v] = poisoned[v]
      BY <2>2 DEF UpdateJobFailedRaises, Goto, IInv, TypeOK
    <3> QED BY <3>1 DEF Ending, Costs
  <2>3. CASE \/ UpdateJobProcessing(w) \/ PersistCsf(w) \/ UpdateJobDone(w)
             \/ AuditDone(w) \/ UpdateJobFailed(w) \/ AuditFailed(w)
    <3>1. ~poisoned[w]
      BY <2>3 DEF IInv, Stage, UpdateJobProcessing, PersistCsf, UpdateJobDone,
         AuditDone, UpdateJobFailed, AuditFailed
    <3>2. NextTask = "idle"
      BY DEF NextTask
    <3>3. PICK o \in CommitRefresh, next \in {"extract", "finish", "audit",
                                            "failaudit", "idle"} : Call(w, o, next)
      BY <2>3, <3>2, OutcomeFields DEF UpdateJobProcessing, PersistCsf,
         UpdateJobDone, AuditDone, UpdateJobFailed, AuditFailed
    <3> QED BY <3>1, <3>3, CallEnds
  <2> QED BY <1>3, <2>1, <2>2, <2>3 DEF Worker
<1>4. CASE Shutdown \/ Exit \/ Crash \/ Restart
  BY <1>4 DEF Shutdown, Exit, Crash, Restart
<1> QED BY <1>1, <1>2, <1>3, <1>4 DEF Next

LEMMA DoomStep == IInv /\ IInv' /\ DoomInv /\ [Next]_vars => DoomInv'
<1> SUFFICES ASSUME IInv, IInv', DoomInv, [Next]_vars
             PROVE  DoomInv'
  OBVIOUS
<1>1. faults \in Nat
  BY BoundsAssumption DEF IInv, TypeOK
<1>2. Costs(Doomed, Doomed', faults, faults')
  <2>1. CASE UNCHANGED vars
    BY <2>1 DEF vars, database, Doomed, Dropped, Unfinished, Queued, Held, Costs
  <2> QED BY <2>1, HandlerDooms, WorkerDooms, ProcessDooms DEF Next
<1>3. AtMost(Doomed', faults')
  BY <1>1, <1>2, CostsKeepsBound DEF DoomInv
<1>4. ASSUME process' = "up" PROVE AtMost(Ending', faults')
  <2>1. CASE process = "up"
    BY <1>1, <1>4, <2>1, StepEnds, CostsKeepsBound DEF DoomInv
  <2>2. CASE process # "up"
    <3>1. Restart /\ process = "down"
      BY <1>4, <2>2 DEF Next, vars, Handler, Worker, CreateJob, AuditStart, Enqueue,
         ReadFails, GetTask, UpdateJobProcessing, Extract, ExtractRaises, PersistCsf,
         UpdateJobDone, AuditDone, UpdateJobFailed, UpdateJobFailedRaises,
         AuditFailed, Shutdown, Exit, Crash, Restart
    <3>2. Ending' = {}
      BY <3>1 DEF Restart, Ending, IInv, Stopped, Stage
    <3>3. faults' = faults
      BY <3>1 DEF Restart
    <3> QED BY <1>1, <3>2, <3>3, FS_EmptySet DEF AtMost
  <2> QED BY <2>1, <2>2
<1> QED BY <1>3, <1>4 DEF DoomInv

\* What accepted jobs can be lost to, for any number of workers: a stop of the
\* process, or one database error each; the rest of the queue only once there
\* were as many errors as workers (the loop of document_queue._worker_loop).
THEOREM LossBoundedThm == Spec => []LossBounded
<1>1. IInv /\ DoomInv => LossBounded
  <2> SUFFICES ASSUME IInv, DoomInv PROVE LossBounded
    OBVIOUS
  <2>1. faults \in Nat
    BY BoundsAssumption DEF IInv, TypeOK
  <2>2. AtMost(Dropped \ abandoned, faults)
    BY <2>1, CostsKeepsBound DEF DoomInv, Doomed, Costs
  <2>3. ASSUME process = "up", faults < Cardinality(Workers)
        PROVE  Lost \subseteq Dropped
    <3>1. ASSUME ~WorkerLeft PROVE FALSE
      <4>1. Workers \subseteq Ending
        BY <3>1 DEF WorkerLeft, Ending
      <4>2. AtMost(Workers, faults)
        BY <2>1, <2>3, <4>1, CostsKeepsBound DEF DoomInv, Costs
      <4>3. Cardinality(Workers) \in Nat
        BY <4>2, FS_CardinalityType DEF AtMost
      <4> QED BY <2>1, <2>3, <4>2, <4>3 DEF AtMost
    <3> QED BY <3>1 DEF Lost, Dropped
  <2>4. process = "up" /\ faults < Cardinality(Workers) =>
            AtMost(Lost \ abandoned, faults)
    BY <2>1, <2>2, <2>3, CostsKeepsBound DEF Costs
  <2> QED BY <2>2, <2>4 DEF LossBounded, AtMost
<1>2. Spec => []DoomInv
  BY Invariance, DoomInit, DoomStep, PTL DEF Spec
<1> QED BY Invariance, <1>1, <1>2, PTL
===========================================================================
