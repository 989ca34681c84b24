--------------------------- MODULE JobLifecycle ---------------------------
(***************************************************************************)
(* What a client polling GET /v1/documents/{job_id} may rely on: the life  *)
(* of a document job as job_service writes it, without the queue, the      *)
(* workers, the faults or the restarts that decide which step comes next.  *)
(* A document_id is published only for a document already stored, it is    *)
(* never changed or withdrawn, and a failed job stays failed.  A job that  *)
(* was reported done may still turn failed (see DocumentJobs).             *)
(***************************************************************************)

CONSTANTS Jobs,   \* document jobs
          Docs    \* constancias (csf rows), one for each tenant-scoped hash

VARIABLES status,      \* document_job.status, "none" while there is no row
          documentId,  \* document_job.document_id
          csfs         \* documents stored in the csf table

vars == <<status, documentId, csfs>>

NoDoc == "none"

Init ==
    /\ status = [j \in Jobs |-> "none"]
    /\ documentId = [j \in Jobs |-> NoDoc]
    /\ csfs = {}

Create(j) ==
    /\ status[j] = "none"
    /\ status' = [status EXCEPT ![j] = "queued"]
    /\ UNCHANGED <<documentId, csfs>>

Start(j) ==
    /\ status[j] = "queued"
    /\ status' = [status EXCEPT ![j] = "processing"]
    /\ UNCHANGED <<documentId, csfs>>

Store(d) ==
    /\ csfs' = csfs \cup {d}
    /\ UNCHANGED <<status, documentId>>

Complete(j, d) ==
    /\ status[j] = "processing"
    /\ d \in csfs
    /\ status' = [status EXCEPT ![j] = "done"]
    /\ documentId' = [documentId EXCEPT ![j] = d]
    /\ UNCHANGED csfs

Fail(j) ==
    /\ status[j] \in {"queued", "processing", "done"}
    /\ status' = [status EXCEPT ![j] = "failed"]
    /\ UNCHANGED <<documentId, csfs>>

Next ==
    \/ \E j \in Jobs : Create(j) \/ Start(j) \/ Fail(j)
    \/ \E d \in Docs : Store(d)
    \/ \E j \in Jobs, d \in Docs : Complete(j, d)

Spec == Init /\ [][Next]_vars
===========================================================================
