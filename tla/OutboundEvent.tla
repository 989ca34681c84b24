--------------------------- MODULE OutboundEvent ---------------------------
(***************************************************************************)
(* What GET /v1/sync/outbound/{event_id} promises of the delivery of an    *)
(* event: every attempt is counted, an event is retried until it has used  *)
(* its attempts, and delivered and failed_dlq are final.                   *)
(***************************************************************************)
EXTENDS Naturals

CONSTANTS Events,       \* rows of document_sync_events
          MaxAttempts   \* SYNC_OUTBOUND_MAX_ATTEMPTS

VARIABLES status,    \* delivery_status, "none" while there is no row
          attempts

vars == <<status, attempts>>

Init ==
    /\ status = [e \in Events |-> "none"]
    /\ attempts = [e \in Events |-> 0]

Enqueue(e) ==
    /\ status[e] = "none"
    /\ status' = [status EXCEPT ![e] = "queued"]
    /\ UNCHANGED attempts

Attempt(e) ==
    /\ status[e] \in {"queued", "retry"}
    /\ attempts' = [attempts EXCEPT ![e] = @ + 1]
    /\ \/ status' = [status EXCEPT ![e] = "delivered"]
       \/ /\ attempts[e] + 1 < MaxAttempts
          /\ status' = [status EXCEPT ![e] = "retry"]
       \/ /\ attempts[e] + 1 >= MaxAttempts
          /\ status' = [status EXCEPT ![e] = "failed_dlq"]

Next == \E e \in Events : Enqueue(e) \/ Attempt(e)

Spec == Init /\ [][Next]_vars
============================================================================
