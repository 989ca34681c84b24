--------------------------- MODULE MCOutboundSync ---------------------------
(* Instances of OutboundSync for TLC: r1 and r2 send the same request twice; *)
(* r3 has a key of its own but may be given the event_id of r1.              *)
EXTENDS OutboundSync

CONSTANTS r1, r2, r3, d1

MCKeyOf == [r \in Requests |-> IF r \in {r1, r2} THEN "k1" ELSE "k3"]
MCEventIdOf == [r \in Requests |-> r]
MCReusedEventId == [r \in Requests |-> IF r = r3 THEN r1 ELSE r]
MCDocOf == [r \in Requests |-> d1]
=============================================================================
