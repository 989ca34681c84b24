---------------------------- MODULE MCAuditChain ----------------------------
(* Instances of AuditChain for TLC: k4 writes for another company; k1 and k2 *)
(* write the same content.                                                   *)
EXTENDS AuditChain

CONSTANTS k1, k2, k3, k4, k5, a, b

MCCompanyOf == [k \in Calls |-> IF k = k4 THEN b ELSE a]
MCContentOf == [k \in Calls |-> IF k \in {k1, k2} THEN "x" ELSE "y"]
=============================================================================
