---------------------------- MODULE MCDocumentJobs ----------------------------
(* Instances of DocumentJobs for TLC: j1 and j2 upload one document. *)
EXTENDS DocumentJobs

CONSTANTS j1, j2, j3, d1, d2

MCDocOf == [j \in Jobs |-> IF j \in {j1, j2} THEN d1 ELSE d2]
===============================================================================
