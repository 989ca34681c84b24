---------------------------- MODULE MCSurvivalSync ----------------------------
(* Instances of SurvivalSync for TLC.                                      *)
EXTENDS SurvivalSync, TLC

\* e1 names a company its sender does not belong to; e2 has no time and names the
\* company of the superadmin that sends it, whichever company it asks for; bad has
\* no hash, dang refers to a missing row.  With the stamped draft the reader has
\* three rows, more than a page, which may be cut between two of one time.
MCHashOf == [e \in Events |-> IF e = "bad" THEN NoHash ELSE e]
MCTimeOf == "e1" :> 1 @@ "e2" :> 0 @@ "bad" :> 1 @@ "dang" :> 2
MCCompanyOf == "e1" :> "t2" @@ "e2" :> "t1" @@ "bad" :> NoTenant @@ "dang" :> NoTenant
MCOutbox == "c1" :> <<"bad", "e1">> @@ "c2" :> <<"dang", "e2">>
MCContextOf == "c1" :> [tenant |-> "t1", role |-> "operator"]
            @@ "c2" :> [tenant |-> "t1", role |-> "superadmin"]
===============================================================================
