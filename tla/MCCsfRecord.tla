---------------------------- MODULE MCCsfRecord ----------------------------
(* Instances of CsfRecord for TLC.                                         *)
EXTENDS CsfRecord, TLC

CONSTANTS s1, s2, u1, u2

\* Neither document has a postal code; one has a QR code.
NoPostalCode ==
    [d \in {"with_qr", "without_qr"} |->
        [f \in Fields |-> IF f \in AlwaysFilled THEN "v1" ELSE Empty]]
MCQrOf == "with_qr" :> "sat" @@ "without_qr" :> NoText

\* One company has a row without the corrections.
MCOlder ==
    [h \in Companies \X Docs |->
        IF h # <<"c1", "without_qr">> THEN NoRow
        ELSE [company |-> "c1", fields |-> [f \in Fields |-> "v1"],
              corrected |-> [f \in Fields |-> Empty], text |-> NoText, valid |-> "null",
              status |-> "pending_qr", reason |-> "qr_not_detected", autofill |-> FALSE]]

Symmetric == Permutations({s1, s2}) \cup Permutations({u1, u2})
============================================================================
