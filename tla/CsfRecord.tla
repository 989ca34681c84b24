----------------------------- MODULE CsfRecord -----------------------------
(***************************************************************************)
(* A row of the csf table and the requests that write it: an upload        *)
(* (_persist_csf, called by upload_pdf, upload_zip and the document        *)
(* worker), an approval, a QR revalidation, and a reading that asks for    *)
(* the corrections of a row that has none (get_csf).                       *)
(*                                                                         *)
(* Each request has a SQLAlchemy session of its own: it reads the row,     *)
(* changes attributes and commits.  The commit sends only the columns      *)
(* whose value differs from the one that was read; requests that overlap   *)
(* on a row mix their columns.                                             *)
(***************************************************************************)
EXTENDS Naturals, FiniteSets

CONSTANTS
    Sessions,    \* requests and worker threads at work at one time
    Companies,
    Docs,        \* PDF contents, by their SHA-256
    Users,       \* who approves
    Fields,      \* the columns of the taxpayer that are represented
    Values,      \* their values; the empty value is apart
    Extracted,   \* Extracted[d]: what the parser reads in d
    Texts,       \* QR texts
    SatTexts,    \* those with the format of a SAT address
    QrOf,        \* QrOf[d]: the QR text of d, or NoText
    Older,       \* Older[h]: the row h had when the columns of the corrections
                 \* were added, or NoRow
    MaxCalls     \* bound: requests that start

Empty == ""
NoText == "no_qr"
Required == {"rfc", "razon_social", "regimen", "cp", "id_cif"}

\* _parse_csf_fields puts DESCONOCIDO and SIN NOMBRE where it finds nothing.
AlwaysFilled == {"rfc", "razon_social"}

ASSUME FieldsAssumption ==
    /\ Fields \subseteq Required \cup {"curp"}
    /\ Empty \notin Values
    /\ Extracted \in [Docs -> [Fields -> Values \cup {Empty}]]
    /\ \A d \in Docs : \A f \in Fields \cap AlwaysFilled : Extracted[d][f] # Empty

ASSUME TextsAssumption ==
    /\ NoText \notin Texts
    /\ SatTexts \subseteq Texts
    /\ QrOf \in [Docs -> Texts \cup {NoText}]

ASSUME UsersAssumption ==
    {"none", "qr_invalid", "qr_not_detected"} \cap Users = {}

ASSUME MaxCallsAssumption == MaxCalls \in Nat

VARIABLES
    rows,    \* the csf table by csf_hash
    sess,    \* what each session holds
    answer,  \* answer[s]: the status its last approval answered, or "none"
    calls,   \* requests started
    raced,   \* raced[h]: a request wrote to h while another one held it
    viewed   \* viewed[h]: the corrected record of h comes from get_csf

vars == <<rows, sess, answer, calls, raced, viewed>>

Verdicts == {"null", "true", "false"}
Statuses == {"processed", "needs_review", "pending_qr", "approved_for_sync"}
Reasons == {"none", "qr_invalid", "qr_not_detected"} \cup Users

Hashes == Companies \X Docs

Data == [fields : [Fields -> Values \cup {Empty}], corrected : [Fields -> Values \cup {Empty}],
         text : Texts \cup {NoText}, valid : Verdicts]
\* autofill: crm_autofill is not null
Row == [company : Companies, fields : [Fields -> Values \cup {Empty}],
        corrected : [Fields -> Values \cup {Empty}], text : Texts \cup {NoText},
        valid : Verdicts, status : Statuses, reason : Reasons, autofill : BOOLEAN]
NoRow == [company |-> "no_row"]

\* seen is the row as it was read, new as the request has changed it.
Session == [op : {"upload", "approve", "revalidate", "view"}, hash : Hashes,
            company : Companies, seen : Row \cup {NoRow}, new : Row]
Idle == [op |-> "idle"]

TypeOK ==
    /\ rows \in [Hashes -> Row \cup {NoRow}]
    /\ sess \in [Sessions -> Session \cup {Idle}]
    /\ answer \in [Sessions -> Statuses \cup {"none"}]
    /\ calls \in 0..MaxCalls
    /\ raced \in [Hashes -> BOOLEAN]
    /\ viewed \in [Hashes -> BOOLEAN]

Init ==
    /\ rows = Older
    /\ sess = [s \in Sessions |-> Idle]
    /\ answer = [s \in Sessions |-> "none"]
    /\ calls = 0
    /\ raced = [h \in Hashes |-> FALSE]
    /\ viewed = [h \in Hashes |-> FALSE]

---------------------------------------------------------------------------
(* What a request computes.                                                *)

\* _validate_qr_format
Format(t) == IF t = NoText THEN "null" ELSE IF t \in SatTexts THEN "true" ELSE "false"

\* _compute_processing_status of a row with a source file; every caller of
\* _persist_csf sets source_filename.
Status(valid) ==
    CASE valid = "true"  -> [status |-> "processed", reason |-> "none"]
      [] valid = "false" -> [status |-> "needs_review", reason |-> "qr_invalid"]
      [] valid = "null"  -> [status |-> "pending_qr", reason |-> "qr_not_detected"]

\* A row of the time before the columns of the corrections: the migration
\* that added them left them empty, and the one of the status had set it by
\* the verdict.
OlderRow(h, r) ==
    /\ r.company = h[1]
    /\ r.corrected = [f \in Fields |-> Empty]
    /\ ~r.autofill
    /\ r.status = Status(r.valid).status
    /\ r.reason = Status(r.valid).reason

ASSUME OlderAssumption ==
    /\ Older \in [Hashes -> Row \cup {NoRow}]
    /\ \A h \in Hashes : Older[h] # NoRow => OlderRow(h, Older[h])

\* _build_corrected_json, where s holds the suggestions above the threshold
Corrected(fields, s) == [f \in Fields |-> IF s[f] # Empty THEN s[f] ELSE fields[f]]

\* _apply_ai_corrections_to_main_fields
Applied(fields, corrected) ==
    [f \in Fields |-> IF corrected[f] # Empty THEN corrected[f] ELSE fields[f]]

\* process_pdf, and the QR text the client of upload_pdf may send, which
\* replaces the one that was validated
DataOf(d, s, manual) ==
    [fields    |-> Applied(Extracted[d], Corrected(Extracted[d], s)),
     corrected |-> Corrected(Extracted[d], s),
     text      |-> IF manual # NoText THEN manual ELSE QrOf[d],
     valid     |-> Format(QrOf[d])]

\* Mutation: the hash of the file alone.
TenantHash_FileOnly(c, d) == <<CHOOSE b \in Companies : TRUE, d>>

\* SHA-256 of company and file hash, taken as injective
TenantHash(c, d) == <<c, d>>

\* Mutation: the status of the upload, not of the row it was merged into.
MergedStatus_UploadOnly(data, valid) == Status(data.valid)

MergedStatus(data, valid) == Status(valid)

MergedVerdict(data, row) == IF data.valid # "null" THEN data.valid ELSE row.valid

\* Mutation: values that were not found empty the column.
MergedField_Overwrites(f, data, row) == IF f = "rfc" THEN row.fields[f] ELSE data.fields[f]

\* A value that was found replaces the one of the row; rfc is left alone.
MergedField(f, data, row) ==
    IF f # "rfc" /\ data.fields[f] # Empty THEN data.fields[f] ELSE row.fields[f]

\* Mutation: the corrections are stored where there were none.
MergedCorrections_KeepFirst(data, row) == row.corrected

MergedCorrections(data, row) == data.corrected

\* _persist_csf on a row that exists.  field_validation always comes with the
\* data, so the row always counts as updated and is never marked duplicate.
Merged(data, row) ==
    LET valid == MergedVerdict(data, row)
        told  == MergedStatus(data, valid)
    IN  [company   |-> row.company,
         fields    |-> [f \in Fields |-> MergedField(f, data, row)],
         corrected |-> MergedCorrections(data, row),
         text      |-> IF data.text # NoText THEN data.text ELSE row.text,
         valid     |-> valid,
         status    |-> told.status,
         reason    |-> told.reason,
         autofill  |-> TRUE]

\* _persist_csf on a new row
NewRow(c, data) ==
    [company |-> c, fields |-> data.fields, corrected |-> data.corrected,
     text |-> data.text, valid |-> data.valid,
     status |-> Status(data.valid).status, reason |-> Status(data.valid).reason,
     autofill |-> TRUE]

\* approve_document_for_sync looks whether the fields are there, not at their
\* format.
MayApprove(row) == \A f \in Fields \cap Required : row.fields[f] # Empty

\* Mutation: another word for the status.
Approved_OtherWord(row, u) == [row EXCEPT !.status = "approved", !.reason = u]

Approved(row, u) == [row EXCEPT !.status = "approved_for_sync", !.reason = u]

\* revalidate_csf_qr
Revalidated(row) ==
    [row EXCEPT !.valid = Format(row.text), !.status = Status(Format(row.text)).status,
                !.reason = Status(Format(row.text)).reason]

\* get_csf: the record is made, the columns are left as they are.  A value
\* that the text gives for an empty column counts as a suggestion here.
Suggested(row, s) ==
    [row EXCEPT !.corrected = Corrected(row.fields, s), !.autofill = TRUE]

---------------------------------------------------------------------------
(* The requests: a step to read, one to commit.                            *)

Starts(s, op, h, c, new) ==
    /\ sess[s] = Idle
    /\ calls < MaxCalls
    /\ calls' = calls + 1
    /\ sess' = [sess EXCEPT ![s] = [op |-> op, hash |-> h, company |-> c,
                                    seen |-> rows[h], new |-> new]]
    /\ answer' = [answer EXCEPT ![s] = "none"]
    /\ UNCHANGED <<rows, raced, viewed>>

Upload(s) ==
    \E c \in Companies, d \in Docs, manual \in Texts \cup {NoText},
       suggested \in [Fields -> Values \cup {Empty}] :
        LET h    == TenantHash(c, d)
            data == DataOf(d, suggested, manual)
        IN  Starts(s, "upload", h, c, IF rows[h] = NoRow THEN NewRow(c, data)
                                                        ELSE Merged(data, rows[h]))

Approve(s) ==
    \E h \in Hashes, u \in Users :
        /\ rows[h] # NoRow
        /\ MayApprove(rows[h])
        /\ Starts(s, "approve", h, rows[h].company, Approved(rows[h], u))

Revalidate(s) ==
    \E h \in Hashes :
        /\ rows[h] # NoRow
        /\ rows[h].text # NoText
        /\ Starts(s, "revalidate", h, rows[h].company, Revalidated(rows[h]))

\* get_csf with include_ai_corrections
View(s) ==
    \E h \in Hashes, suggested \in [Fields -> Values \cup {Empty}] :
        /\ rows[h] # NoRow
        /\ ~rows[h].autofill
        /\ Starts(s, "view", h, rows[h].company, Suggested(rows[h], suggested))

\* A column is in the UPDATE if its value is not the one that was read.
Column(new, seen, current) == IF new # seen THEN new ELSE current

Stored(new, seen, current) ==
    [company   |-> current.company,
     fields    |-> [f \in Fields |->
                      Column(new.fields[f], seen.fields[f], current.fields[f])],
     corrected |-> Column(new.corrected, seen.corrected, current.corrected),
     text      |-> Column(new.text, seen.text, current.text),
     valid     |-> Column(new.valid, seen.valid, current.valid),
     status    |-> Column(new.status, seen.status, current.status),
     reason    |-> Column(new.reason, seen.reason, current.reason),
     autofill  |-> Column(new.autofill, seen.autofill, current.autofill)]

HeldByOther(s, h) == \E q \in Sessions \ {s} : sess[q] # Idle /\ sess[q].hash = h

Ends(s, h) ==
    /\ sess' = [sess EXCEPT ![s] = Idle]
    /\ answer' = [answer EXCEPT ![s] =
                    IF sess[s].op = "approve" THEN rows'[h].status ELSE @]
    /\ raced' = [raced EXCEPT ![h] = @ \/ (rows' # rows /\ HeldByOther(s, h))]
    /\ viewed' = [viewed EXCEPT ![h] =
                    IF rows' # rows /\ sess[s].op \in {"view", "upload"}
                    THEN sess[s].op = "view" ELSE @]
    /\ UNCHANGED calls

\* db.add, db.commit
Insert(s) ==
    /\ sess[s] # Idle
    /\ LET h == sess[s].hash
       IN  /\ sess[s].seen = NoRow
           /\ rows[h] = NoRow
           /\ rows' = [rows EXCEPT ![h] = sess[s].new]
           /\ Ends(s, h)

\* IntegrityError: the row of the other upload is returned as it is.
Conflict(s) ==
    /\ sess[s] # Idle
    /\ LET h == sess[s].hash
       IN  /\ sess[s].seen = NoRow
           /\ rows[h] # NoRow
           /\ UNCHANGED rows
           /\ Ends(s, h)

\* db.commit, db.refresh, and the answer from the row as it is then
Update(s) ==
    /\ sess[s] # Idle
    /\ LET h == sess[s].hash
       IN  /\ sess[s].seen # NoRow
           /\ rows' = [rows EXCEPT ![h] = Stored(sess[s].new, sess[s].seen, @)]
           /\ Ends(s, h)

\* The request raises, or the process stops, before the commit.
Abandon(s) ==
    /\ sess[s] # Idle
    /\ sess' = [sess EXCEPT ![s] = Idle]
    /\ UNCHANGED <<rows, answer, calls, raced, viewed>>

Next ==
    \E s \in Sessions :
        \/ Upload(s) \/ Approve(s) \/ Revalidate(s) \/ View(s)
        \/ Insert(s) \/ Conflict(s) \/ Update(s) \/ Abandon(s)

Spec == Init /\ [][Next]_vars

---------------------------------------------------------------------------
\* The stored documents.
StoredHashes == {h \in Hashes : rows[h] # NoRow}

(***************************************************************************)
(* However uploads, revalidations and approvals overlap, a document that   *)
(* may be sent out has all the fields that approval requires: what an      *)
(* approval has checked is not undone by a later or overlapping upload     *)
(* (approve_document_for_sync, _persist_csf).                              *)
(***************************************************************************)
ApprovedIsComplete ==
    \A h \in StoredHashes :
        rows[h].status = "approved_for_sync" =>
            \A f \in Fields \cap Required : rows[h].fields[f] # Empty

(***************************************************************************)
(* The row an upload updates, inserts or answers with is a row of the      *)
(* uploading company, also when another company uploads the same file      *)
(* (the hash of _persist_csf).                                             *)
(***************************************************************************)
OwnTenant ==
    \A s \in Sessions :
        sess[s] # Idle /\ sess[s].op = "upload" /\ rows[sess[s].hash] # NoRow =>
            rows[sess[s].hash].company = sess[s].company

RowsTold ==
    \A h \in StoredHashes : ~raced[h] =>
        LET r == rows[h]
        IN  \/ r.status = "approved_for_sync" /\ r.reason \in Users
            \/ r.valid = "true" /\ r.status = "processed" /\ r.reason = "none"
            \/ r.valid = "false" /\ r.status = "needs_review" /\ r.reason = "qr_invalid"
            \/ r.valid = "null" /\ r.status = "pending_qr" /\ r.reason = "qr_not_detected"

ApprovalsAnswered ==
    (\A h \in Hashes : ~raced[h]) => \A s \in Sessions : answer[s] \in {"none", "approved_for_sync"}

(***************************************************************************)
(* As long as no two requests overlap on a document, its status and its    *)
(* reason agree, and unless it is approved they tell the QR verdict of the *)
(* row, whatever the order of uploads, approvals and revalidations.  And   *)
(* as long as none overlap at all, every approval answers with the status  *)
(* approved_for_sync, which CONTRATO_OPERATIVO_V1.md 5.3 gives.            *)
(***************************************************************************)
StatusTold == RowsTold /\ ApprovalsAnswered

(***************************************************************************)
(* As long as no two requests overlap on a document, what the corrected    *)
(* record of its last upload says of a field is in the column, except for  *)
(* the RFC.  A record that get_csf has made for an older row is apart: its *)
(* corrections do not reach the columns.                                   *)
(***************************************************************************)
CorrectionsKept ==
    \A h \in StoredHashes : ~raced[h] /\ ~viewed[h] =>
        \A f \in Fields \ {"rfc"} :
            rows[h].corrected[f] # Empty => rows[h].fields[f] = rows[h].corrected[f]
===========================================================================
