------------------------- MODULE CsfRecord_proofs -------------------------
(* The csf rows for every set of sessions, documents, companies and fields. *)
EXTENDS CsfRecord, TLAPS

Columns == [Fields -> Values \cup {Empty}]
Filled(row) == {f \in Fields : row.fields[f] # Empty}
Complete(row) == Fields \cap Required \subseteq Filled(row)

\* What a request does to the row it has read.
Step(s) ==
    /\ sess[s].seen # NoRow =>
        /\ Filled(sess[s].seen) \subseteq Filled(sess[s].new)
        /\ Filled(sess[s].seen) \subseteq Filled(rows[sess[s].hash])
        /\ rows[sess[s].hash] \in Row
    /\ sess[s].new.status = "approved_for_sync" =>
        sess[s].seen # NoRow /\ Complete(sess[s].seen)

Steps == \A s \in Sessions : sess[s] # Idle => Step(s)

\* A company writes its own rows.
Tenants ==
    /\ \A h \in Hashes : rows[h] # NoRow => rows[h].company = h[1]
    /\ \A s \in Sessions : sess[s] # Idle =>
        /\ sess[s].company = sess[s].hash[1]
        /\ sess[s].seen = NoRow => sess[s].new.company = sess[s].company

IInv == TypeOK /\ Steps /\ ApprovedIsComplete

---------------------------------------------------------------------------
(* What the operators of the module return.                                *)

LEMMA StatusType ==
    ASSUME NEW v \in Verdicts
    PROVE  /\ Status(v).status \in {"processed", "needs_review", "pending_qr"}
           /\ Status(v).reason \in {"none", "qr_invalid", "qr_not_detected"}
BY DEF Status, Verdicts

LEMMA FormatType == \A t : Format(t) \in Verdicts
BY DEF Format, Verdicts

LEMMA DataType ==
    ASSUME NEW d \in Docs, NEW g \in Columns, NEW m \in Texts \cup {NoText}
    PROVE  /\ DataOf(d, g, m) \in Data
           /\ \A f \in Fields : DataOf(d, g, m).corrected[f] # Empty =>
                 DataOf(d, g, m).fields[f] = DataOf(d, g, m).corrected[f]
<1>1. Corrected(Extracted[d], g) \in Columns
  BY FieldsAssumption DEF Corrected, Columns
<1>2. Applied(Extracted[d], Corrected(Extracted[d], g)) \in Columns
  BY <1>1, FieldsAssumption DEF Applied, Columns
<1>3. QrOf[d] \in Texts \cup {NoText}
  BY TextsAssumption
<1> QED BY <1>1, <1>2, <1>3, FormatType DEF DataOf, Data, Applied, Columns

LEMMA NewRowType ==
    ASSUME NEW c \in Companies, NEW data \in Data
    PROVE  /\ NewRow(c, data) \in Row
           /\ NewRow(c, data).company = c
           /\ NewRow(c, data).fields = data.fields
           /\ NewRow(c, data).corrected = data.corrected
           /\ NewRow(c, data).valid = data.valid
           /\ NewRow(c, data).status = Status(data.valid).status
           /\ NewRow(c, data).reason = Status(data.valid).reason
BY StatusType DEF NewRow, Data, Row, Statuses, Reasons

LEMMA MergedType ==
    ASSUME NEW data \in Data, NEW row \in Row
    PROVE  /\ Merged(data, row) \in Row
           /\ Merged(data, row).company = row.company
           /\ Merged(data, row).fields = [f \in Fields |-> MergedField(f, data, row)]
           /\ Merged(data, row).corrected = data.corrected
           /\ Merged(data, row).valid \in Verdicts
           /\ Merged(data, row).status = Status(Merged(data, row).valid).status
           /\ Merged(data, row).reason = Status(Merged(data, row).valid).reason
<1>1. MergedVerdict(data, row) \in Verdicts
  BY DEF MergedVerdict, Data, Row
<1>2. [f \in Fields |-> MergedField(f, data, row)] \in Columns
  BY DEF Data, Row, MergedField, Columns
<1>3. /\ Status(MergedVerdict(data, row)).status \in Statuses
      /\ Status(MergedVerdict(data, row)).reason \in Reasons
  BY <1>1, StatusType DEF Statuses, Reasons
<1> QED BY <1>1, <1>2, <1>3 DEF Merged, MergedStatus, MergedCorrections, Row, Data, Columns

LEMMA ApprovedType ==
    ASSUME NEW row \in Row, NEW u \in Users
    PROVE  /\ Approved(row, u) \in Row
           /\ Approved(row, u).company = row.company
           /\ Approved(row, u).fields = row.fields
           /\ Approved(row, u).corrected = row.corrected
           /\ Approved(row, u).status = "approved_for_sync"
           /\ Approved(row, u).reason = u
BY DEF Approved, Row, Statuses, Reasons

LEMMA RevalidatedType ==
    ASSUME NEW row \in Row
    PROVE  /\ Revalidated(row) \in Row
           /\ Revalidated(row).company = row.company
           /\ Revalidated(row).fields = row.fields
           /\ Revalidated(row).corrected = row.corrected
           /\ Revalidated(row).valid \in Verdicts
           /\ Revalidated(row).status = Status(Revalidated(row).valid).status
           /\ Revalidated(row).reason = Status(Revalidated(row).valid).reason
<1>1. Format(row.text) \in Verdicts
  BY FormatType
<1> QED BY <1>1, StatusType DEF Revalidated, Row, Statuses, Reasons

LEMMA SuggestedType ==
    ASSUME NEW row \in Row, NEW g \in Columns
    PROVE  /\ Suggested(row, g) \in Row
           /\ Suggested(row, g).company = row.company
           /\ Suggested(row, g).fields = row.fields
           /\ Suggested(row, g).valid = row.valid
           /\ Suggested(row, g).status = row.status
           /\ Suggested(row, g).reason = row.reason
<1>1. Corrected(row.fields, g) \in Columns
  BY DEF Row, Corrected, Columns
<1> QED BY <1>1 DEF Suggested, Row, Columns

\* A row of the time before the columns of the corrections.
LEMMA OlderType ==
    ASSUME NEW h \in Hashes, Older[h] # NoRow
    PROVE  /\ Older[h] \in Row
           /\ Older[h].company = h[1]
           /\ \A f \in Fields : Older[h].corrected[f] = Empty
           /\ Older[h].valid \in Verdicts
           /\ Older[h].status = Status(Older[h].valid).status
           /\ Older[h].reason = Status(Older[h].valid).reason
           /\ Older[h].status # "approved_for_sync"
<1>1. Older[h] \in Row /\ OlderRow(h, Older[h])
  BY OlderAssumption
<1>2. Older[h].valid \in Verdicts
  BY <1>1 DEF Row
<1> QED BY <1>1, <1>2, StatusType DEF OlderRow

LEMMA StoredType ==
    ASSUME NEW new \in Row, NEW seen \in Row, NEW current \in Row
    PROVE  /\ Stored(new, seen, current) \in Row
           /\ Stored(new, seen, current).company = current.company
           /\ Stored(new, seen, current).status \in {new.status, current.status}
           /\ Stored(new, seen, current).status # current.status =>
                 Stored(new, seen, current).status = new.status
           /\ \A f \in Fields :
                 Stored(new, seen, current).fields[f] =
                    Column(new.fields[f], seen.fields[f], current.fields[f])
<1>1. [f \in Fields |-> Column(new.fields[f], seen.fields[f], current.fields[f])] \in Columns
  BY DEF Row, Column, Columns
<1> QED BY <1>1 DEF Stored, Row, Column, Columns

\* What is filled in the row stays filled.
LEMMA StoredFills ==
    ASSUME NEW new \in Row, NEW seen \in Row, NEW current \in Row,
           Filled(seen) \subseteq Filled(new), Filled(seen) \subseteq Filled(current)
    PROVE  Filled(current) \subseteq Filled(Stored(new, seen, current))
BY StoredType DEF Filled, Column

\* A session that is not idle.
LEMMA SessionType ==
    ASSUME TypeOK, NEW s \in Sessions, sess[s] # Idle
    PROVE  /\ sess[s] \in Session
           /\ sess[s].hash \in Hashes /\ sess[s].company \in Companies
           /\ sess[s].seen \in Row \cup {NoRow} /\ sess[s].new \in Row
           /\ sess[s].op \in {"upload", "approve", "revalidate", "view"}
BY DEF TypeOK, Session

---------------------------------------------------------------------------
(* The steps.                                                              *)

LEMMA InitIInv == Init => IInv
<1> SUFFICES ASSUME Init PROVE IInv
  OBVIOUS
<1>1. TypeOK
  BY MaxCallsAssumption, OlderAssumption DEF Init, TypeOK
<1>2. ApprovedIsComplete
  BY OlderType DEF Init, ApprovedIsComplete, StoredHashes
<1> QED BY <1>1, <1>2 DEF Init, IInv, Steps

\* A request that has read the row.
LEMMA StartsIInv ==
    ASSUME IInv, NEW s \in Sessions, NEW h \in Hashes, NEW c \in Companies,
           NEW op \in {"upload", "approve", "revalidate", "view"}, NEW new \in Row,
           Starts(s, op, h, c, new),
           rows[h] # NoRow => Filled(rows[h]) \subseteq Filled(new),
           new.status = "approved_for_sync" => rows[h] # NoRow /\ Complete(rows[h])
    PROVE  IInv'
<1> DEFINE n == [op |-> op, hash |-> h, company |-> c, seen |-> rows[h], new |-> new]
<1>1. rows[h] \in Row \cup {NoRow}
  BY DEF IInv, TypeOK
<1>2. n \in Session
  BY <1>1 DEF Session
<1>3. /\ sess' = [sess EXCEPT ![s] = n]
      /\ UNCHANGED <<rows, raced, viewed>> /\ calls' = calls + 1 /\ calls < MaxCalls
      /\ answer' = [answer EXCEPT ![s] = "none"]
  BY DEF Starts
<1>4. TypeOK'
  <2>1. sess' \in [Sessions -> Session \cup {Idle}]
    BY <1>2, <1>3 DEF IInv, TypeOK
  <2>2. calls' \in 0..MaxCalls
    BY <1>3, MaxCallsAssumption DEF IInv, TypeOK
  <2>3. answer' \in [Sessions -> Statuses \cup {"none"}]
    BY <1>3 DEF IInv, TypeOK
  <2> QED BY <1>3, <2>1, <2>2, <2>3 DEF IInv, TypeOK
<1>5. Steps'
  <2> SUFFICES ASSUME NEW q \in Sessions, sess'[q] # Idle PROVE Step(q)'
    BY DEF Steps
  <2>1. CASE q = s
    <3>1. sess'[q] = n
      BY <1>3, <2>1 DEF IInv, TypeOK
    <3>2. /\ n.seen = rows[h] /\ n.new = new /\ n.hash = h
      OBVIOUS
    <3> QED BY <1>1, <1>3, <3>1, <3>2 DEF Step, Complete, Filled
  <2>2. CASE q # s
    <3>1. sess'[q] = sess[q]
      BY <1>3, <2>2 DEF IInv, TypeOK
    <3> QED BY <1>3, <3>1 DEF IInv, Steps, Step, Complete, Filled
  <2> QED BY <2>1, <2>2
<1>6. ApprovedIsComplete'
  BY <1>3 DEF IInv, ApprovedIsComplete, StoredHashes
<1> QED BY <1>4, <1>5, <1>6 DEF IInv

\* A commit that ends session s and leaves row h filled at least as it was.
LEMMA EndsIInv ==
    ASSUME IInv, NEW s \in Sessions, sess[s] # Idle, NEW h, h = sess[s].hash,
           NEW row \in Row \cup {NoRow}, rows' = [rows EXCEPT ![h] = row], Ends(s, h),
           sess[s].op = "approve" => row \in Row,
           rows[h] \in Row => row \in Row /\ Filled(rows[h]) \subseteq Filled(row),
           row \in Row /\ row.status = "approved_for_sync" => Complete(row)
    PROVE  IInv'
<1>1. h \in Hashes
  BY SessionType DEF IInv
<1>2. rows'[h] = row /\ \A g \in Hashes : g # h => rows'[g] = rows[g]
  BY <1>1 DEF IInv, TypeOK
<1>3. sess' = [sess EXCEPT ![s] = Idle] /\ UNCHANGED calls
  BY DEF Ends
<1>4. TypeOK'
  <2>1. rows' \in [Hashes -> Row \cup {NoRow}]
    BY DEF IInv, TypeOK
  <2>2. answer' \in [Sessions -> Statuses \cup {"none"}]
    <3>1. sess[s].op = "approve" => rows'[h].status \in Statuses
      BY <1>2 DEF Row
    <3> QED BY <3>1 DEF IInv, TypeOK, Ends
  <2>3. raced' \in [Hashes -> BOOLEAN]
    <3>1. raced' = [raced EXCEPT ![h] = raced[h] \/ (rows' # rows /\ HeldByOther(s, h))]
      BY DEF Ends
    <3>2. (raced[h] \/ (rows' # rows /\ HeldByOther(s, h))) \in BOOLEAN
      OBVIOUS
    <3> QED BY <3>1, <3>2 DEF IInv, TypeOK
  <2>4. viewed' \in [Hashes -> BOOLEAN]
    <3> DEFINE v == IF rows' # rows /\ sess[s].op \in {"view", "upload"}
                    THEN sess[s].op = "view" ELSE viewed[h]
    <3>1. viewed' = [viewed EXCEPT ![h] = v]
      BY DEF Ends
    <3>2. v \in BOOLEAN
      BY <1>1 DEF IInv, TypeOK
    <3> HIDE DEF v
    <3> QED BY <3>1, <3>2 DEF IInv, TypeOK
  <2> QED BY <1>3, <2>1, <2>2, <2>3, <2>4 DEF IInv, TypeOK
<1>5. Steps'
  <2> SUFFICES ASSUME NEW q \in Sessions, sess'[q] # Idle PROVE Step(q)'
    BY DEF Steps
  <2>1. sess'[q] = sess[q] /\ sess[q] # Idle
    BY <1>3 DEF IInv, TypeOK
  <2>2. Step(q) /\ sess[q].hash \in Hashes
    BY <2>1, SessionType DEF IInv, Steps
  <2>3. sess[q].seen # NoRow =>
          /\ Filled(sess[q].seen) \subseteq Filled(rows'[sess[q].hash])
          /\ rows'[sess[q].hash] \in Row
    <3>1. CASE sess[q].hash = h
      BY <1>2, <2>2, <3>1 DEF Step
    <3>2. CASE sess[q].hash # h
      BY <1>2, <2>2, <3>2 DEF Step
    <3> QED BY <3>1, <3>2
  <2> QED BY <2>1, <2>2, <2>3 DEF Step, Complete, Filled
<1>6. ApprovedIsComplete'
  <2> SUFFICES ASSUME NEW g \in Hashes, rows'[g] # NoRow,
                      rows'[g].status = "approved_for_sync"
               PROVE  \A f \in Fields \cap Required : rows'[g].fields[f] # Empty
    BY DEF ApprovedIsComplete, StoredHashes
  <2>1. CASE g = h
    BY <1>2, <2>1 DEF Complete, Filled
  <2>2. CASE g # h
    BY <1>2, <2>2 DEF IInv, ApprovedIsComplete, StoredHashes
  <2> QED BY <2>1, <2>2
<1> QED BY <1>4, <1>5, <1>6 DEF IInv

LEMMA UploadIInv ==
    ASSUME IInv, NEW s \in Sessions, Upload(s)
    PROVE  IInv'
<1>1. PICK c \in Companies, d \in Docs, m \in Texts \cup {NoText}, g \in Columns :
        Starts(s, "upload", TenantHash(c, d), c,
               IF rows[TenantHash(c, d)] = NoRow
               THEN NewRow(c, DataOf(d, g, m))
               ELSE Merged(DataOf(d, g, m), rows[TenantHash(c, d)]))
  BY DEF Upload, Columns
<1> DEFINE h == TenantHash(c, d)
           data == DataOf(d, g, m)
           new == IF rows[h] = NoRow THEN NewRow(c, data) ELSE Merged(data, rows[h])
<1>2. h \in Hashes
  BY DEF TenantHash, Hashes
<1>3. data \in Data /\ data.valid \in Verdicts
  BY DataType DEF Data
<1>4. CASE rows[h] = NoRow
  <2>1. new \in Row /\ new.status # "approved_for_sync"
    BY <1>3, <1>4, NewRowType, StatusType
  <2> QED BY <1>1, <1>2, <1>4, <2>1, StartsIInv
<1>5. CASE rows[h] # NoRow
  <2>1. rows[h] \in Row
    BY <1>2, <1>5 DEF IInv, TypeOK
  <2>2. /\ new \in Row /\ new.status # "approved_for_sync"
        /\ new.fields = [f \in Fields |-> MergedField(f, data, rows[h])]
    BY <1>3, <1>5, <2>1, MergedType, StatusType
  <2>3. Filled(rows[h]) \subseteq Filled(new)
    BY <2>2 DEF Filled, MergedField
  <2> QED BY <1>1, <1>2, <2>2, <2>3, StartsIInv
<1> QED BY <1>4, <1>5

LEMMA ApproveIInv ==
    ASSUME IInv, NEW s \in Sessions, Approve(s)
    PROVE  IInv'
<1>1. PICK h \in Hashes, u \in Users :
        /\ rows[h] # NoRow
        /\ MayApprove(rows[h])
        /\ Starts(s, "approve", h, rows[h].company, Approved(rows[h], u))
  BY DEF Approve
<1>2. rows[h] \in Row /\ rows[h].company \in Companies
  BY <1>1 DEF IInv, TypeOK, Row
<1>3. Approved(rows[h], u) \in Row /\ Approved(rows[h], u).fields = rows[h].fields
  BY <1>2, ApprovedType
<1>4. Complete(rows[h]) /\ Filled(rows[h]) = Filled(Approved(rows[h], u))
  BY <1>1, <1>3 DEF MayApprove, Complete, Filled
<1> QED BY <1>1, <1>2, <1>3, <1>4, StartsIInv

LEMMA RevalidateIInv ==
    ASSUME IInv, NEW s \in Sessions, Revalidate(s)
    PROVE  IInv'
<1>1. PICK h \in Hashes :
        /\ rows[h] # NoRow
        /\ Starts(s, "revalidate", h, rows[h].company, Revalidated(rows[h]))
  BY DEF Revalidate
<1>2. rows[h] \in Row /\ rows[h].company \in Companies
  BY <1>1 DEF IInv, TypeOK, Row
<1>3. /\ Revalidated(rows[h]) \in Row /\ Revalidated(rows[h]).fields = rows[h].fields
      /\ Revalidated(rows[h]).status # "approved_for_sync"
  BY <1>2, RevalidatedType, StatusType
<1>4. Filled(rows[h]) = Filled(Revalidated(rows[h]))
  BY <1>3 DEF Filled
<1> QED BY <1>1, <1>2, <1>3, <1>4, StartsIInv

LEMMA ViewIInv ==
    ASSUME IInv, NEW s \in Sessions, View(s)
    PROVE  IInv'
<1>1. PICK h \in Hashes, g \in Columns :
        /\ rows[h] # NoRow
        /\ Starts(s, "view", h, rows[h].company, Suggested(rows[h], g))
  BY DEF View, Columns
<1>2. rows[h] \in Row /\ rows[h].company \in Companies
  BY <1>1 DEF IInv, TypeOK, Row
<1>3. /\ Suggested(rows[h], g) \in Row /\ Suggested(rows[h], g).fields = rows[h].fields
      /\ Suggested(rows[h], g).status = rows[h].status
  BY <1>2, SuggestedType
<1>4. Filled(rows[h]) = Filled(Suggested(rows[h], g))
  BY <1>3 DEF Filled
<1>5. rows[h].status = "approved_for_sync" => Complete(rows[h])
  BY <1>1 DEF IInv, ApprovedIsComplete, StoredHashes, Complete, Filled
<1> QED BY <1>1, <1>2, <1>3, <1>4, <1>5, StartsIInv

LEMMA InsertIInv ==
    ASSUME IInv, NEW s \in Sessions, Insert(s)
    PROVE  IInv'
<1> DEFINE h == sess[s].hash
<1>1. /\ sess[s] # Idle /\ sess[s].seen = NoRow /\ rows[h] = NoRow
      /\ rows' = [rows EXCEPT ![h] = sess[s].new] /\ Ends(s, h)
  BY DEF Insert
<1>2. sess[s].new \in Row
  BY <1>1, SessionType DEF IInv
<1>3. sess[s].new.status # "approved_for_sync"
  BY <1>1 DEF IInv, Steps, Step
<1>4. rows[h] \notin Row
  <2>1. \A r \in Row : "status" \in DOMAIN r
    BY DEF Row
  <2>2. "status" \notin DOMAIN NoRow
    BY DEF NoRow
  <2> QED BY <1>1, <2>1, <2>2
<1> QED BY <1>1, <1>2, <1>3, <1>4, EndsIInv

LEMMA ConflictIInv ==
    ASSUME IInv, NEW s \in Sessions, Conflict(s)
    PROVE  IInv'
<1> DEFINE h == sess[s].hash
<1>1. sess[s] # Idle /\ rows[h] # NoRow /\ UNCHANGED rows /\ Ends(s, h)
  BY DEF Conflict
<1>2. h \in Hashes /\ rows[h] \in Row
  BY <1>1, SessionType DEF IInv, TypeOK
<1>3. rows' = [rows EXCEPT ![h] = rows[h]]
  BY <1>1, <1>2 DEF IInv, TypeOK
<1>4. rows[h].status = "approved_for_sync" => Complete(rows[h])
  BY <1>1, <1>2 DEF IInv, ApprovedIsComplete, StoredHashes, Complete, Filled
<1> QED BY <1>1, <1>2, <1>3, <1>4, EndsIInv

LEMMA UpdateIInv ==
    ASSUME IInv, NEW s \in Sessions, Update(s)
    PROVE  IInv'
<1> DEFINE h == sess[s].hash
           seen == sess[s].seen
           new == sess[s].new
           row == Stored(new, seen, rows[h])
<1>1. sess[s] # Idle /\ seen # NoRow /\ Ends(s, h)
      /\ rows' = [rows EXCEPT ![h] = row]
  BY DEF Update
<1>2. h \in Hashes /\ seen \in Row /\ new \in Row
  BY <1>1, SessionType DEF IInv
<1>3. Step(s)
  BY <1>1 DEF IInv, Steps
<1>4. /\ Filled(seen) \subseteq Filled(new) /\ Filled(seen) \subseteq Filled(rows[h])
      /\ rows[h] \in Row
  BY <1>1, <1>3 DEF Step
<1>5. row \in Row /\ Filled(rows[h]) \subseteq Filled(row)
  BY <1>2, <1>4, StoredType, StoredFills
<1>6. row.status = "approved_for_sync" => Complete(row)
  <2> SUFFICES ASSUME row.status = "approved_for_sync" PROVE Complete(row)
    OBVIOUS
  <2>1. CASE rows[h].status = "approved_for_sync"
    <3>1. rows[h] # NoRow => Complete(rows[h])
      BY <1>2, <2>1 DEF IInv, ApprovedIsComplete, StoredHashes, Complete, Filled
    <3>2. rows[h] # NoRow
      <4>1. "status" \in DOMAIN rows[h] /\ "status" \notin DOMAIN NoRow
        BY <1>4 DEF Row, NoRow
      <4> QED BY <4>1
    <3> QED BY <1>5, <3>1, <3>2 DEF Complete
  <2>2. CASE rows[h].status # "approved_for_sync"
    <3>1. new.status = "approved_for_sync"
      BY <1>2, <1>4, <2>2, StoredType
    <3>2. Complete(seen)
      BY <1>3, <3>1 DEF Step
    <3> QED BY <1>4, <1>5, <3>2 DEF Complete
  <2> QED BY <2>1, <2>2
<1> HIDE DEF row
<1> QED BY <1>1, <1>5, <1>6, EndsIInv

LEMMA AbandonIInv ==
    ASSUME IInv, NEW s \in Sessions, Abandon(s)
    PROVE  IInv'
<1>1. sess' = [sess EXCEPT ![s] = Idle] /\ UNCHANGED <<rows, answer, calls, raced, viewed>>
  BY DEF Abandon
<1>2. TypeOK'
  BY <1>1 DEF IInv, TypeOK
<1>3. Steps'
  BY <1>1 DEF IInv, TypeOK, Steps, Step, Complete, Filled
<1> QED BY <1>1, <1>2, <1>3 DEF IInv, ApprovedIsComplete, StoredHashes

LEMMA NextIInv == IInv /\ [Next]_vars => IInv'
<1> SUFFICES ASSUME IInv, [Next]_vars PROVE IInv'
  OBVIOUS
<1>1. CASE UNCHANGED vars
  BY <1>1 DEF vars, IInv, TypeOK, Steps, Step, Complete, Filled, ApprovedIsComplete,
              StoredHashes
<1>2. CASE Next
  BY <1>2, UploadIInv, ApproveIInv, RevalidateIInv, ViewIInv, InsertIInv, ConflictIInv,
     UpdateIInv, AbandonIInv DEF Next
<1> QED BY <1>1, <1>2

LEMMA Invariance == Spec => []IInv
BY InitIInv, NextIInv, PTL DEF Spec

\* Type correctness of the rows and of what the sessions hold.
THEOREM TypeCorrect == Spec => []TypeOK
<1>1. IInv => TypeOK
  BY DEF IInv
<1> QED BY Invariance, <1>1, PTL

\* However many requests overlap, a document that may be sent out has the
\* fields that approval requires (approve_document_for_sync, _persist_csf).
THEOREM ApprovedIsCompleteThm == Spec => []ApprovedIsComplete
<1>1. IInv => ApprovedIsComplete
  BY DEF IInv
<1> QED BY Invariance, <1>1, PTL

---------------------------------------------------------------------------
(* Tenants.                                                                *)

LEMMA InitTenants == Init => Tenants
BY OlderType DEF Init, Tenants

LEMMA StartsTenants ==
    ASSUME IInv, Tenants, NEW s \in Sessions, NEW h \in Hashes, NEW op, NEW new,
           NEW c, c = h[1], Starts(s, op, h, c, new), rows[h] = NoRow => new.company = c
    PROVE  Tenants'
<1> DEFINE n == [op |-> op, hash |-> h, company |-> c, seen |-> rows[h], new |-> new]
<1>1. sess' = [sess EXCEPT ![s] = n] /\ UNCHANGED rows
  BY DEF Starts
<1>2. n.hash = h /\ n.company = c /\ n.seen = rows[h] /\ n.new = new
  OBVIOUS
<1>3. \A q \in Sessions : sess'[q] = IF q = s THEN n ELSE sess[q]
  BY <1>1 DEF IInv, TypeOK
<1> QED BY <1>1, <1>2, <1>3 DEF Tenants

LEMMA EndsTenants ==
    ASSUME IInv, Tenants, NEW s \in Sessions, NEW h \in Hashes, NEW row,
           rows' = [rows EXCEPT ![h] = row], Ends(s, h), row.company = h[1]
    PROVE  Tenants'
<1>1. \A g \in Hashes : rows'[g] = IF g = h THEN row ELSE rows[g]
  BY DEF IInv, TypeOK
<1>2. \A q \in Sessions : sess'[q] = IF q = s THEN Idle ELSE sess[q]
  BY DEF Ends, IInv, TypeOK
<1> QED BY <1>1, <1>2 DEF Tenants

LEMMA NextTenants == IInv /\ Tenants /\ [Next]_vars => Tenants'
<1> SUFFICES ASSUME IInv, Tenants, [Next]_vars PROVE Tenants'
  OBVIOUS
<1>1. CASE UNCHANGED vars
  BY <1>1 DEF vars, Tenants
<1>2. ASSUME NEW s \in Sessions, Upload(s) PROVE Tenants'
  <2>1. PICK c \in Companies, d \in Docs, m \in Texts \cup {NoText}, g \in Columns :
          Starts(s, "upload", TenantHash(c, d), c,
                 IF rows[TenantHash(c, d)] = NoRow
                 THEN NewRow(c, DataOf(d, g, m))
                 ELSE Merged(DataOf(d, g, m), rows[TenantHash(c, d)]))
    BY <1>2 DEF Upload, Columns
  <2>2. TenantHash(c, d) \in Hashes /\ c = TenantHash(c, d)[1]
    BY DEF TenantHash, Hashes
  <2>3. NewRow(c, DataOf(d, g, m)).company = c
    BY DataType, NewRowType
  <2> QED BY <2>1, <2>2, <2>3, StartsTenants
<1>3. ASSUME NEW s \in Sessions, Approve(s) \/ Revalidate(s) \/ View(s) PROVE Tenants'
  <2>1. PICK h, op, new :
          /\ h \in Hashes /\ rows[h] # NoRow
          /\ Starts(s, op, h, rows[h].company, new)
    BY <1>3 DEF Approve, Revalidate, View
  <2>2. rows[h].company = h[1]
    BY <2>1 DEF Tenants
  <2> QED BY <2>1, <2>2, StartsTenants
<1>4. ASSUME NEW s \in Sessions, Insert(s) PROVE Tenants'
  <2>1. sess[s] # Idle /\ sess[s].hash \in Hashes
    BY <1>4, SessionType DEF Insert, IInv
  <2>2. sess[s].new.company = sess[s].hash[1]
    BY <1>4, <2>1 DEF Insert, Tenants
  <2> QED BY <1>4, <2>1, <2>2, EndsTenants DEF Insert
<1>5. ASSUME NEW s \in Sessions, Conflict(s) \/ Abandon(s) PROVE Tenants'
  <2>1. UNCHANGED rows /\ \A q \in Sessions : sess'[q] \in {Idle, sess[q]}
    BY <1>5 DEF Conflict, Abandon, Ends, IInv, TypeOK
  <2> QED BY <2>1 DEF Tenants
<1>6. ASSUME NEW s \in Sessions, Update(s) PROVE Tenants'
  <2> DEFINE h == sess[s].hash
             row == Stored(sess[s].new, sess[s].seen, rows[h])
  <2>1. sess[s] # Idle /\ sess[s].seen # NoRow /\ h \in Hashes
    BY <1>6, SessionType DEF Update, IInv
  <2>2. rows' = [rows EXCEPT ![h] = row] /\ Ends(s, h)
    BY <1>6 DEF Update
  <2>3. rows[h] \in Row
    BY <2>1 DEF IInv, Steps, Step
  <2>4. rows[h] # NoRow
    <3>1. "status" \in DOMAIN rows[h] /\ "status" \notin DOMAIN NoRow
      BY <2>3 DEF Row, NoRow
    <3> QED BY <3>1
  <2>5. row.company = h[1]
    BY <2>1, <2>4 DEF Stored, Tenants
  <2> HIDE DEF row
  <2> QED BY <2>1, <2>2, <2>5, EndsTenants
<1> QED BY <1>1, <1>2, <1>3, <1>4, <1>5, <1>6 DEF Next

\* Any number of companies may upload the same file at the same time: each one
\* writes and is answered with a row of its own (_persist_csf).
THEOREM OwnTenantThm == Spec => []OwnTenant
<1>1. IInv /\ Tenants => OwnTenant
  <2> SUFFICES ASSUME IInv, Tenants, NEW s \in Sessions, sess[s] # Idle,
                      rows[sess[s].hash] # NoRow
               PROVE  rows[sess[s].hash].company = sess[s].company
    BY DEF OwnTenant
  <2>1. sess[s].hash \in Hashes
    BY SessionType DEF IInv
  <2> QED BY <2>1 DEF Tenants
<1>2. Spec => []Tenants
  BY InitTenants, NextTenants, Invariance, PTL DEF Spec
<1> QED BY <1>1, <1>2, Invariance, PTL

---------------------------------------------------------------------------
(* Requests that do not overlap.                                           *)

Told(r) ==
    \/ r.status = "approved_for_sync" /\ r.reason \in Users
    \/ r.valid = "true" /\ r.status = "processed" /\ r.reason = "none"
    \/ r.valid = "false" /\ r.status = "needs_review" /\ r.reason = "qr_invalid"
    \/ r.valid = "null" /\ r.status = "pending_qr" /\ r.reason = "qr_not_detected"

Kept(r) == \A f \in Fields \ {"rfc"} : r.corrected[f] # Empty => r.fields[f] = r.corrected[f]

\* What s will store is not a record that get_csf has made.
Uploaded(s) ==
    sess[s].op = "upload" \/ (sess[s].op # "view" /\ ~viewed[sess[s].hash])

\* A session that was not overtaken still holds the row as it is, and what it
\* will store is in order.
Alone ==
    \A s \in Sessions : sess[s] # Idle /\ ~raced[sess[s].hash] =>
        /\ sess[s].seen # NoRow => sess[s].seen = rows[sess[s].hash]
        /\ Told(sess[s].new)
        /\ Uploaded(s) => Kept(sess[s].new)

RInv == Alone /\ RowsTold /\ CorrectionsKept

LEMMA StatusIsTold ==
    ASSUME NEW r, r.valid \in Verdicts,
           r.status = Status(r.valid).status, r.reason = Status(r.valid).reason
    PROVE  Told(r)
BY DEF Told, Status, Verdicts

LEMMA InitRInv == Init => RInv
<1> SUFFICES ASSUME Init PROVE RInv
  OBVIOUS
<1>1. Alone
  BY DEF Init, Alone
<1>2. RowsTold
  BY OlderType, StatusIsTold DEF Init, RowsTold, StoredHashes, Told
<1>3. CorrectionsKept
  BY OlderType DEF Init, CorrectionsKept, StoredHashes
<1> QED BY <1>1, <1>2, <1>3 DEF RInv

LEMMA StartsRInv ==
    ASSUME IInv, RInv, NEW s \in Sessions, NEW h \in Hashes, NEW op, NEW new, NEW c,
           Starts(s, op, h, c, new), ~raced[h] => Told(new),
           ~raced[h] /\ (op = "upload" \/ (op # "view" /\ ~viewed[h])) => Kept(new)
    PROVE  RInv'
<1> DEFINE n == [op |-> op, hash |-> h, company |-> c, seen |-> rows[h], new |-> new]
<1>1. sess' = [sess EXCEPT ![s] = n] /\ UNCHANGED <<rows, raced, viewed>>
  BY DEF Starts
<1>2. n.op = op /\ n.hash = h /\ n.seen = rows[h] /\ n.new = new
  OBVIOUS
<1>3. Alone'
  <2> SUFFICES ASSUME NEW q \in Sessions, sess'[q] # Idle, ~raced'[sess'[q].hash]
               PROVE  /\ sess'[q].seen # NoRow => sess'[q].seen = rows'[sess'[q].hash]
                      /\ Told(sess'[q].new)
                      /\ Uploaded(q)' => Kept(sess'[q].new)
    BY DEF Alone, Told, Kept
  <2>1. CASE q = s
    BY <1>1, <1>2, <2>1 DEF IInv, TypeOK, Uploaded
  <2>2. CASE q # s
    BY <1>1, <2>2 DEF IInv, TypeOK, RInv, Alone, Uploaded
  <2> QED BY <2>1, <2>2
<1> QED BY <1>1, <1>3 DEF RInv, RowsTold, CorrectionsKept, StoredHashes

\* A commit that ends s: the row is in order if it was not overtaken.
LEMMA EndsRInv ==
    ASSUME IInv, RInv, NEW s \in Sessions, NEW h \in Hashes, h = sess[s].hash, NEW row,
           rows' = [rows EXCEPT ![h] = row], Ends(s, h), ~raced[h] => Told(row),
           ~raced[h] /\ rows' # rows /\ Uploaded(s) => Kept(row)
    PROVE  RInv'
<1>1. \A g \in Hashes : rows'[g] = IF g = h THEN row ELSE rows[g]
  BY DEF IInv, TypeOK
<1>2. \A q \in Sessions : sess'[q] = IF q = s THEN Idle ELSE sess[q]
  BY DEF Ends, IInv, TypeOK
<1>3. /\ \A g \in Hashes : g # h => raced'[g] = raced[g]
      /\ raced'[h] = (raced[h] \/ (rows' # rows /\ HeldByOther(s, h)))
  BY DEF Ends, IInv, TypeOK
<1>4. /\ \A g \in Hashes : g # h => viewed'[g] = viewed[g]
      /\ rows' = rows => viewed'[h] = viewed[h]
      /\ rows' # rows /\ ~viewed'[h] => Uploaded(s)
  <2> DEFINE v == IF rows' # rows /\ sess[s].op \in {"view", "upload"}
                  THEN sess[s].op = "view" ELSE viewed[h]
  <2>1. viewed' = [viewed EXCEPT ![h] = v]
    BY DEF Ends
  <2>2. viewed'[h] = v /\ \A g \in Hashes : g # h => viewed'[g] = viewed[g]
    BY <2>1 DEF IInv, TypeOK
  <2>3. CASE sess[s].op = "upload"
    BY <2>2, <2>3 DEF Uploaded
  <2>4. CASE sess[s].op = "view"
    BY <2>2, <2>4
  <2>5. CASE sess[s].op \notin {"upload", "view"}
    BY <2>2, <2>5 DEF Uploaded
  <2> QED BY <2>3, <2>4, <2>5
<1>5. Alone'
  <2> SUFFICES ASSUME NEW q \in Sessions, sess'[q] # Idle, ~raced'[sess'[q].hash]
               PROVE  /\ sess'[q].seen # NoRow => sess'[q].seen = rows'[sess'[q].hash]
                      /\ Told(sess'[q].new)
                      /\ Uploaded(q)' => Kept(sess'[q].new)
    BY DEF Alone, Told, Kept
  <2>1. q # s /\ sess'[q] = sess[q] /\ sess[q] # Idle
    BY <1>2
  <2>2. sess[q].hash \in Hashes
    BY <2>1, SessionType DEF IInv
  <2>3. /\ ~raced[sess[q].hash]
        /\ rows'[sess[q].hash] = rows[sess[q].hash]
        /\ viewed'[sess[q].hash] = viewed[sess[q].hash]
    <3>1. CASE sess[q].hash = h
      <4>1. HeldByOther(s, h)
        BY <2>1, <3>1 DEF HeldByOther
      <4> QED BY <1>3, <1>4, <2>1, <3>1, <4>1
    <3>2. CASE sess[q].hash # h
      BY <1>1, <1>3, <1>4, <2>1, <2>2, <3>2
    <3> QED BY <3>1, <3>2
  <2>4. Uploaded(q)' = Uploaded(q)
    BY <2>1, <2>3 DEF Uploaded
  <2> QED BY <2>1, <2>3, <2>4 DEF RInv, Alone
<1>6. ASSUME NEW g \in Hashes, rows'[g] # NoRow, ~raced'[g]
      PROVE  Told(rows'[g]) /\ (~viewed'[g] => Kept(rows'[g]))
  <2>1. CASE g # h \/ rows' = rows
    <3>1. rows'[g] = rows[g] /\ ~raced[g] /\ viewed'[g] = viewed[g]
      BY <1>1, <1>3, <1>4, <1>6, <2>1
    <3> QED BY <1>6, <3>1 DEF RInv, RowsTold, CorrectionsKept, StoredHashes, Told, Kept
  <2>2. CASE g = h /\ rows' # rows
    BY <1>1, <1>3, <1>4, <1>6, <2>2
  <2> QED BY <2>1, <2>2
<1> QED BY <1>5, <1>6 DEF RInv, RowsTold, CorrectionsKept, StoredHashes, Told, Kept

\* What is stored when nobody wrote in between is what the request computed.
LEMMA StoredAlone ==
    ASSUME NEW new \in Row, NEW seen \in Row
    PROVE  /\ Told(new) => Told(Stored(new, seen, seen))
           /\ Kept(new) => Kept(Stored(new, seen, seen))
<1>1. \A f \in Fields : Stored(new, seen, seen).fields[f] = new.fields[f]
  BY DEF Stored, Column
<1>2. /\ Stored(new, seen, seen).corrected = new.corrected
      /\ Stored(new, seen, seen).valid = new.valid
      /\ Stored(new, seen, seen).status = new.status
      /\ Stored(new, seen, seen).reason = new.reason
  BY DEF Stored, Column
<1> QED BY <1>1, <1>2 DEF Told, Kept

LEMMA NextRInv == IInv /\ RInv /\ [Next]_vars => RInv'
<1> SUFFICES ASSUME IInv, RInv, [Next]_vars PROVE RInv'
  OBVIOUS
<1>1. CASE UNCHANGED vars
  BY <1>1 DEF vars, RInv, Alone, Uploaded, Told, Kept, RowsTold, CorrectionsKept, StoredHashes
<1>2. ASSUME NEW s \in Sessions, Upload(s) PROVE RInv'
  <2>1. PICK c \in Companies, d \in Docs, m \in Texts \cup {NoText}, g \in Columns :
          Starts(s, "upload", TenantHash(c, d), c,
                 IF rows[TenantHash(c, d)] = NoRow
                 THEN NewRow(c, DataOf(d, g, m))
                 ELSE Merged(DataOf(d, g, m), rows[TenantHash(c, d)]))
    BY <1>2 DEF Upload, Columns
  <2> DEFINE h == TenantHash(c, d)
             data == DataOf(d, g, m)
  <2>2. h \in Hashes
    BY DEF TenantHash, Hashes
  <2>3. data \in Data /\ data.valid \in Verdicts
    BY DataType DEF Data
  <2>4. \A f \in Fields : data.corrected[f] # Empty => data.fields[f] = data.corrected[f]
    BY DataType
  <2> HIDE DEF data
  <2>5. Told(NewRow(c, data)) /\ Kept(NewRow(c, data))
    BY <2>3, <2>4, NewRowType, StatusIsTold DEF Kept
  <2>6. rows[h] # NoRow => Told(Merged(data, rows[h])) /\ Kept(Merged(data, rows[h]))
    <3> SUFFICES ASSUME rows[h] # NoRow
                 PROVE  Told(Merged(data, rows[h])) /\ Kept(Merged(data, rows[h]))
      OBVIOUS
    <3>1. rows[h] \in Row
      BY <2>2 DEF IInv, TypeOK
    <3>2. Told(Merged(data, rows[h]))
      BY <2>3, <3>1, MergedType, StatusIsTold
    <3>3. Kept(Merged(data, rows[h]))
      <4>1. Merged(data, rows[h]).corrected = data.corrected
        BY <2>3, <3>1, MergedType
      <4>2. \A f \in Fields : Merged(data, rows[h]).fields[f] = MergedField(f, data, rows[h])
        BY DEF Merged
      <4> QED BY <2>4, <4>1, <4>2 DEF Kept, MergedField
    <3> QED BY <3>2, <3>3
  <2> QED BY <2>1, <2>2, <2>5, <2>6, StartsRInv DEF data
<1>3. ASSUME NEW s \in Sessions, Approve(s) PROVE RInv'
  <2>1. PICK h \in Hashes, u \in Users :
          /\ rows[h] # NoRow
          /\ Starts(s, "approve", h, rows[h].company, Approved(rows[h], u))
    BY <1>3 DEF Approve
  <2>2. rows[h] \in Row
    BY <2>1 DEF IInv, TypeOK
  <2>3. Told(Approved(rows[h], u))
    BY <2>2, ApprovedType DEF Told
  <2>4. ~raced[h] /\ ~viewed[h] => Kept(Approved(rows[h], u))
    BY <2>1, <2>2, ApprovedType DEF RInv, CorrectionsKept, StoredHashes, Kept
  <2> QED BY <2>1, <2>3, <2>4, StartsRInv
<1>4. ASSUME NEW s \in Sessions, Revalidate(s) PROVE RInv'
  <2>1. PICK h \in Hashes :
          /\ rows[h] # NoRow
          /\ Starts(s, "revalidate", h, rows[h].company, Revalidated(rows[h]))
    BY <1>4 DEF Revalidate
  <2>2. rows[h] \in Row
    BY <2>1 DEF IInv, TypeOK
  <2>3. Told(Revalidated(rows[h]))
    BY <2>2, RevalidatedType, StatusIsTold
  <2>4. ~raced[h] /\ ~viewed[h] => Kept(Revalidated(rows[h]))
    BY <2>1, <2>2, RevalidatedType DEF RInv, CorrectionsKept, StoredHashes, Kept
  <2> QED BY <2>1, <2>3, <2>4, StartsRInv
<1>5. ASSUME NEW s \in Sessions, Insert(s) PROVE RInv'
  <2>1. sess[s] # Idle /\ sess[s].hash \in Hashes
    BY <1>5, SessionType DEF Insert, IInv
  <2>2. ~raced[sess[s].hash] => Told(sess[s].new) /\ (Uploaded(s) => Kept(sess[s].new))
    BY <2>1 DEF RInv, Alone
  <2> QED BY <1>5, <2>1, <2>2, EndsRInv DEF Insert
<1>6. ASSUME NEW s \in Sessions, Conflict(s) PROVE RInv'
  <2> DEFINE h == sess[s].hash
  <2>1. h \in Hashes /\ rows[h] # NoRow /\ Ends(s, h)
    BY <1>6, SessionType DEF Conflict, IInv
  <2>2. rows' = [rows EXCEPT ![h] = rows[h]]
    BY <1>6, <2>1 DEF Conflict, IInv, TypeOK
  <2>3. ~raced[h] => Told(rows[h])
    BY <2>1 DEF RInv, RowsTold, StoredHashes, Told
  <2> QED BY <1>6, <2>1, <2>2, <2>3, EndsRInv DEF Conflict
<1>7. ASSUME NEW s \in Sessions, Update(s) PROVE RInv'
  <2> DEFINE h == sess[s].hash
             seen == sess[s].seen
             new == sess[s].new
             row == Stored(new, seen, rows[h])
  <2>1. /\ sess[s] # Idle /\ seen # NoRow /\ h \in Hashes
        /\ seen \in Row /\ new \in Row
    BY <1>7, SessionType DEF Update, IInv
  <2>2. rows' = [rows EXCEPT ![h] = row] /\ Ends(s, h)
    BY <1>7 DEF Update
  <2>3. ~raced[h] => seen = rows[h] /\ Told(new) /\ (Uploaded(s) => Kept(new))
    BY <2>1 DEF RInv, Alone
  <2>4. ~raced[h] => Told(row) /\ (Uploaded(s) => Kept(row))
    BY <2>1, <2>3, StoredAlone
  <2> HIDE DEF row
  <2> QED BY <2>1, <2>2, <2>4, EndsRInv
<1>8. ASSUME NEW s \in Sessions, Abandon(s) PROVE RInv'
  <2>1. /\ UNCHANGED <<rows, raced, viewed>>
        /\ \A q \in Sessions : sess'[q] \in {Idle, sess[q]}
    BY <1>8 DEF Abandon, IInv, TypeOK
  <2> QED BY <2>1 DEF RInv, Alone, Uploaded, RowsTold, CorrectionsKept, StoredHashes, Told, Kept
<1>9. ASSUME NEW s \in Sessions, View(s) PROVE RInv'
  <2>1. PICK h \in Hashes, g \in Columns :
          /\ rows[h] # NoRow
          /\ Starts(s, "view", h, rows[h].company, Suggested(rows[h], g))
    BY <1>9 DEF View, Columns
  <2>2. rows[h] \in Row
    BY <2>1 DEF IInv, TypeOK
  <2>3. ~raced[h] => Told(rows[h])
    BY <2>1 DEF RInv, RowsTold, StoredHashes, Told
  <2>4. ~raced[h] => Told(Suggested(rows[h], g))
    BY <2>2, <2>3, SuggestedType DEF Told
  <2> QED BY <2>1, <2>4, StartsRInv
<1> QED BY <1>1, <1>2, <1>3, <1>4, <1>5, <1>6, <1>7, <1>8, <1>9 DEF Next

LEMMA NotOvertaken == Spec => []RInv
BY InitRInv, NextRInv, Invariance, PTL DEF Spec

\* An approval holds a row and the status it will give it.
AnswersInv ==
    /\ \A s \in Sessions : sess[s] # Idle /\ sess[s].op = "approve" =>
            sess[s].seen # NoRow /\ sess[s].new.status = "approved_for_sync"
    /\ ApprovalsAnswered

LEMMA StartsAnswers ==
    ASSUME IInv, AnswersInv, NEW s \in Sessions, NEW op, NEW h \in Hashes, NEW c, NEW new,
           Starts(s, op, h, c, new),
           op = "approve" => rows[h] # NoRow /\ new.status = "approved_for_sync"
    PROVE  AnswersInv'
<1>1. \A q \in Sessions : sess'[q] = IF q = s
                                     THEN [op |-> op, hash |-> h, company |-> c,
                                           seen |-> rows[h], new |-> new]
                                     ELSE sess[q]
  BY DEF Starts, IInv, TypeOK
<1>2. \A q \in Sessions : answer'[q] \in {"none", answer[q]}
  BY DEF Starts, IInv, TypeOK
<1>3. UNCHANGED raced
  BY DEF Starts
<1> QED BY <1>1, <1>2, <1>3 DEF AnswersInv, ApprovalsAnswered

LEMMA EndsAnswers ==
    ASSUME IInv, AnswersInv, NEW s \in Sessions, NEW h \in Hashes, Ends(s, h),
           ~raced[h] /\ sess[s].op = "approve" => rows'[h].status = "approved_for_sync"
    PROVE  AnswersInv'
<1>1. \A q \in Sessions : sess'[q] \in {Idle, sess[q]}
  BY DEF Ends, IInv, TypeOK
<1>2. ApprovalsAnswered'
  <2> SUFFICES ASSUME \A g \in Hashes : ~raced'[g], NEW q \in Sessions
               PROVE  answer'[q] \in {"none", "approved_for_sync"}
    BY DEF ApprovalsAnswered
  <2>1. \A g \in Hashes : ~raced[g]
    BY DEF Ends, IInv, TypeOK
  <2>2. answer[q] \in {"none", "approved_for_sync"}
    BY <2>1 DEF AnswersInv, ApprovalsAnswered
  <2>3. answer'[q] = IF q = s /\ sess[s].op = "approve" THEN rows'[h].status ELSE answer[q]
    BY DEF Ends, IInv, TypeOK
  <2> QED BY <2>1, <2>2, <2>3
<1> QED BY <1>1, <1>2 DEF AnswersInv

LEMMA NextAnswers == IInv /\ RInv /\ AnswersInv /\ [Next]_vars => AnswersInv'
<1> SUFFICES ASSUME IInv, RInv, AnswersInv, [Next]_vars PROVE AnswersInv'
  OBVIOUS
<1>1. CASE UNCHANGED vars
  BY <1>1 DEF vars, AnswersInv, ApprovalsAnswered
<1>2. ASSUME NEW s \in Sessions, Upload(s) PROVE AnswersInv'
  <2>1. PICK c, d, new :
          c \in Companies /\ d \in Docs /\ Starts(s, "upload", TenantHash(c, d), c, new)
    BY <1>2 DEF Upload
  <2>2. TenantHash(c, d) \in Hashes
    BY <2>1 DEF TenantHash, Hashes
  <2> QED BY <2>1, <2>2, StartsAnswers
<1>3. ASSUME NEW s \in Sessions, Approve(s) PROVE AnswersInv'
  <2>1. PICK h \in Hashes, u \in Users :
          /\ rows[h] # NoRow
          /\ Starts(s, "approve", h, rows[h].company, Approved(rows[h], u))
    BY <1>3 DEF Approve
  <2>2. Approved(rows[h], u).status = "approved_for_sync"
    BY <2>1, ApprovedType DEF IInv, TypeOK
  <2> QED BY <2>1, <2>2, StartsAnswers
<1>4. ASSUME NEW s \in Sessions, Revalidate(s) \/ View(s) PROVE AnswersInv'
  BY <1>4, StartsAnswers DEF Revalidate, View
<1>5. ASSUME NEW s \in Sessions, Insert(s) \/ Conflict(s) PROVE AnswersInv'
  <2>1. sess[s].hash \in Hashes /\ Ends(s, sess[s].hash) /\ sess[s].op # "approve"
    BY <1>5, SessionType DEF Insert, Conflict, IInv, AnswersInv
  <2> QED BY <2>1, EndsAnswers
<1>6. ASSUME NEW s \in Sessions, Update(s) PROVE AnswersInv'
  <2> DEFINE h == sess[s].hash
             seen == sess[s].seen
             new == sess[s].new
             row == Stored(new, seen, rows[h])
  <2>1. /\ sess[s] # Idle /\ seen # NoRow /\ h \in Hashes
        /\ rows' = [rows EXCEPT ![h] = row] /\ Ends(s, h)
    BY <1>6, SessionType DEF Update, IInv
  <2>2. rows'[h] = row
    BY <2>1 DEF IInv, TypeOK
  <2>3. ~raced[h] => seen = rows[h]
    BY <2>1 DEF RInv, Alone
  <2>4. ~raced[h] => row.status = new.status
    BY <2>3 DEF Stored, Column
  <2>5. sess[s].op = "approve" => new.status = "approved_for_sync"
    BY <2>1 DEF AnswersInv
  <2> HIDE DEF row
  <2> QED BY <2>1, <2>2, <2>4, <2>5, EndsAnswers
<1>7. ASSUME NEW s \in Sessions, Abandon(s) PROVE AnswersInv'
  <2>1. UNCHANGED <<answer, raced>> /\ \A q \in Sessions : sess'[q] \in {Idle, sess[q]}
    BY <1>7 DEF Abandon, IInv, TypeOK
  <2> QED BY <2>1 DEF AnswersInv, ApprovalsAnswered
<1> QED BY <1>1, <1>2, <1>3, <1>4, <1>5, <1>6, <1>7 DEF Next

\* Without an overlap, status, reason and QR verdict of a document agree after
\* any sequence of uploads, approvals and revalidations, and approvals answer so.
THEOREM StatusToldThm == Spec => []StatusTold
<1>1. Init => AnswersInv
  BY DEF Init, AnswersInv, ApprovalsAnswered, Idle
<1>2. Spec => []AnswersInv
  BY <1>1, NextAnswers, NotOvertaken, Invariance, PTL DEF Spec
<1>3. RInv /\ AnswersInv => StatusTold
  BY DEF RInv, AnswersInv, StatusTold
<1> QED BY NotOvertaken, <1>2, <1>3, PTL

\* Without an overlap, the corrected record an upload has stored and the
\* columns agree, the RFC excepted, also after get_csf has read the document
\* (_apply_ai_corrections_to_main_fields, _persist_csf).
THEOREM CorrectionsKeptThm == Spec => []CorrectionsKept
<1>1. RInv => CorrectionsKept
  BY DEF RInv
<1> QED BY NotOvertaken, <1>1, PTL
============================================================================
