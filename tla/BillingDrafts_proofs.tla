------------------------ MODULE BillingDrafts_proofs ------------------------
(* Drafts, their events and the invoices of the PAC for every set of       *)
(* drafts, products, items, replies and sessions.  The invariants take the *)
(* sums of lines as they are; what they add up to is in SumsAddUp.         *)
EXTENDS BillingDrafts, FiniteSetTheorems, WellFoundedInduction, TLAPS

Fields == {"customer", "status", "stampStatus", "stampedAt", "xml", "sums"}
PostedFields == {"call", "draft", "lines", "sums", "receptor", "to", "outcome"}

Domains ==
    /\ DOMAIN drafts = Drafts /\ DOMAIN lines = Drafts /\ raced \in [Drafts -> BOOLEAN]
    /\ DOMAIN sess = Sessions /\ DOMAIN told = Sessions
    /\ calls \in Nat

RowOK(r) ==
    /\ r.stampedAt \in BOOLEAN
    /\ r.status \in {"draft", "ready_to_stamp", "stamped"}
    /\ r.sums = [subtotal |-> r.sums.subtotal, taxes |-> r.sums.taxes, total |-> r.sums.total]

RowsOK == \A d \in Existing : RowOK(drafts[d])

\* What DraftAgrees says of a row and its lines.
Agrees(r, ls) ==
    /\ r.sums = Sums(ls)
    /\ r.stampedAt => r.status = "stamped"
    /\ ~r.stampedAt =>
        /\ r.status = IF Missing(r.customer, ls) THEN "draft" ELSE "ready_to_stamp"
        /\ r.stampStatus # "stamped"

RowsAgree == \A d \in Existing : ~raced[d] => Agrees(drafts[d], lines[d])

\* A call posts one CFDI at most.
PostedOK ==
    /\ \A p \in posted :
        /\ DOMAIN p = PostedFields
        /\ p.call \in 1..calls
        /\ p.outcome \in Replies \cup {Pending}
        /\ p.draft \in Drafts \cup {None}
    /\ \A p, q \in posted : p.call = q.call => p = q

\* What a session holds belongs to what was posted and stored.
StampOK(b) ==
    /\ b.call \in 1..calls
    /\ b.draft \in Existing
    /\ RowOK(b.seen)
    /\ b.seen.stampedAt => drafts[b.draft].stampedAt
    /\ \E p \in posted : p.call = b.call /\ p.draft = b.draft /\ p.sums = b.seen.sums

EditOK(b) ==
    /\ b.call \in 1..calls
    /\ b.draft \in Existing
    /\ RowOK(b.new) /\ RowOK(b.seen)
    /\ b.new.stampedAt = b.seen.stampedAt
    /\ b.seen.stampedAt => drafts[b.draft].stampedAt

CheckOK(b) ==
    /\ b.call \in 1..calls
    /\ \E p \in posted : p.call = b.call /\ p.draft = None /\ p.receptor.rfc = b.req.rfc

\* As long as nobody else has written to the draft, it is as it was read.
Fresh(b) ==
    /\ b.seen = drafts[b.draft]
    /\ b.op = "edit" =>
         \E customer :
            b.new = Recalculated(drafts[b.draft], customer,
                                 (lines[b.draft] \ b.gone) \cup b.added)

SessionOK(b) ==
    /\ b = Idle \/ b.op \in {"edit", "stamp", "check"}
    /\ b.op = "stamp" => StampOK(b)
    /\ b.op = "edit" => EditOK(b)
    /\ b.op = "check" => CheckOK(b)
    /\ b.op \in {"edit", "stamp"} /\ ~raced[b.draft] => Fresh(b)

SessionsOK == \A s \in Sessions : SessionOK(sess[s])

EventsExist == \A e \in events : e.draft \in Existing /\ e.call \in 1..calls

\* A CFDI of a draft that has no answer yet, or a good one, is waited for, was
\* given up or has its event.
Settled(p) ==
    \/ \E e \in events : e.call = p.call
    \/ p.call \in cut
    \/ \E s \in Sessions : sess[s].op = "stamp" /\ sess[s].call = p.call

Covered ==
    \A p \in posted :
        p.draft # None /\ (p.outcome = Pending \/ Stamps(Normalize(p.outcome.reply))) => Settled(p)

IInv ==
    /\ Domains /\ RowsOK /\ PostedOK /\ SessionsOK /\ EventsExist /\ Covered
    /\ RowsAgree /\ RevenueIsIssued /\ PostedIsSound /\ VerdictIsGrounded

---------------------------------------------------------------------------
(* What the operators compute.                                             *)

LEMMA SumsShape ==
    ASSUME NEW ls
    PROVE  Sums(ls) = [subtotal |-> Sums(ls).subtotal, taxes |-> Sums(ls).taxes, total |-> Sums(ls).total]
BY DEF Sums

LEMMA RecalculatedOK ==
    ASSUME NEW row, NEW customer, NEW ls, row.stampedAt \in BOOLEAN
    PROVE  /\ RowOK(Recalculated(row, customer, ls))
           /\ Recalculated(row, customer, ls) # NoDraft
           /\ Recalculated(row, customer, ls).stampedAt = row.stampedAt
           /\ Agrees(Recalculated(row, customer, ls), ls)
<1> DEFINE n == Recalculated(row, customer, ls)
<1>1. /\ n.stampedAt = row.stampedAt /\ n.sums = Sums(ls) /\ n.customer = customer
      /\ n.status = StatusOf(row, customer, ls)
      /\ n.stampStatus = CASE row.stampedAt -> "stamped"
                           [] ~row.stampedAt /\ row.stampStatus = "stamped" -> "not_sent"
                           [] OTHER -> row.stampStatus
  BY DEF Recalculated
<1>2. n # NoDraft
  BY DEF Recalculated, NoDraft
<1> HIDE DEF n
<1>3. row.stampedAt => n.status = "stamped"
  BY <1>1 DEF StatusOf
<1>4. ~row.stampedAt => n.status = IF Missing(customer, ls) THEN "draft" ELSE "ready_to_stamp"
  BY <1>1 DEF StatusOf
<1>5. ~row.stampedAt => n.stampStatus # "stamped"
  BY <1>1
<1>6. RowOK(n)
  BY <1>1, <1>3, <1>4, SumsShape DEF RowOK
<1>7. Agrees(n, ls)
  BY <1>1, <1>3, <1>4, <1>5 DEF Agrees
<1> QED BY <1>1, <1>2, <1>6, <1>7 DEF n

\* A commit writes a row again.
LEMMA StoredOK ==
    ASSUME NEW new, NEW seen, NEW row, RowOK(new), RowOK(seen), RowOK(row)
    PROVE  RowOK(Stored(new, seen, row)) /\ Stored(new, seen, row) # NoDraft
<1> DEFINE n == Stored(new, seen, row)
<1>1. /\ n.stampedAt \in {new.stampedAt, row.stampedAt}
      /\ n.status \in {new.status, row.status}
      /\ n.sums = [subtotal |-> n.sums.subtotal, taxes |-> n.sums.taxes, total |-> n.sums.total]
      /\ n # NoDraft
  BY DEF Stored, Column, NoDraft
<1> HIDE DEF n
<1>2. RowOK(n)
  BY <1>1 DEF RowOK
<1> QED BY <1>1, <1>2 DEF n

\* If the row is still the one that was read, it becomes the new one.
LEMMA StoredFresh ==
    ASSUME NEW new, NEW seen, RowOK(new), RowOK(seen)
    PROVE  LET n == Stored(new, seen, seen)
           IN  /\ n.customer = new.customer /\ n.status = new.status
               /\ n.stampStatus = new.stampStatus /\ n.stampedAt = new.stampedAt
               /\ n.sums = new.sums
BY DEF Stored, Column, RowOK

\* A time of stamping is not taken back.
LEMMA StoredStamped ==
    ASSUME NEW new, NEW seen, NEW row, RowOK(new), RowOK(seen), RowOK(row),
           seen.stampedAt => row.stampedAt, seen.stampedAt => new.stampedAt
    PROVE  Stored(new, seen, row).stampedAt <=> row.stampedAt \/ new.stampedAt
BY DEF Stored, Column, RowOK

\* What is taken for a success was said to be one, or is unclear.
LEMMA SuccessIsSaid ==
    ASSUME NEW result, Stamps(result) \/ RfcActive(result) = "true"
    PROVE  SaysSealed(result) \/ Unclear(result)
<1>1. CASE Stamps(result)
  BY <1>1 DEF Stamps, SaysSealed, Unclear
<1>2. CASE RfcActive(result) = "true" /\ result.body.errores = <<>>
  <2>1. result.ok /\ ErrorCode(result) = None
    BY <1>2 DEF RfcActive, Unknown
  <2>2. result.body.codigo \in {None, "0"}
    BY <1>2, <2>1 DEF ErrorCode, Or
  <2> QED BY <1>2, <2>1, <2>2 DEF SaysSealed, Unclear
<1>3. CASE RfcActive(result) = "true" /\ result.body.errores # <<>>
  BY <1>3 DEF RfcActive, Unknown, Unclear
<1> QED BY <1>1, <1>2, <1>3

\* What the PAC says it has sealed it has issued.
LEMMA SuccessIsIssued ==
    ASSUME NEW p, p.outcome \in Replies,
           \/ Stamps(Normalize(p.outcome.reply))
           \/ RfcActive(Normalize(p.outcome.reply)) = "true"
    PROVE  p.outcome.issued \/ Unclear(Normalize(p.outcome.reply))
BY SuccessIsSaid, PacAssumption

\* The recipient of an RFC of the public passes the catalogues.
LEMMA ReceptorSound ==
    ASSUME NEW c, Receptor(c).rfc \in GenericRfcs
    PROVE  /\ ValidRegimen(Receptor(c).regimen, Tipo(Receptor(c).rfc))
           /\ ValidUso(Receptor(c).uso, Tipo(Receptor(c).rfc), Receptor(c).regimen)
<1>1. Receptor(c).regimen = "616" /\ Receptor(c).uso = "S01"
  BY DEF Receptor
<1>2. Tipo(Receptor(c).rfc) = "fisica"
  BY DEF Tipo
<1>3. "616" \in RegimenesFisica /\ "616" \in Regimenes
  BY DEF RegimenesFisica, Regimenes
<1>4. "S01" \in UsosBoth /\ "S01" \in Usos
  BY DEF UsosBoth, Usos
<1>5. ValidRegimen("616", "fisica")
  BY <1>3 DEF ValidRegimen
<1>6. RegimenesOf("S01") = Regimenes
  <2>1. "S01" \notin Deductions
    BY DEF Deductions
  <2> QED BY <1>4, <2>1 DEF RegimenesOf
<1>7. ValidUso("S01", "fisica", "616")
  BY <1>3, <1>4, <1>6 DEF ValidUso
<1> QED BY <1>1, <1>2, <1>5, <1>7

---------------------------------------------------------------------------
(* The steps.                                                              *)

LEMMA InitIInv == Init => IInv
<1> SUFFICES ASSUME Init PROVE IInv
  OBVIOUS
<1>1. Existing = {} /\ events = {} /\ posted = {}
  BY DEF Init, Existing
<1>2. Domains
  BY DEF Init, Domains
<1>3. SessionsOK
  BY DEF Init, SessionsOK, SessionOK, Idle
<1>4. RowsOK /\ PostedOK /\ EventsExist /\ Covered /\ RowsAgree /\ RevenueIsIssued /\ PostedIsSound
  BY <1>1 DEF RowsOK, PostedOK, EventsExist, Covered, RowsAgree, RevenueIsIssued, PostedIsSound
<1>5. VerdictIsGrounded
  BY DEF Init, VerdictIsGrounded
<1> QED BY <1>2, <1>3, <1>4, <1>5 DEF IInv

\* A verdict that was grounded stays so while what was posted only grows.
LEMMA VerdictKeeps ==
    ASSUME IInv, UNCHANGED told, posted \subseteq posted'
    PROVE  VerdictIsGrounded'
BY DEF IInv, VerdictIsGrounded

\* The catalogue.
LEMMA PriceKeeps ==
    ASSUME IInv, UNCHANGED <<drafts, lines, events, posted, sess, told, calls, raced, cut>>
    PROVE  IInv'
<1>1. Existing' = Existing /\ IssuedOrUnclear' = IssuedOrUnclear
  BY DEF Existing, IssuedOrUnclear
<1>2. Domains' /\ RowsOK' /\ PostedOK' /\ EventsExist'
  BY <1>1 DEF IInv, Domains, RowsOK, RowOK, PostedOK, EventsExist
<1>3. SessionsOK'
  BY <1>1 DEF IInv, SessionsOK, SessionOK, StampOK, EditOK, CheckOK, Fresh, RowOK
<1>4. Covered'
  BY DEF IInv, Covered, Settled
<1>5. RowsAgree' /\ RevenueIsIssued' /\ PostedIsSound' /\ VerdictIsGrounded'
  BY <1>1 DEF IInv, RowsAgree, RevenueIsIssued, PostedIsSound, VerdictIsGrounded
<1> QED BY <1>2, <1>3, <1>4, <1>5 DEF IInv

LEMMA PacActsKeeps ==
    ASSUME IInv, NEW p \in posted, NEW r \in Replies, PacActs(p, r) PROVE IInv'
<1> DEFINE n == [p EXCEPT !.outcome = r]
<1>1. /\ p.outcome = Pending /\ posted' = (posted \ {p}) \cup {n}
      /\ UNCHANGED <<price, drafts, lines, events, sess, told, calls, raced, cut>>
  BY DEF PacActs
<1>2. /\ DOMAIN n = PostedFields /\ n.call = p.call /\ n.draft = p.draft /\ n.lines = p.lines
      /\ n.sums = p.sums /\ n.receptor = p.receptor /\ n.outcome = r
  BY DEF IInv, PostedOK, PostedFields
<1> HIDE DEF n
<1>3. Existing' = Existing
  BY <1>1 DEF Existing
<1>4. IssuedOrUnclear \subseteq IssuedOrUnclear'
  BY <1>1 DEF IssuedOrUnclear
<1>5. Domains' /\ RowsOK' /\ EventsExist'
  BY <1>1, <1>3 DEF IInv, Domains, RowsOK, RowOK, EventsExist
<1>6. PostedOK'
  BY <1>1, <1>2 DEF IInv, PostedOK
<1>7. \A q \in posted : \E t \in posted' :
            t.call = q.call /\ t.draft = q.draft /\ t.sums = q.sums /\ t.receptor = q.receptor
  BY <1>1, <1>2
<1>8. SessionsOK'
  <2> SUFFICES ASSUME NEW s \in Sessions PROVE SessionOK(sess[s])'
    BY DEF SessionsOK
  <2>1. sess'[s] = sess[s] /\ SessionOK(sess[s])
    BY <1>1 DEF IInv, SessionsOK
  <2>2. StampOK(sess[s]) => StampOK(sess[s])'
    BY <1>1, <1>3, <1>7 DEF StampOK, RowOK
  <2>3. EditOK(sess[s]) => EditOK(sess[s])'
    BY <1>1, <1>3 DEF EditOK, RowOK
  <2>4. CheckOK(sess[s]) => CheckOK(sess[s])'
    BY <1>1, <1>7 DEF CheckOK
  <2>5. Fresh(sess[s]) => Fresh(sess[s])'
    BY <1>1 DEF Fresh
  <2> QED BY <1>1, <2>1, <2>2, <2>3, <2>4, <2>5 DEF SessionOK
<1>9. Covered'
  <2>1. \A q \in posted : Settled(q) => Settled(q)'
    BY <1>1 DEF Settled
  <2>2. p.draft # None => Settled(p)
    BY <1>1 DEF IInv, Covered
  <2>3. Settled(p)' => Settled(n)'
    BY <1>2 DEF Settled
  <2> QED BY <1>1, <1>2, <2>1, <2>2, <2>3 DEF IInv, Covered
<1>10. RowsAgree'
  BY <1>1, <1>3 DEF IInv, RowsAgree
<1>11. RevenueIsIssued'
  BY <1>1, <1>3, <1>4 DEF IInv, RevenueIsIssued
<1>12. PostedIsSound'
  BY <1>1, <1>2 DEF IInv, PostedIsSound
<1>13. VerdictIsGrounded'
  BY <1>1 DEF IInv, VerdictIsGrounded
<1> QED BY <1>5, <1>6, <1>8, <1>9, <1>10, <1>11, <1>12, <1>13 DEF IInv

\* A session that does nothing keeps what it holds, unless somebody writes to its
\* draft, and then its draft counts as raced.
LEMMA OtherKeeps ==
    ASSUME IInv, NEW t \in Sessions, sess'[t] = sess[t],
           posted \subseteq posted', calls' \in Nat, calls <= calls',
           Existing \subseteq Existing',
           \A d \in Existing : drafts[d].stampedAt => drafts'[d].stampedAt,
           sess[t].op \in {"edit", "stamp"} /\ ~raced'[sess[t].draft] =>
                /\ ~raced[sess[t].draft]
                /\ drafts'[sess[t].draft] = drafts[sess[t].draft]
                /\ lines'[sess[t].draft] = lines[sess[t].draft]
    PROVE  SessionOK(sess[t])'
<1>1. SessionOK(sess[t])
  BY DEF IInv, SessionsOK
<1>2. \A c \in 1..calls : c \in 1..calls'
  BY DEF IInv, Domains
<1>3. StampOK(sess[t]) => StampOK(sess[t])'
  BY <1>2 DEF StampOK, RowOK
<1>4. EditOK(sess[t]) => EditOK(sess[t])'
  BY <1>2 DEF EditOK, RowOK
<1>5. CheckOK(sess[t]) => CheckOK(sess[t])'
  BY <1>2 DEF CheckOK
<1>6. sess[t].op \in {"edit", "stamp"} /\ ~raced'[sess[t].draft] => Fresh(sess[t])'
  BY <1>1 DEF SessionOK, Fresh
<1> QED BY <1>1, <1>3, <1>4, <1>5, <1>6 DEF SessionOK

\* Steps that leave the tables alone.
LEMMA QuietKeeps ==
    ASSUME IInv, UNCHANGED <<drafts, lines, events, raced>>,
           posted \subseteq posted', calls' \in Nat, calls <= calls'
    PROVE  /\ Existing' = Existing
           /\ RowsOK' /\ EventsExist' /\ RowsAgree' /\ RevenueIsIssued'
<1>1. Existing' = Existing /\ IssuedOrUnclear \subseteq IssuedOrUnclear'
  BY DEF Existing, IssuedOrUnclear
<1>2. RowsOK' /\ RowsAgree'
  BY <1>1 DEF IInv, RowsOK, RowOK, RowsAgree
<1>3. EventsExist'
  BY <1>1 DEF IInv, EventsExist, Domains
<1>4. RevenueIsIssued'
  BY <1>1 DEF IInv, RevenueIsIssued
<1> QED BY <1>1, <1>2, <1>3, <1>4

\* An invoice stays settled as long as no stamping is forgotten.
LEMMA SettledKeeps ==
    ASSUME IInv, events \subseteq events', cut \subseteq cut',
           \A t \in Sessions : sess[t].op = "stamp" =>
                sess'[t] = sess[t] \/ sess[t].call \in cut'
    PROVE  \A p \in posted : Settled(p) => Settled(p)'
BY DEF Settled

\* A CFDI is posted under a new call.
LEMMA PostsKeeps ==
    ASSUME IInv, NEW d \in Drafts \cup {None}, NEW c, calls' = calls + 1,
           Posts(calls', d, c), UNCHANGED <<drafts, lines, raced>>,
           d # None => d \in Existing /\ c = Receptor(drafts[d].customer)
    PROVE  /\ posted \subseteq posted' /\ PostedOK' /\ PostedIsSound'
           /\ \E n \in posted' :
                /\ posted' = posted \cup {n}
                /\ n.call = calls' /\ n.draft = d /\ n.receptor = c /\ n.outcome = Pending
                /\ d # None => n.sums = drafts[d].sums
<1> DEFINE n == [call |-> calls', draft |-> d, lines |-> IF d = None THEN {} ELSE lines[d],
                 sums |-> IF d = None THEN Sums({}) ELSE drafts[d].sums,
                 receptor |-> c, to |-> Target(Cfg), outcome |-> Pending]
<1>1. posted' = posted \cup {n}
  BY DEF Posts
<1>2. /\ DOMAIN n = PostedFields /\ n.call = calls' /\ n.draft = d /\ n.receptor = c
      /\ n.outcome = Pending
      /\ d # None => n.sums = drafts[d].sums /\ n.lines = lines[d]
  BY DEF PostedFields
<1> HIDE DEF n
<1>3. calls \in Nat /\ \A p \in posted : p.call \in 1..calls
  BY DEF IInv, Domains, PostedOK
<1>4. PostedOK'
  <2>1. \A p \in posted : p.call \in 1..calls' /\ p.call # calls'
    BY <1>3
  <2>2. calls' \in 1..calls'
    BY <1>3
  <2> QED BY <1>1, <1>2, <2>1, <2>2 DEF IInv, PostedOK
<1>5. PostedIsSound'
  <2>1. d # None /\ ~raced[d] => n.sums = Sums(n.lines)
    BY <1>2 DEF IInv, RowsAgree, Agrees
  <2>2. d # None /\ n.receptor.rfc \in GenericRfcs =>
            /\ ValidRegimen(n.receptor.regimen, Tipo(n.receptor.rfc))
            /\ ValidUso(n.receptor.uso, Tipo(n.receptor.rfc), n.receptor.regimen)
    BY <1>2, ReceptorSound
  <2> QED BY <1>1, <1>2, <2>1, <2>2 DEF IInv, PostedIsSound
<1> QED BY <1>1, <1>2, <1>4, <1>5

LEMMA CreateKeeps ==
    ASSUME IInv, NEW s \in Sessions, NEW d \in Drafts, Create(s, d) PROVE IInv'
<1>1. /\ drafts[d] = NoDraft /\ calls' = calls + 1
      /\ UNCHANGED <<price, events, posted, sess, told, raced, cut>>
  BY DEF Create, Begins
<1>2. PICK customer, ls :
        /\ customer \in Customers \cup {NoCustomer}
        /\ lines' = [lines EXCEPT ![d] = ls]
        /\ drafts' = [drafts EXCEPT ![d] = Recalculated(NewDraft, customer, ls)]
  BY DEF Create
<1> DEFINE n == Recalculated(NewDraft, customer, ls)
<1>3. NewDraft.stampedAt = FALSE
  BY DEF NewDraft
<1>4. RowOK(n) /\ n # NoDraft /\ ~n.stampedAt /\ Agrees(n, ls)
  <2>1. NewDraft.stampedAt \in BOOLEAN
    BY <1>3
  <2>2. RowOK(n) /\ n # NoDraft /\ n.stampedAt = NewDraft.stampedAt /\ Agrees(n, ls)
    BY <2>1, RecalculatedOK
  <2> HIDE DEF n
  <2> QED BY <1>3, <2>2
<1>5. drafts' = [drafts EXCEPT ![d] = n]
  BY <1>2
<1> HIDE DEF n
<1>6. /\ drafts'[d] = n /\ lines'[d] = ls /\ DOMAIN drafts' = Drafts /\ DOMAIN lines' = Drafts
      /\ \A e \in Drafts \ {d} : drafts'[e] = drafts[e] /\ lines'[e] = lines[e]
  BY <1>2, <1>5 DEF IInv, Domains
<1>7. Existing' = Existing \cup {d} /\ d \notin Existing /\ Existing \subseteq Drafts
  BY <1>1, <1>4, <1>6 DEF Existing
<1>8. calls \in Nat /\ calls' \in Nat /\ calls <= calls'
  BY <1>1 DEF IInv, Domains
<1>9. Domains'
  BY <1>1, <1>6, <1>8 DEF IInv, Domains
<1>10. RowsOK'
  BY <1>4, <1>6, <1>7 DEF IInv, RowsOK, RowOK
<1>11. PostedOK'
  BY <1>1, <1>8 DEF IInv, PostedOK
<1>12. SessionsOK'
  <2> SUFFICES ASSUME NEW t \in Sessions PROVE SessionOK(sess[t])'
    BY DEF SessionsOK
  <2>1. sess[t].op \in {"edit", "stamp"} => sess[t].draft \in Existing
    BY DEF IInv, SessionsOK, SessionOK, StampOK, EditOK
  <2> QED BY <1>1, <1>6, <1>7, <1>8, <2>1, OtherKeeps
<1>13. EventsExist'
  BY <1>1, <1>7, <1>8 DEF IInv, EventsExist
<1>14. Covered'
  BY <1>1 DEF IInv, Covered, Settled
<1>15. RowsAgree'
  <2> SUFFICES ASSUME NEW e \in Existing', ~raced[e] PROVE Agrees(drafts'[e], lines'[e])
    BY <1>1 DEF RowsAgree
  <2>1. CASE e = d
    BY <1>4, <1>6, <2>1
  <2>2. CASE e # d
    BY <1>6, <1>7, <2>2 DEF IInv, RowsAgree
  <2> QED BY <2>1, <2>2
<1>16. RevenueIsIssued'
  <2>1. IssuedOrUnclear' = IssuedOrUnclear
    BY <1>1 DEF IssuedOrUnclear
  <2>2. \A e \in events : e.draft # d
    BY <1>7 DEF IInv, EventsExist
  <2> QED BY <1>1, <1>4, <1>6, <1>7, <2>1, <2>2 DEF IInv, RevenueIsIssued
<1>17. PostedIsSound'
  BY <1>1 DEF IInv, PostedIsSound
<1>18. VerdictIsGrounded'
  BY <1>1, VerdictKeeps
<1> QED BY <1>9, <1>10, <1>11, <1>12, <1>13, <1>14, <1>15, <1>16, <1>17, <1>18 DEF IInv

LEMMA UpdateKeeps ==
    ASSUME IInv, NEW s \in Sessions, NEW d \in Drafts, Update(s, d) PROVE IInv'
<1>1. /\ drafts[d] # NoDraft /\ sess[s] = Idle /\ calls' = calls + 1
      /\ UNCHANGED <<price, drafts, lines, events, posted, told, raced, cut>>
  BY DEF Update, Begins
<1>2. PICK customer, gone, added :
        sess' = [sess EXCEPT ![s] =
            [op |-> "edit", call |-> calls', draft |-> d, seen |-> drafts[d],
             new |-> Recalculated(drafts[d], customer, (lines[d] \ gone) \cup added),
             gone |-> gone, added |-> added]]
  BY DEF Update
<1> DEFINE new == Recalculated(drafts[d], customer, (lines[d] \ gone) \cup added)
           b == [op |-> "edit", call |-> calls', draft |-> d, seen |-> drafts[d],
                 new |-> new, gone |-> gone, added |-> added]
<1>3. d \in Existing /\ RowOK(drafts[d])
  BY <1>1 DEF Existing, IInv, RowsOK
<1>4. RowOK(new) /\ new.stampedAt = drafts[d].stampedAt
  <2>1. drafts[d].stampedAt \in BOOLEAN
    BY <1>3 DEF RowOK
  <2> QED BY <2>1, RecalculatedOK
<1>5. new = Recalculated(drafts[d], customer, (lines[d] \ gone) \cup added)
  OBVIOUS
<1> HIDE DEF new
<1>6. /\ b.op = "edit" /\ b.call = calls' /\ b.draft = d /\ b.seen = drafts[d] /\ b.new = new
      /\ b.gone = gone /\ b.added = added
  OBVIOUS
<1>7. sess' = [sess EXCEPT ![s] = b]
  BY <1>2 DEF new
<1> HIDE DEF b
<1>8. calls \in Nat /\ calls' \in Nat /\ calls <= calls' /\ calls' \in 1..calls'
  BY <1>1 DEF IInv, Domains
<1>9. DOMAIN sess' = Sessions /\ \A t \in Sessions : sess'[t] = IF t = s THEN b ELSE sess[t]
  BY <1>7 DEF IInv, Domains
<1>10. Existing' = Existing /\ RowsOK' /\ EventsExist' /\ RowsAgree' /\ RevenueIsIssued'
  BY <1>1, <1>8, QuietKeeps
<1>11. Domains'
  BY <1>1, <1>8, <1>9 DEF IInv, Domains
<1>12. PostedOK'
  BY <1>1, <1>8 DEF IInv, PostedOK
<1>13. SessionsOK'
  <2> SUFFICES ASSUME NEW t \in Sessions PROVE SessionOK(sess[t])'
    BY DEF SessionsOK
  <2>1. CASE t # s
    BY <1>1, <1>8, <1>9, <1>10, <2>1, OtherKeeps
  <2>2. CASE t = s
    <3>1. sess'[t] = b
      BY <1>9, <2>2
    <3>2. EditOK(sess[t])'
      BY <1>1, <1>3, <1>4, <1>6, <1>8, <1>10, <3>1 DEF EditOK, RowOK
    <3>3. Fresh(sess[t])'
      BY <1>1, <1>5, <1>6, <3>1 DEF Fresh
    <3> QED BY <1>6, <3>1, <3>2, <3>3 DEF SessionOK
  <2> QED BY <2>1, <2>2
<1>14. Covered'
  <2>1. \A p \in posted : Settled(p) => Settled(p)'
    BY <1>1, <1>9, SettledKeeps DEF Idle
  <2> QED BY <1>1, <2>1 DEF IInv, Covered
<1>15. PostedIsSound'
  BY <1>1 DEF IInv, PostedIsSound
<1>16. VerdictIsGrounded'
  BY <1>1, VerdictKeeps
<1> QED BY <1>10, <1>11, <1>12, <1>13, <1>14, <1>15, <1>16 DEF IInv

LEMMA StampKeeps ==
    ASSUME IInv, NEW s \in Sessions, NEW d \in Drafts, Stamp(s, d) PROVE IInv'
<1>1. /\ drafts[d] # NoDraft /\ sess[s] = Idle /\ calls' = calls + 1
      /\ Posts(calls', d, Receptor(drafts[d].customer))
      /\ sess' = [sess EXCEPT ![s] = [op |-> "stamp", call |-> calls', draft |-> d,
                                      seen |-> drafts[d]]]
      /\ UNCHANGED <<price, drafts, lines, events, told, raced, cut>>
  BY DEF Stamp, Begins
<1> DEFINE b == [op |-> "stamp", call |-> calls', draft |-> d, seen |-> drafts[d]]
           c == Receptor(drafts[d].customer)
<1>2. d \in Existing /\ RowOK(drafts[d])
  BY <1>1 DEF Existing, IInv, RowsOK
<1>3. /\ posted \subseteq posted' /\ PostedOK' /\ PostedIsSound'
      /\ \E n \in posted' :
           /\ posted' = posted \cup {n}
           /\ n.call = calls' /\ n.draft = d /\ n.receptor = c /\ n.outcome = Pending
           /\ d # None => n.sums = drafts[d].sums
  BY <1>1, <1>2, PostsKeeps
<1>4. PICK n \in posted' : posted' = posted \cup {n} /\ n.call = calls' /\ n.draft = d
                        /\ (d # None => n.sums = drafts[d].sums)
  BY <1>3
<1>5. b.op = "stamp" /\ b.call = calls' /\ b.draft = d /\ b.seen = drafts[d]
  OBVIOUS
<1>6. sess' = [sess EXCEPT ![s] = b]
  BY <1>1
<1> HIDE DEF b
<1>7. calls \in Nat /\ calls' \in Nat /\ calls <= calls' /\ calls' \in 1..calls'
  BY <1>1 DEF IInv, Domains
<1>8. DOMAIN sess' = Sessions /\ \A t \in Sessions : sess'[t] = IF t = s THEN b ELSE sess[t]
  BY <1>6 DEF IInv, Domains
<1>9. Existing' = Existing /\ RowsOK' /\ EventsExist' /\ RowsAgree' /\ RevenueIsIssued'
  BY <1>1, <1>3, <1>7, QuietKeeps
<1>10. Domains'
  BY <1>1, <1>7, <1>8 DEF IInv, Domains
<1>11. SessionsOK'
  <2> SUFFICES ASSUME NEW t \in Sessions PROVE SessionOK(sess[t])'
    BY DEF SessionsOK
  <2>1. CASE t # s
    BY <1>1, <1>3, <1>7, <1>8, <1>9, <2>1, OtherKeeps
  <2>2. CASE t = s
    <3>1. sess'[t] = b
      BY <1>8, <2>2
    <3>2. d # None
      BY BoundAssumption
    <3>3. StampOK(sess[t])'
      BY <1>1, <1>2, <1>4, <1>5, <1>7, <1>9, <3>1, <3>2 DEF StampOK, RowOK
    <3>4. Fresh(sess[t])'
      BY <1>1, <1>5, <3>1 DEF Fresh
    <3> QED BY <1>5, <3>1, <3>3, <3>4 DEF SessionOK
  <2> QED BY <2>1, <2>2
<1>12. Covered'
  <2>1. \A p \in posted : Settled(p) => Settled(p)'
    BY <1>1, <1>8, SettledKeeps DEF Idle
  <2>2. Settled(n)'
    BY <1>4, <1>5, <1>8 DEF Settled
  <2> QED BY <1>4, <2>1, <2>2 DEF IInv, Covered
<1>13. VerdictIsGrounded'
  BY <1>1, <1>3, VerdictKeeps
<1> QED BY <1>3, <1>9, <1>10, <1>11, <1>12, <1>13 DEF IInv

\* Requests that post a CFDI with no draft, or none at all.
LEMMA OtherPostsKeeps ==
    ASSUME IInv, NEW s \in Sessions, sess[s] = Idle, calls' = calls + 1,
           NEW c, Posts(calls', None, c) \/ UNCHANGED posted,
           UNCHANGED <<drafts, lines, events, raced, cut>>,
           DOMAIN told' = Sessions,
           \/ UNCHANGED sess
           \/ /\ Posts(calls', None, c)
              /\ \E req : /\ sess' = [sess EXCEPT ![s] = [op |-> "check", call |-> calls', req |-> req]]
                          /\ req.rfc = c.rfc,
           VerdictIsGrounded'
    PROVE  IInv'
<1>1. calls \in Nat /\ calls' \in Nat /\ calls <= calls' /\ calls' \in 1..calls'
  BY DEF IInv, Domains
<1>2. /\ posted \subseteq posted' /\ PostedOK' /\ PostedIsSound'
      /\ \A p \in posted' \ posted : p.draft = None
      /\ Posts(calls', None, c) =>
            \E n \in posted' : n.call = calls' /\ n.draft = None /\ n.receptor = c
  <2>1. CASE Posts(calls', None, c)
    <3>1. /\ posted \subseteq posted' /\ PostedOK' /\ PostedIsSound'
          /\ \E n \in posted' :
               /\ posted' = posted \cup {n}
               /\ n.call = calls' /\ n.draft = None /\ n.receptor = c /\ n.outcome = Pending
               /\ None # None => n.sums = drafts[None].sums
      BY <2>1, PostsKeeps
    <3> QED BY <3>1
  <2>2. CASE UNCHANGED posted
    <3>1. PostedOK'
      BY <1>1, <2>2 DEF IInv, PostedOK
    <3>2. PostedIsSound'
      BY <2>2 DEF IInv, PostedIsSound
    <3>3. ~Posts(calls', None, c)
      <4>1. \A p \in posted : p.call # calls'
        BY <1>1 DEF IInv, PostedOK
      <4>2. Posts(calls', None, c) => \E n \in posted' : n.call = calls'
        <5> DEFINE n == [call |-> calls', draft |-> None,
                         lines |-> IF None = None THEN {} ELSE lines[None],
                         sums |-> IF None = None THEN Sums({}) ELSE drafts[None].sums,
                         receptor |-> c, to |-> Target(Cfg), outcome |-> Pending]
        <5>1. Posts(calls', None, c) => n \in posted'
          BY DEF Posts
        <5>2. n.call = calls'
          OBVIOUS
        <5> QED BY <5>1, <5>2
      <4> QED BY <2>2, <4>1, <4>2
    <3> QED BY <2>2, <3>1, <3>2, <3>3
  <2> QED BY <2>1, <2>2
<1>3. Existing' = Existing /\ RowsOK' /\ EventsExist' /\ RowsAgree' /\ RevenueIsIssued'
  BY <1>1, <1>2, QuietKeeps
<1>4. Domains'
  BY <1>1 DEF IInv, Domains
<1>5. \A t \in Sessions \ {s} : sess'[t] = sess[t]
  BY DEF IInv, Domains
<1>6. \/ sess'[s] = Idle
      \/ /\ sess'[s].op = "check" /\ sess'[s].call = calls' /\ sess'[s].req.rfc = c.rfc
         /\ Posts(calls', None, c)
  BY DEF IInv, Domains
<1>7. SessionsOK'
  <2> SUFFICES ASSUME NEW t \in Sessions PROVE SessionOK(sess[t])'
    BY DEF SessionsOK
  <2>1. CASE t # s
    BY <1>1, <1>2, <1>3, <1>5, <2>1, OtherKeeps
  <2>2. CASE t = s /\ sess'[s] = Idle
    BY <2>2 DEF SessionOK, Idle
  <2>3. CASE t = s /\ sess'[s].op = "check" /\ sess'[s].call = calls'
                   /\ sess'[s].req.rfc = c.rfc /\ Posts(calls', None, c)
    <3>1. CheckOK(sess[t])'
      BY <1>1, <1>2, <2>3 DEF CheckOK
    <3> QED BY <2>3, <3>1 DEF SessionOK
  <2> QED BY <1>6, <2>1, <2>2, <2>3
<1>8. Covered'
  <2>1. \A p \in posted : Settled(p) => Settled(p)'
    BY <1>5, SettledKeeps DEF Idle
  <2> QED BY <1>2, <2>1 DEF IInv, Covered
<1> QED BY <1>2, <1>3, <1>4, <1>7, <1>8 DEF IInv

\* An answer to a recipient check.
LEMMA TellsKeeps ==
    ASSUME IInv, NEW s \in Sessions, NEW req, NEW active, Tells(s, req, active),
           posted \subseteq posted',
           active = "true" =>
             \E p \in posted : /\ p.draft = None /\ p.receptor.rfc = req.rfc
                              /\ p.outcome # Pending
                              /\ (p.outcome.issued \/ Unclear(Normalize(p.outcome.reply))),
           active = "false" =>
             \E p \in posted : /\ p.draft = None /\ p.receptor.rfc = req.rfc
                              /\ p.outcome # Pending
                              /\ ErrorCode(Normalize(p.outcome.reply)) \in RfcNotFoundCodes
    PROVE  DOMAIN told' = Sessions /\ VerdictIsGrounded'
<1> DEFINE a == [req |-> req, active |-> active, valid |-> Verdict(req, active)]
<1>1. told' = [told EXCEPT ![s] = a]
  BY DEF Tells
<1>2. a.req = req /\ a.active = active /\ a.valid = Verdict(req, active)
  OBVIOUS
<1> HIDE DEF a
<1>3. DOMAIN told' = Sessions /\ \A t \in Sessions : told'[t] = IF t = s THEN a ELSE told[t]
  BY <1>1 DEF IInv, Domains
<1>4. AllValid(FieldsOf(req)) /\ ~Verdict(req, active) => active = "false"
  BY DEF Verdict
<1>5. VerdictIsGrounded'
  <2> SUFFICES ASSUME NEW t \in Sessions, told'[t] # NoAnswer
        PROVE  LET about == {p \in posted' : /\ p.draft = None
                                             /\ p.receptor.rfc = told'[t].req.rfc
                                             /\ p.outcome # Pending}
               IN  /\ told'[t].active = "true" =>
                       \E p \in about : p.outcome.issued \/ Unclear(Normalize(p.outcome.reply))
                   /\ AllValid(FieldsOf(told'[t].req)) /\ ~told'[t].valid =>
                       \E p \in about : ErrorCode(Normalize(p.outcome.reply)) \in RfcNotFoundCodes
    BY DEF VerdictIsGrounded
  <2>1. CASE t = s
    BY <1>2, <1>3, <1>4, <2>1
  <2>2. CASE t # s
    BY <1>3, <2>2 DEF IInv, VerdictIsGrounded
  <2> QED BY <2>1, <2>2
<1> QED BY <1>3, <1>5

LEMMA CheckRecipientKeeps ==
    ASSUME IInv, NEW s \in Sessions, NEW req \in Requests, CheckRecipient(s, req) PROVE IInv'
<1> DEFINE c == Probed(req)
<1>1. /\ sess[s] = Idle /\ calls' = calls + 1
      /\ UNCHANGED <<price, drafts, lines, events, raced, cut>>
  BY DEF CheckRecipient, Begins
<1>2. c.rfc = req.rfc
  BY DEF Probed
<1>3. CASE (Tells(s, req, Absent) \/ Tells(s, req, Unknown)) /\ UNCHANGED <<posted, sess>>
  <2>1. Absent \notin {"true", "false"} /\ Unknown \notin {"true", "false"}
    BY DEF Absent, Unknown
  <2>2. DOMAIN told' = Sessions /\ VerdictIsGrounded'
    BY <1>3, <2>1, TellsKeeps
  <2> HIDE DEF c
  <2> QED BY <1>1, <1>3, <2>2, OtherPostsKeeps
<1>4. CASE /\ Posts(calls', None, c) /\ UNCHANGED told
           /\ sess' = [sess EXCEPT ![s] = [op |-> "check", call |-> calls', req |-> req]]
  <2> HIDE DEF c
  <2>1. posted \subseteq posted'
    BY <1>4 DEF Posts
  <2>2. DOMAIN told' = Sessions /\ VerdictIsGrounded'
    BY <1>4, <2>1, VerdictKeeps DEF IInv, Domains
  <2> QED BY <1>1, <1>2, <1>4, <2>2, OtherPostsKeeps
<1> QED BY <1>3, <1>4 DEF CheckRecipient

LEMMA ProxyCfdiKeeps == ASSUME IInv, NEW s \in Sessions, ProxyCfdi(s) PROVE IInv'
<1>1. /\ sess[s] = Idle /\ calls' = calls + 1 /\ Posts(calls', None, NoReceptor)
      /\ UNCHANGED <<price, drafts, lines, events, sess, told, raced, cut>>
  BY DEF ProxyCfdi, Begins
<1>2. posted \subseteq posted'
  BY <1>1 DEF Posts
<1>3. DOMAIN told' = Sessions /\ VerdictIsGrounded'
  BY <1>1, <1>2, VerdictKeeps DEF IInv, Domains
<1> QED BY <1>1, <1>3, OtherPostsKeeps

\* A session that ends without having touched the tables.
LEMMA EndsKeeps ==
    ASSUME IInv, NEW s \in Sessions, sess' = [sess EXCEPT ![s] = Idle],
           UNCHANGED <<drafts, lines, events, posted, calls, raced>>, cut \subseteq cut',
           sess[s].op = "stamp" => sess[s].call \in cut',
           DOMAIN told' = Sessions, VerdictIsGrounded'
    PROVE  IInv'
<1>1. calls \in Nat /\ calls' \in Nat /\ calls <= calls'
  BY DEF IInv, Domains
<1>2. DOMAIN sess' = Sessions /\ \A t \in Sessions : sess'[t] = IF t = s THEN Idle ELSE sess[t]
  BY DEF IInv, Domains
<1>3. Existing' = Existing /\ RowsOK' /\ EventsExist' /\ RowsAgree' /\ RevenueIsIssued'
  BY <1>1, QuietKeeps
<1>4. Domains'
  BY <1>2 DEF IInv, Domains
<1>5. PostedOK' /\ PostedIsSound'
  BY DEF IInv, PostedOK, PostedIsSound
<1>6. SessionsOK'
  <2> SUFFICES ASSUME NEW t \in Sessions PROVE SessionOK(sess[t])'
    BY DEF SessionsOK
  <2>1. CASE t # s
    BY <1>1, <1>2, <1>3, <2>1, OtherKeeps
  <2>2. CASE t = s
    BY <1>2, <2>2 DEF SessionOK, Idle
  <2> QED BY <2>1, <2>2
<1>7. Covered'
  <2>1. \A p \in posted : Settled(p) => Settled(p)'
    BY <1>2, SettledKeeps
  <2> QED BY <2>1 DEF IInv, Covered
<1> QED BY <1>3, <1>4, <1>5, <1>6, <1>7 DEF IInv

LEMMA CheckAnsweredKeeps == ASSUME IInv, NEW s \in Sessions, CheckAnswered(s) PROVE IInv'
<1>1. /\ sess[s].op = "check" /\ sess' = [sess EXCEPT ![s] = Idle]
      /\ UNCHANGED <<price, drafts, lines, events, posted, calls, raced, cut>>
  BY DEF CheckAnswered
<1>2. PICK p \in posted : /\ p.call = sess[s].call /\ p.outcome # Pending
                          /\ Tells(s, sess[s].req, RfcActive(Normalize(p.outcome.reply)))
  BY DEF CheckAnswered, Answer
<1>3. p.draft = None /\ p.receptor.rfc = sess[s].req.rfc
  <2>1. CheckOK(sess[s])
    BY <1>1 DEF IInv, SessionsOK, SessionOK
  <2>2. \A q \in posted : p.call = q.call => p = q
    BY DEF IInv, PostedOK
  <2> QED BY <1>2, <2>1, <2>2 DEF CheckOK
<1>4. p.outcome \in Replies
  BY <1>2 DEF IInv, PostedOK
<1> DEFINE active == RfcActive(Normalize(p.outcome.reply))
<1>5. active = "true" => p.outcome.issued \/ Unclear(Normalize(p.outcome.reply))
  BY <1>4, SuccessIsIssued
<1>6. active = "false" => ErrorCode(Normalize(p.outcome.reply)) \in RfcNotFoundCodes
  BY DEF RfcActive, Unknown
<1>7. DOMAIN told' = Sessions /\ VerdictIsGrounded'
  BY <1>1, <1>2, <1>3, <1>5, <1>6, TellsKeeps
<1> QED BY <1>1, <1>7, EndsKeeps

LEMMA GiveUpKeeps == ASSUME IInv, NEW s \in Sessions, GiveUp(s) PROVE IInv'
<1>1. /\ sess' = [sess EXCEPT ![s] = Idle] /\ cut' = cut \cup {sess[s].call}
      /\ UNCHANGED <<price, drafts, lines, events, posted, calls, raced>>
  BY DEF GiveUp
<1>2. Tells(s, sess[s].req, Unknown) \/ UNCHANGED told
  BY DEF GiveUp
<1>3. Unknown \notin {"true", "false"}
  BY DEF Unknown
<1>4. DOMAIN told' = Sessions /\ VerdictIsGrounded'
  <2>1. CASE Tells(s, sess[s].req, Unknown)
    BY <1>1, <1>3, <2>1, TellsKeeps
  <2>2. CASE UNCHANGED told
    BY <1>1, <2>2, VerdictKeeps DEF IInv, Domains
  <2> QED BY <1>2, <2>1, <2>2
<1> QED BY <1>1, <1>4, EndsKeeps

\* A session commits to its draft.  If nobody else has written to it since it was
\* read, the row and its lines become what the session has computed.
LEMMA CommitsKeep ==
    ASSUME IInv, NEW s \in Sessions, sess[s].op \in {"edit", "stamp"},
           NEW d, d = sess[s].draft, NEW new, Commits(s, d, new), RowOK(new),
           sess[s].seen.stampedAt => new.stampedAt,
           DOMAIN lines' = Drafts, \A e \in Drafts \ {d} : lines'[e] = lines[e],
           ~raced[d] => Agrees(new, lines'[d]),
           UNCHANGED <<posted, calls, told>>
    PROVE  /\ Existing' = Existing /\ d \in Existing
           /\ Domains' /\ RowsOK' /\ RowsAgree' /\ SessionsOK'
           /\ \A e \in Existing \ {d} : drafts'[e] = drafts[e]
           /\ drafts'[d].stampedAt <=> drafts[d].stampedAt \/ new.stampedAt
           /\ sess'[s] = Idle /\ \A t \in Sessions \ {s} : sess'[t] = sess[t]
<1> DEFINE seen == sess[s].seen
           row == Stored(new, seen, drafts[d])
<1>1. /\ d \in Existing /\ RowOK(seen)
      /\ ~raced[d] => seen = drafts[d]
      /\ seen.stampedAt => drafts[d].stampedAt
  BY DEF IInv, SessionsOK, SessionOK, StampOK, EditOK, Fresh
<1>2. d \in Drafts /\ RowOK(drafts[d]) /\ Existing \subseteq Drafts
  BY <1>1 DEF Existing, IInv, RowsOK
<1>3. RowOK(row) /\ row # NoDraft
  BY <1>1, <1>2, StoredOK
<1>4. row.stampedAt <=> drafts[d].stampedAt \/ new.stampedAt
  BY <1>1, <1>2, StoredStamped
<1>5. ~raced[d] => Agrees(row, lines'[d])
  <2> SUFFICES ASSUME ~raced[d] PROVE Agrees(row, lines'[d])
    OBVIOUS
  <2>1. row = Stored(new, seen, seen)
    BY <1>1
  <2>2. /\ row.customer = new.customer /\ row.status = new.status
        /\ row.stampStatus = new.stampStatus /\ row.stampedAt = new.stampedAt
        /\ row.sums = new.sums
    BY <1>1, <2>1, StoredFresh
  <2> HIDE DEF row
  <2> QED BY <2>2 DEF Agrees
<1>6. /\ drafts' = [drafts EXCEPT ![d] = row]
      /\ raced' = [raced EXCEPT ![d] = raced[d] \/ HeldByOther(s, d)]
      /\ sess' = [sess EXCEPT ![s] = Idle]
  BY DEF Commits
<1> HIDE DEF row
<1>7. /\ DOMAIN drafts' = Drafts /\ drafts'[d] = row
      /\ \A e \in Drafts \ {d} : drafts'[e] = drafts[e]
  BY <1>2, <1>6 DEF IInv, Domains
<1>8. /\ raced' \in [Drafts -> BOOLEAN]
      /\ raced'[d] <=> raced[d] \/ HeldByOther(s, d)
      /\ \A e \in Drafts \ {d} : raced'[e] = raced[e]
  BY <1>2, <1>6 DEF IInv, Domains
<1>9. /\ DOMAIN sess' = Sessions /\ sess'[s] = Idle
      /\ \A t \in Sessions \ {s} : sess'[t] = sess[t]
  BY <1>6 DEF IInv, Domains
<1>10. Existing' = Existing
  BY <1>1, <1>3, <1>7 DEF Existing
<1>11. Domains'
  BY <1>7, <1>8, <1>9 DEF IInv, Domains
<1>12. RowsOK'
  <2>1. \A e \in Existing : RowOK(drafts'[e])
    BY <1>2, <1>3, <1>7 DEF IInv, RowsOK
  <2> QED BY <1>10, <2>1 DEF RowsOK, RowOK
<1>13. RowsAgree'
  <2> SUFFICES ASSUME NEW e \in Existing, ~raced'[e] PROVE Agrees(drafts'[e], lines'[e])
    BY <1>10 DEF RowsAgree
  <2>1. CASE e = d
    BY <1>5, <1>7, <1>8, <2>1
  <2>2. CASE e # d
    BY <1>2, <1>7, <1>8, <2>2 DEF IInv, RowsAgree
  <2> QED BY <2>1, <2>2
<1>14. SessionsOK'
  <2> SUFFICES ASSUME NEW t \in Sessions PROVE SessionOK(sess[t])'
    BY DEF SessionsOK
  <2>1. CASE t = s
    BY <1>9, <2>1 DEF SessionOK, Idle
  <2>2. CASE t # s
    <3>1. sess'[t] = sess[t] /\ calls \in Nat
      BY <1>9, <2>2 DEF IInv, Domains
    <3>2. \A e \in Existing : drafts[e].stampedAt => drafts'[e].stampedAt
      BY <1>2, <1>4, <1>7
    <3>3. sess[t].op \in {"edit", "stamp"} => sess[t].draft \in Existing
      BY DEF IInv, SessionsOK, SessionOK, StampOK, EditOK
    <3>4. sess[t].op \in {"edit", "stamp"} /\ sess[t].draft = d => raced'[d]
      BY <1>8, <2>2 DEF HeldByOther, Holds
    <3>5. sess[t].op \in {"edit", "stamp"} /\ ~raced'[sess[t].draft] =>
                /\ ~raced[sess[t].draft]
                /\ drafts'[sess[t].draft] = drafts[sess[t].draft]
                /\ lines'[sess[t].draft] = lines[sess[t].draft]
      BY <1>2, <1>7, <1>8, <3>3, <3>4
    <3> QED BY <1>10, <3>1, <3>2, <3>5, OtherKeeps
  <2> QED BY <2>1, <2>2
<1> QED BY <1>1, <1>2, <1>4, <1>7, <1>9, <1>10, <1>11, <1>12, <1>13, <1>14

LEMMA CommitUpdateKeeps == ASSUME IInv, NEW s \in Sessions, CommitUpdate(s) PROVE IInv'
<1> DEFINE d == sess[s].draft
           b == sess[s]
<1>1. /\ b.op = "edit" /\ Commits(s, d, b.new)
      /\ lines' = [lines EXCEPT ![d] = (lines[d] \ b.gone) \cup b.added]
      /\ UNCHANGED <<price, events, posted, told, calls, cut>>
  BY DEF CommitUpdate
<1>2. EditOK(b) /\ (~raced[d] => Fresh(b))
  BY <1>1 DEF IInv, SessionsOK, SessionOK
<1>3. d \in Drafts /\ RowOK(drafts[d])
  BY <1>2 DEF EditOK, Existing, IInv, RowsOK
<1>4. /\ DOMAIN lines' = Drafts /\ lines'[d] = (lines[d] \ b.gone) \cup b.added
      /\ \A e \in Drafts \ {d} : lines'[e] = lines[e]
  BY <1>1, <1>3 DEF IInv, Domains
<1>5. ~raced[d] => Agrees(b.new, lines'[d])
  <2> SUFFICES ASSUME ~raced[d] PROVE Agrees(b.new, lines'[d])
    OBVIOUS
  <2>1. PICK customer :
          b.new = Recalculated(drafts[d], customer, (lines[d] \ b.gone) \cup b.added)
    BY <1>1, <1>2 DEF Fresh
  <2>2. drafts[d].stampedAt \in BOOLEAN
    BY <1>3 DEF RowOK
  <2>3. Agrees(Recalculated(drafts[d], customer, lines'[d]), lines'[d])
    BY <2>2, RecalculatedOK
  <2> QED BY <1>4, <2>1, <2>3
<1>6. /\ RowOK(b.new) /\ (b.seen.stampedAt => b.new.stampedAt)
      /\ (b.new.stampedAt => b.seen.stampedAt)
  BY <1>2 DEF EditOK
<1>7. /\ Existing' = Existing /\ d \in Existing
      /\ Domains' /\ RowsOK' /\ RowsAgree' /\ SessionsOK'
      /\ \A e \in Existing \ {d} : drafts'[e] = drafts[e]
      /\ drafts'[d].stampedAt <=> drafts[d].stampedAt \/ b.new.stampedAt
      /\ sess'[s] = Idle /\ \A t \in Sessions \ {s} : sess'[t] = sess[t]
  BY <1>1, <1>4, <1>5, <1>6, CommitsKeep
<1>8. b.new.stampedAt => drafts[d].stampedAt
  BY <1>2, <1>6 DEF EditOK
<1>9. PostedOK' /\ PostedIsSound'
  <2>1. PostedOK'
    BY <1>1 DEF IInv, PostedOK
  <2>2. \A e \in Drafts : ~raced'[e] => ~raced[e]
    BY <1>1, <1>3 DEF Commits, IInv, Domains
  <2>3. PostedIsSound'
    BY <1>1, <2>2 DEF IInv, PostedIsSound, PostedOK
  <2> QED BY <2>1, <2>3
<1>10. EventsExist'
  BY <1>1, <1>7 DEF IInv, EventsExist
<1>11. Covered'
  <2>1. \A p \in posted : Settled(p) => Settled(p)'
    BY <1>1, <1>7, SettledKeeps
  <2> QED BY <1>1, <2>1 DEF IInv, Covered
<1>12. RevenueIsIssued'
  <2>1. IssuedOrUnclear' = IssuedOrUnclear
    BY <1>1 DEF IssuedOrUnclear
  <2>2. \A e \in Existing : drafts'[e].stampedAt <=> drafts[e].stampedAt
    BY <1>7, <1>8
  <2> QED BY <1>1, <1>7, <2>1, <2>2 DEF IInv, RevenueIsIssued
<1>13. VerdictIsGrounded'
  BY <1>1, VerdictKeeps
<1> QED BY <1>7, <1>9, <1>10, <1>11, <1>12, <1>13 DEF IInv

LEMMA StampedRowOK ==
    ASSUME NEW seen, NEW call, NEW result, RowOK(seen)
    PROVE  /\ RowOK(StampedRow(seen, call, result))
           /\ StampedRow(seen, call, result).stampedAt <=> seen.stampedAt \/ Stamps(result)
           /\ \A ls : Agrees(seen, ls) => Agrees(StampedRow(seen, call, result), ls)
<1> DEFINE n == StampedRow(seen, call, result)
<1>1. /\ n.customer = seen.customer /\ n.sums = seen.sums
      /\ n.status = IF Stamps(result) THEN "stamped" ELSE seen.status
      /\ n.stampStatus = IF Stamps(result) THEN "stamped" ELSE "rejected"
      /\ n.stampedAt = (seen.stampedAt \/ Stamps(result))
  BY DEF StampedRow
<1> HIDE DEF n
<1>2. RowOK(n)
  BY <1>1 DEF RowOK
<1>3. \A ls : Agrees(seen, ls) => Agrees(n, ls)
  BY <1>1 DEF Agrees
<1> QED BY <1>1, <1>2, <1>3 DEF n

LEMMA StampAnsweredKeeps == ASSUME IInv, NEW s \in Sessions, StampAnswered(s) PROVE IInv'
<1> DEFINE b == sess[s]
           d == sess[s].draft
<1>1. b.op = "stamp" /\ UNCHANGED <<price, lines, posted, told, calls, cut>>
  BY DEF StampAnswered
<1>2. PICK p \in posted :
        /\ p.call = b.call /\ p.outcome # Pending
        /\ Commits(s, d, StampedRow(b.seen, p.call, Normalize(p.outcome.reply)))
        /\ events' = events \cup EventsOf(d, b.seen, p.call, Normalize(p.outcome.reply))
  BY DEF StampAnswered, Answer
<1> DEFINE result == Normalize(p.outcome.reply)
           new == StampedRow(b.seen, p.call, result)
<1>3. StampOK(b) /\ (~raced[d] => Fresh(b))
  BY <1>1 DEF IInv, SessionsOK, SessionOK
<1>4. p.draft = d /\ p.sums = b.seen.sums
  <2>1. \A q \in posted : p.call = q.call => p = q
    BY DEF IInv, PostedOK
  <2> QED BY <1>2, <1>3, <2>1 DEF StampOK
<1>5. d \in Drafts /\ d # None /\ RowOK(b.seen) /\ (b.seen.stampedAt => drafts[d].stampedAt)
  BY <1>3, BoundAssumption DEF StampOK, Existing
<1>6. RowOK(new) /\ (new.stampedAt <=> b.seen.stampedAt \/ Stamps(result))
  BY <1>5, StampedRowOK
<1>7. ~raced[d] => Agrees(new, lines'[d])
  <2> SUFFICES ASSUME ~raced[d] PROVE Agrees(new, lines[d])
    BY <1>1
  <2>1. Agrees(b.seen, lines[d])
    BY <1>3 DEF Fresh, StampOK, IInv, RowsAgree
  <2> QED BY <1>5, <2>1, StampedRowOK
<1>8. DOMAIN lines' = Drafts /\ \A e \in Drafts \ {d} : lines'[e] = lines[e]
  BY <1>1 DEF IInv, Domains
<1>9. Commits(s, d, new)
  BY <1>2
<1> HIDE DEF new
<1>10. /\ Existing' = Existing /\ d \in Existing
       /\ Domains' /\ RowsOK' /\ RowsAgree' /\ SessionsOK'
       /\ \A e \in Existing \ {d} : drafts'[e] = drafts[e]
       /\ drafts'[d].stampedAt <=> drafts[d].stampedAt \/ new.stampedAt
       /\ sess'[s] = Idle /\ \A t \in Sessions \ {s} : sess'[t] = sess[t]
  BY <1>1, <1>6, <1>7, <1>8, <1>9, CommitsKeep
<1> DEFINE ev == [draft |-> d, call |-> p.call, sums |-> b.seen.sums]
<1>11. events' = IF Stamps(result) THEN events \cup {ev} ELSE events
  BY <1>2 DEF EventsOf
<1>12. ev.draft = d /\ ev.call = p.call /\ ev.sums = b.seen.sums
  OBVIOUS
<1> HIDE DEF ev
<1>13. Stamps(result) => p \in IssuedOrUnclear
  <2>1. p.outcome \in Replies
    BY <1>2 DEF IInv, PostedOK
  <2> QED BY <1>2, <2>1, SuccessIsIssued DEF IssuedOrUnclear
<1>14. PostedOK' /\ PostedIsSound'
  <2>1. PostedOK'
    BY <1>1 DEF IInv, PostedOK
  <2>2. \A e \in Drafts : ~raced'[e] => ~raced[e]
    BY <1>5, <1>9 DEF Commits, IInv, Domains
  <2>3. PostedIsSound'
    BY <1>1, <2>2 DEF IInv, PostedIsSound, PostedOK
  <2> QED BY <2>1, <2>3
<1>15. EventsExist'
  <2>1. ev.call \in 1..calls
    BY <1>2, <1>12 DEF IInv, PostedOK
  <2> QED BY <1>1, <1>10, <1>11, <1>12, <2>1 DEF IInv, EventsExist
<1>16. Covered'
  <2> SUFFICES ASSUME NEW q \in posted, q.draft # None,
                      q.outcome = Pending \/ Stamps(Normalize(q.outcome.reply))
               PROVE  Settled(q)'
    BY <1>1 DEF Covered
  <2>1. Settled(q)
    BY DEF IInv, Covered
  <2>2. CASE q.call = b.call
    <3>1. q = p
      BY <1>2, <2>2 DEF IInv, PostedOK
    <3>2. Stamps(result)
      BY <1>2, <3>1
    <3> QED BY <1>11, <1>12, <3>1, <3>2 DEF Settled
  <2>3. CASE q.call # b.call
    <3>1. events \subseteq events'
      BY <1>11
    <3> QED BY <1>1, <1>10, <2>1, <2>3, <3>1 DEF Settled
  <2> QED BY <2>2, <2>3
<1>17. RevenueIsIssued'
  <2>1. IssuedOrUnclear' = IssuedOrUnclear
    BY <1>1 DEF IssuedOrUnclear
  <2>2. \A e \in events' : \E q \in IssuedOrUnclear :
            q.call = e.call /\ q.draft = e.draft /\ q.sums = e.sums
    BY <1>4, <1>11, <1>12, <1>13 DEF IInv, RevenueIsIssued
  <2>3. \A x \in Existing : drafts'[x].stampedAt <=> \E e \in events' : e.draft = x
    <3> SUFFICES ASSUME NEW x \in Existing
                 PROVE  drafts'[x].stampedAt <=> \E e \in events' : e.draft = x
      OBVIOUS
    <3>1. drafts[x].stampedAt <=> \E e \in events : e.draft = x
      BY DEF IInv, RevenueIsIssued
    <3>2. CASE x = d
      <4>1. drafts'[d].stampedAt <=> drafts[d].stampedAt \/ Stamps(result)
        BY <1>5, <1>6, <1>10
      <4> QED BY <1>11, <1>12, <3>1, <3>2, <4>1
    <3>3. CASE x # d
      BY <1>10, <1>11, <1>12, <3>1, <3>3
    <3> QED BY <3>2, <3>3
  <2> QED BY <1>10, <2>1, <2>2, <2>3 DEF RevenueIsIssued
<1>18. VerdictIsGrounded'
  BY <1>1, VerdictKeeps
<1> QED BY <1>10, <1>14, <1>15, <1>16, <1>17, <1>18 DEF IInv

LEMMA NextIInv == IInv /\ [Next]_vars => IInv'
<1> SUFFICES ASSUME IInv, [Next]_vars PROVE IInv'
  OBVIOUS
<1>1. CASE UNCHANGED vars
  BY <1>1, PriceKeeps DEF vars
<1>2. ASSUME NEW p \in Products, CreateProduct(p) \/ UpdateProduct(p) PROVE IInv'
  BY <1>2, PriceKeeps DEF CreateProduct, UpdateProduct
<1>3. ASSUME NEW s \in Sessions, NEW d \in Drafts, Create(s, d) \/ Update(s, d) \/ Stamp(s, d)
      PROVE  IInv'
  BY <1>3, CreateKeeps, UpdateKeeps, StampKeeps
<1>4. ASSUME NEW s \in Sessions, NEW req \in Requests, CheckRecipient(s, req) PROVE IInv'
  BY <1>4, CheckRecipientKeeps
<1>5. ASSUME NEW s \in Sessions, ProxyCfdi(s) \/ ProxyDemo(s) PROVE IInv'
  BY <1>5, ProxyCfdiKeeps DEF ProxyDemo
<1>6. ASSUME NEW s \in Sessions,
             CommitUpdate(s) \/ StampAnswered(s) \/ CheckAnswered(s) \/ GiveUp(s)
      PROVE  IInv'
  BY <1>6, CommitUpdateKeeps, StampAnsweredKeeps, CheckAnsweredKeeps, GiveUpKeeps
<1>7. ASSUME NEW p \in posted, NEW r \in Replies, PacActs(p, r) PROVE IInv'
  BY <1>7, PacActsKeeps
<1> QED BY <1>1, <1>2, <1>3, <1>4, <1>5, <1>6, <1>7 DEF Next

LEMMA Invariance == Spec => []IInv
BY InitIInv, NextIInv, PTL DEF Spec

---------------------------------------------------------------------------
(* Sums over finite sets. *)

LEMMA LeastNatural ==
    ASSUME NEW T, T \subseteq Nat, T # {}
    PROVE  \E n \in T : \A m \in T : n <= m
<1> DEFINE R == OpToRel(<, Nat)
<1>1. IsWellFoundedOn(R, Nat)
  BY NatLessThanWellFounded
<1>2. \A x \in Nat, y \in Nat : <<y, x>> \in R <=> y < x
  BY DEF OpToRel
<1> HIDE DEF R
<1>3. PICK x \in T : \A y \in T : ~(<<y, x>> \in R)
  BY <1>1, WFMin, Zenon
<1>4. ASSUME NEW y \in T PROVE x <= y
  <2>1. ~(<<y, x>> \in R)
    BY <1>3
  <2>2. x \in Nat /\ y \in Nat
    OBVIOUS
  <2>3. ~(y < x)
    BY <1>2, <2>1, <2>2, Zenon
  <2> QED BY <2>2, <2>3
<1> QED BY <1>4

FirstOf(s) == CHOOSE x \in s : TRUE

\* f adds up w over the subsets of S as the folds of the community modules do.
Adds(f, S, w) ==
    f = [s \in SUBSET S |-> IF s = {} THEN 0 ELSE w[FirstOf(s)] + f[s \ {FirstOf(s)}]]

\* The same for the subsets of at most n elements.
AddsUpTo(f, S, w, n) ==
    \A s \in SUBSET S : Cardinality(s) <= n =>
        f[s] = IF s = {} THEN 0 ELSE w[FirstOf(s)] + f[s \ {FirstOf(s)}]

LEMMA FirstOfIn == ASSUME NEW s, s # {} PROVE FirstOf(s) \in s
BY DEF FirstOf

LEMMA OneLess ==
    ASSUME NEW S, IsFiniteSet(S), NEW s \in SUBSET S, NEW x \in s
    PROVE  /\ s \ {x} \in SUBSET S /\ IsFiniteSet(s)
           /\ Cardinality(s) \in Nat /\ Cardinality(s \ {x}) \in Nat
           /\ Cardinality(s \ {x}) + 1 = Cardinality(s)
<1>1. IsFiniteSet(s) /\ Cardinality(s) \in Nat
  BY FS_Subset, FS_CardinalityType
<1>2. IsFiniteSet(s \ {x}) /\ Cardinality(s \ {x}) = Cardinality(s) - 1
  BY <1>1, FS_RemoveElement
<1>3. Cardinality(s \ {x}) \in Nat
  BY <1>2, FS_CardinalityType
<1> QED BY <1>1, <1>2, <1>3

LEMMA AddsExists ==
    ASSUME NEW S, IsFiniteSet(S), NEW w \in [S -> Nat]
    PROVE  \E f \in [SUBSET S -> Nat] : Adds(f, S, w)
<1> DEFINE Fails == {n \in Nat : ~ \E f \in [SUBSET S -> Nat] : AddsUpTo(f, S, w, n)}
<1>1. Fails = {}
  <2> SUFFICES ASSUME Fails # {} PROVE FALSE
    OBVIOUS
  <2>1. PICK n \in Fails : \A m \in Fails : n <= m
    <3>1. Fails \subseteq Nat
      OBVIOUS
    <3> QED BY <3>1, LeastNatural
  <2>2. n \in Nat /\ ~ \E f \in [SUBSET S -> Nat] : AddsUpTo(f, S, w, n)
    OBVIOUS
  <2>3. n # 0
    <3> SUFFICES ASSUME n = 0 PROVE FALSE
      OBVIOUS
    <3> DEFINE z == [s \in SUBSET S |-> 0]
    <3>1. z \in [SUBSET S -> Nat]
      OBVIOUS
    <3>2. \A s \in SUBSET S : Cardinality(s) <= n => s = {}
      <4> SUFFICES ASSUME NEW s \in SUBSET S, Cardinality(s) <= n PROVE s = {}
        OBVIOUS
      <4>1. IsFiniteSet(s) /\ Cardinality(s) \in Nat
        BY FS_Subset, FS_CardinalityType
      <4> QED BY <4>1, FS_EmptySet
    <3>3. AddsUpTo(z, S, w, n)
      BY <3>2 DEF AddsUpTo
    <3> QED BY <2>2, <3>1, <3>3
  <2>4. n - 1 \in Nat /\ ~(n <= n - 1)
    BY <2>2, <2>3
  <2>5. PICK f \in [SUBSET S -> Nat] : AddsUpTo(f, S, w, n - 1)
    BY <2>1, <2>4
  <2> DEFINE g == [s \in SUBSET S |-> IF s = {} THEN 0
                                      ELSE IF Cardinality(s) <= n
                                      THEN w[FirstOf(s)] + f[s \ {FirstOf(s)}] ELSE 0]
  <2>6. g \in [SUBSET S -> Nat]
    <3> SUFFICES ASSUME NEW s \in SUBSET S, s # {} PROVE w[FirstOf(s)] + f[s \ {FirstOf(s)}] \in Nat
      OBVIOUS
    <3>1. w[FirstOf(s)] \in Nat /\ f[s \ {FirstOf(s)}] \in Nat
      BY FirstOfIn
    <3> QED BY <3>1
  <2>7. \A s \in SUBSET S : Cardinality(s) <= n - 1 => g[s] = f[s]
    <3> SUFFICES ASSUME NEW s \in SUBSET S, Cardinality(s) <= n - 1 PROVE g[s] = f[s]
      OBVIOUS
    <3>1. Cardinality(s) \in Nat
      BY FS_Subset, FS_CardinalityType
    <3>2. Cardinality(s) <= n
      BY <2>2, <3>1
    <3>3. f[s] = IF s = {} THEN 0 ELSE w[FirstOf(s)] + f[s \ {FirstOf(s)}]
      BY <2>5 DEF AddsUpTo
    <3> QED BY <3>2, <3>3
  <2>8. AddsUpTo(g, S, w, n)
    <3> SUFFICES ASSUME NEW s \in SUBSET S, Cardinality(s) <= n
                 PROVE  g[s] = IF s = {} THEN 0 ELSE w[FirstOf(s)] + g[s \ {FirstOf(s)}]
      BY DEF AddsUpTo
    <3>1. CASE s = {}
      BY <3>1
    <3>2. CASE s # {}
      <4> DEFINE t == s \ {FirstOf(s)}
      <4>1. t \in SUBSET S /\ Cardinality(s) \in Nat /\ Cardinality(t) \in Nat
            /\ Cardinality(t) + 1 = Cardinality(s)
        BY <3>2, FirstOfIn, OneLess
      <4>2. Cardinality(t) <= n - 1
        BY <2>2, <4>1
      <4>3. g[t] = f[t]
        BY <2>7, <4>1, <4>2
      <4> QED BY <3>2, <4>3
    <3> QED BY <3>1, <3>2
  <2> QED BY <2>2, <2>6, <2>8
<1>2. Cardinality(S) \in Nat
  BY FS_CardinalityType
<1>3. PICK f \in [SUBSET S -> Nat] : AddsUpTo(f, S, w, Cardinality(S))
  BY <1>1, <1>2
<1>4. \A s \in SUBSET S : Cardinality(s) <= Cardinality(S)
  BY FS_Subset
<1>5. \A s \in SUBSET S : f[s] = IF s = {} THEN 0 ELSE w[FirstOf(s)] + f[s \ {FirstOf(s)}]
  BY <1>3, <1>4 DEF AddsUpTo
<1>6. Adds(f, S, w)
  BY <1>5 DEF Adds
<1> QED BY <1>6

\* What is added up does not depend on the set it is a part of.
LEMMA AddsAgree ==
    ASSUME NEW S, IsFiniteSet(S), NEW w, NEW f, Adds(f, S, w),
           NEW T, S \subseteq T, NEW v, NEW g, Adds(g, T, v), \A x \in S : w[x] = v[x]
    PROVE  \A s \in SUBSET S : f[s] = g[s]
<1> DEFINE Fails == {n \in Nat : \E s \in SUBSET S : Cardinality(s) = n /\ f[s] # g[s]}
<1>1. Fails = {}
  <2> SUFFICES ASSUME Fails # {} PROVE FALSE
    OBVIOUS
  <2>1. PICK n \in Fails : \A m \in Fails : n <= m
    <3>1. Fails \subseteq Nat
      OBVIOUS
    <3> QED BY <3>1, LeastNatural
  <2>2. PICK s \in SUBSET S : Cardinality(s) = n /\ f[s] # g[s]
    OBVIOUS
  <2>3. /\ f[s] = IF s = {} THEN 0 ELSE w[FirstOf(s)] + f[s \ {FirstOf(s)}]
        /\ g[s] = IF s = {} THEN 0 ELSE v[FirstOf(s)] + g[s \ {FirstOf(s)}]
    <3>1. s \in SUBSET T
      OBVIOUS
    <3> QED BY <3>1 DEF Adds
  <2>4. s # {}
    BY <2>2, <2>3
  <2> DEFINE t == s \ {FirstOf(s)}
  <2>5. t \in SUBSET S /\ Cardinality(t) \in Nat /\ Cardinality(t) + 1 = n
    BY <2>2, <2>4, FirstOfIn, OneLess
  <2>6. f[t] = g[t]
    <3>1. ~(n <= Cardinality(t))
      BY <2>5
    <3>2. Cardinality(t) \notin Fails
      BY <2>1, <3>1
    <3> QED BY <2>5, <3>2
  <2>7. w[FirstOf(s)] = v[FirstOf(s)]
    BY <2>4, FirstOfIn
  <2> QED BY <2>2, <2>3, <2>4, <2>6, <2>7
<1>2. \A s \in SUBSET S : Cardinality(s) \in Nat
  BY FS_Subset, FS_CardinalityType
<1> QED BY <1>1, <1>2

Summing(f, S, w) ==
    IsFiniteSet(S) /\ w \in [S -> Nat] /\ f \in [SUBSET S -> Nat] /\ Adds(f, S, w)

\* What is added up does not depend on the order.
LEMMA AddsAnyOrder ==
    ASSUME NEW S, NEW w, NEW f, Summing(f, S, w), NEW e \in S
    PROVE  f[S] = w[e] + f[S \ {e}]
<1> USE DEF Summing
<1> DEFINE Fails == {n \in Nat : \E s \in SUBSET S : \E x \in s :
                        Cardinality(s) = n /\ f[s] # w[x] + f[s \ {x}]}
<1>1. Fails = {}
  <2> SUFFICES ASSUME Fails # {} PROVE FALSE
    OBVIOUS
  <2>1. PICK n \in Fails : \A m \in Fails : n <= m
    <3>1. Fails \subseteq Nat
      OBVIOUS
    <3> QED BY <3>1, LeastNatural
  <2>2. PICK s \in SUBSET S : \E x \in s : Cardinality(s) = n /\ f[s] # w[x] + f[s \ {x}]
    OBVIOUS
  <2>3. PICK x \in s : Cardinality(s) = n /\ f[s] # w[x] + f[s \ {x}]
    BY <2>2
  <2> DEFINE c == FirstOf(s)
             t == s \ {c}
             u == s \ {x}
  <2>4. c \in s /\ f[s] = w[c] + f[t]
    BY FirstOfIn DEF Adds
  <2>5. c # x
    BY <2>3, <2>4
  <2>6. /\ t \in SUBSET S /\ Cardinality(t) \in Nat /\ Cardinality(t) + 1 = n
        /\ u \in SUBSET S /\ Cardinality(u) \in Nat /\ Cardinality(u) + 1 = n
    BY <2>3, <2>4, OneLess
  <2>7. ~(n <= Cardinality(t)) /\ ~(n <= Cardinality(u))
    BY <2>6
  <2>8. Cardinality(t) \notin Fails /\ Cardinality(u) \notin Fails
    BY <2>1, <2>7
  <2> HIDE DEF t, u, c
  <2>9. f[t] = w[x] + f[t \ {x}]
    <3>1. x \in t
      BY <2>5 DEF t
    <3> QED BY <2>6, <2>8, <3>1
  <2>10. f[u] = w[c] + f[u \ {c}]
    <3>1. c \in u
      BY <2>4, <2>5 DEF u
    <3> QED BY <2>6, <2>8, <3>1
  <2>11. t \ {x} = u \ {c} /\ t \ {x} \in SUBSET S /\ x \in S /\ c \in S
    BY <2>4 DEF t, u
  <2>12. f[t \ {x}] \in Nat /\ w[x] \in Nat /\ w[c] \in Nat
    BY <2>11
  <2> DEFINE rest == f[t \ {x}]
  <2>13. f[s] = w[c] + (w[x] + rest) /\ f[u] = w[c] + rest
    BY <2>4, <2>9, <2>10, <2>11
  <2> HIDE DEF rest
  <2>14. w[c] + (w[x] + rest) = w[x] + (w[c] + rest)
    BY <2>12 DEF rest
  <2> QED BY <2>3, <2>13, <2>14 DEF u
<1>2. \A s \in SUBSET S : Cardinality(s) \in Nat
  BY FS_Subset, FS_CardinalityType
<1>3. Cardinality(S) \in Nat /\ Cardinality(S) \notin Fails
  BY <1>1, <1>2
<1>4. \A x \in S : f[S] = w[x] + f[S \ {x}]
  BY <1>3
<1> QED BY <1>4

\* The sums of finitely many lines of the table are these folds.
LEMMA BaseAdds ==
    ASSUME NEW ls, IsFiniteSet(ls), \A l \in ls : l.base \in Nat
    PROVE  \E f \in [SUBSET ls -> Nat] :
            /\ Adds(f, ls, [l \in ls |-> l.base])
            /\ MapThenSumSet(LAMBDA l : l.base, ls) = f[ls]
<1> DEFINE w == [l \in ls |-> l.base]
           Rec(g) == g = [s \in SUBSET ls |-> IF s = {} THEN 0
                             ELSE (CHOOSE x \in s : TRUE).base + g[s \ {CHOOSE x \in s : TRUE}]]
<1>1. MapThenSumSet(LAMBDA l : l.base, ls) = (CHOOSE g : Rec(g))[ls]
  BY DEF MapThenSumSet, MapThenFoldSet
<1>2. ASSUME NEW g PROVE Rec(g) <=> Adds(g, ls, w)
  <2>1. \A s \in SUBSET ls : s # {} => FirstOf(s) \in ls
    BY FirstOfIn
  <2>2. \A s \in SUBSET ls : s # {} => w[FirstOf(s)] = FirstOf(s).base
    BY <2>1
  <2> QED BY <2>2 DEF Adds, FirstOf
<1>3. w \in [ls -> Nat]
  OBVIOUS
<1> HIDE DEF w
<1>4. PICK f \in [SUBSET ls -> Nat] : Adds(f, ls, w)
  BY <1>3, AddsExists
<1> DEFINE g == CHOOSE g : Rec(g)
<1>5. Rec(g)
  <2>1. Rec(f)
    BY <1>2, <1>4
  <2> HIDE DEF Rec
  <2> QED BY <2>1
<1>6. Adds(g, ls, w)
  <2> HIDE DEF Rec, g
  <2> QED BY <1>2, <1>5
<1>7. MapThenSumSet(LAMBDA l : l.base, ls) = g[ls]
  BY <1>1
<1> HIDE DEF g, Rec
<1>8. g[ls] = f[ls]
  BY <1>4, <1>6, AddsAgree
<1> QED BY <1>4, <1>7, <1>8 DEF w

LEMMA TaxAdds ==
    ASSUME NEW ls, IsFiniteSet(ls), \A l \in ls : Tax(l) \in Nat
    PROVE  \E f \in [SUBSET ls -> Nat] :
            /\ Adds(f, ls, [l \in ls |-> Tax(l)])
            /\ MapThenSumSet(Tax, ls) = f[ls]
<1> DEFINE w == [l \in ls |-> Tax(l)]
           Rec(g) == g = [s \in SUBSET ls |-> IF s = {} THEN 0
                             ELSE Tax(CHOOSE x \in s : TRUE) + g[s \ {CHOOSE x \in s : TRUE}]]
<1>1. MapThenSumSet(Tax, ls) = (CHOOSE g : Rec(g))[ls]
  BY DEF MapThenSumSet, MapThenFoldSet
<1>2. ASSUME NEW g PROVE Rec(g) <=> Adds(g, ls, w)
  <2>1. \A s \in SUBSET ls : s # {} => FirstOf(s) \in ls
    BY FirstOfIn
  <2>2. \A s \in SUBSET ls : s # {} => w[FirstOf(s)] = Tax(FirstOf(s))
    BY <2>1
  <2> QED BY <2>2 DEF Adds, FirstOf
<1>3. w \in [ls -> Nat]
  OBVIOUS
<1> HIDE DEF w
<1>4. PICK f \in [SUBSET ls -> Nat] : Adds(f, ls, w)
  BY <1>3, AddsExists
<1> DEFINE g == CHOOSE g : Rec(g)
<1>5. Rec(g)
  <2>1. Rec(f)
    BY <1>2, <1>4
  <2> HIDE DEF Rec
  <2> QED BY <2>1
<1>6. Adds(g, ls, w)
  <2> HIDE DEF Rec, g
  <2> QED BY <1>2, <1>5
<1>7. MapThenSumSet(Tax, ls) = g[ls]
  BY <1>1
<1> HIDE DEF g, Rec
<1>8. g[ls] = f[ls]
  BY <1>4, <1>6, AddsAgree
<1> QED BY <1>4, <1>7, <1>8 DEF w

\* Lines whose amounts are numbers, as all of the table are.
Amounting(ls) == IsFiniteSet(ls) /\ \A l \in ls : l.base \in Nat /\ Tax(l) \in Nat

LEMMA SumsFolds ==
    ASSUME NEW ls, Amounting(ls)
    PROVE  \E f, g :
            /\ Summing(f, ls, [l \in ls |-> l.base]) /\ Summing(g, ls, [l \in ls |-> Tax(l)])
            /\ Sums(ls) = [subtotal |-> f[ls], taxes |-> g[ls], total |-> f[ls] + g[ls]]
<1>1. PICK f \in [SUBSET ls -> Nat] :
        /\ Adds(f, ls, [l \in ls |-> l.base])
        /\ MapThenSumSet(LAMBDA l : l.base, ls) = f[ls]
  BY BaseAdds DEF Amounting
<1>2. PICK g \in [SUBSET ls -> Nat] :
        Adds(g, ls, [l \in ls |-> Tax(l)]) /\ MapThenSumSet(Tax, ls) = g[ls]
  BY TaxAdds DEF Amounting
<1>3. Sums(ls) = [subtotal |-> f[ls], taxes |-> g[ls], total |-> f[ls] + g[ls]]
  BY <1>1, <1>2 DEF Sums
<1>4. [l \in ls |-> l.base] \in [ls -> Nat] /\ [l \in ls |-> Tax(l)] \in [ls -> Nat]
  BY DEF Amounting
<1>5. Summing(f, ls, [l \in ls |-> l.base]) /\ Summing(g, ls, [l \in ls |-> Tax(l)])
  BY <1>1, <1>2, <1>4 DEF Summing, Amounting
<1> QED BY <1>3, <1>5

LEMMA SumsType == ASSUME NEW ls, Amounting(ls) PROVE Sums(ls) \in Amounts
<1>1. PICK f, g :
        /\ Summing(f, ls, [l \in ls |-> l.base]) /\ Summing(g, ls, [l \in ls |-> Tax(l)])
        /\ Sums(ls) = [subtotal |-> f[ls], taxes |-> g[ls], total |-> f[ls] + g[ls]]
  BY SumsFolds
<1>2. f[ls] \in Nat /\ g[ls] \in Nat
  BY <1>1 DEF Summing
<1>3. f[ls] + g[ls] \in Nat
  BY <1>2
<1> QED BY <1>1, <1>2, <1>3 DEF Amounts

LEMMA NoLinesSum == Sums({}) = [subtotal |-> 0, taxes |-> 0, total |-> 0]
<1>1. Amounting({})
  BY FS_EmptySet DEF Amounting
<1>2. PICK f, g :
        /\ Summing(f, {}, [l \in {} |-> l.base]) /\ Summing(g, {}, [l \in {} |-> Tax(l)])
        /\ Sums({}) = [subtotal |-> f[{}], taxes |-> g[{}], total |-> f[{}] + g[{}]]
  BY <1>1, SumsFolds
<1>3. f[{}] = 0 /\ g[{}] = 0
  BY <1>2 DEF Adds, Summing
<1> QED BY <1>2, <1>3

(***************************************************************************)
(* _recalculate_draft adds the lines up one by one, in the order the       *)
(* database lists them: for any lines and any order, taking a line away    *)
(* takes away its base and its tax rounded to the cent, and nothing else.  *)
(***************************************************************************)
THEOREM SumsAddUp ==
    ASSUME NEW ls, Amounting(ls), NEW l \in ls
    PROVE  /\ Sums(ls).subtotal = l.base + Sums(ls \ {l}).subtotal
           /\ Sums(ls).taxes = Tax(l) + Sums(ls \ {l}).taxes
           /\ Sums(ls).total = Sums(ls).subtotal + Sums(ls).taxes
<1> DEFINE rest == ls \ {l}
           w == [x \in ls |-> x.base]
           v == [x \in ls |-> Tax(x)]
           w2 == [x \in rest |-> x.base]
           v2 == [x \in rest |-> Tax(x)]
<1>1. PICK f, g :
          /\ Summing(f, ls, w) /\ Summing(g, ls, v)
          /\ Sums(ls) = [subtotal |-> f[ls], taxes |-> g[ls], total |-> f[ls] + g[ls]]
  BY SumsFolds
<1>2. Amounting(rest)
  BY FS_RemoveElement DEF Amounting
<1>3. PICK h, k :
          /\ Summing(h, rest, w2) /\ Summing(k, rest, v2)
          /\ Sums(rest) = [subtotal |-> h[rest], taxes |-> k[rest], total |-> h[rest] + k[rest]]
  <2> HIDE DEF rest
  <2> QED BY <1>2, SumsFolds
<1>4. (\A x \in rest : w2[x] = w[x] /\ v2[x] = v[x]) /\ w[l] = l.base /\ v[l] = Tax(l)
  OBVIOUS
<1> HIDE DEF w, v, w2, v2
<1>5. f[ls] = w[l] + f[ls \ {l}]
  BY <1>1, AddsAnyOrder, SMT
<1>6. g[ls] = v[l] + g[ls \ {l}]
  BY <1>1, AddsAnyOrder, SMT
<1>7. rest \subseteq ls /\ rest \in SUBSET rest
  OBVIOUS
<1>8. /\ IsFiniteSet(rest) /\ Adds(f, ls, w) /\ Adds(g, ls, v)
      /\ Adds(h, rest, w2) /\ Adds(k, rest, v2)
  BY <1>1, <1>3 DEF Summing
<1> HIDE DEF rest
<1>9. h[rest] = f[rest] /\ k[rest] = g[rest]
  BY <1>4, <1>7, <1>8, AddsAgree
<1>10. /\ Sums(ls).subtotal = f[ls] /\ Sums(ls).taxes = g[ls] /\ Sums(ls).total = f[ls] + g[ls]
       /\ Sums(rest).subtotal = h[rest] /\ Sums(rest).taxes = k[rest]
  BY <1>1, <1>3
<1>11. Sums(ls).subtotal = l.base + Sums(rest).subtotal
  BY <1>4, <1>5, <1>9, <1>10 DEF rest
<1>12. Sums(ls).taxes = Tax(l) + Sums(rest).taxes
  BY <1>4, <1>6, <1>9, <1>10 DEF rest
<1> QED BY <1>10, <1>11, <1>12 DEF rest

---------------------------------------------------------------------------
(* Types.                                                                  *)

\* The lines of a draft are finitely many, also those of an update under way.
LinesFinite ==
    /\ \A d \in Drafts : IsFiniteSet(lines[d])
    /\ \A s \in Sessions : sess[s].op = "edit" => IsFiniteSet(sess[s].added)

TInv == TypeOK /\ LinesFinite

LEMMA TaxType == ASSUME NEW l, l.base \in Nat, l.rate \in Nat PROVE Tax(l) \in Nat
<1> DEFINE a == l.base
           b == l.rate
           m == a * b
<1>1. a \in Nat /\ b \in Nat
  OBVIOUS
<1> HIDE DEF a, b
<1>2. m \in Nat
  BY <1>1
<1>3. 2 * a * b = 2 * m
  BY <1>1
<1> HIDE DEF m
<1>4. (2 * m + 100) \div 200 \in Nat
  BY <1>2
<1>5. (2 * a * b + 100) \div 200 \in Nat
  BY <1>3, <1>4
<1> QED BY <1>5 DEF Tax, a, b

LEMMA LinesAmount ==
    ASSUME NEW ls, ls \subseteq LineRow, IsFiniteSet(ls) PROVE Amounting(ls)
<1> SUFFICES ASSUME NEW l \in ls PROVE l.base \in Nat /\ Tax(l) \in Nat
  BY DEF Amounting
<1>1. l.base \in Nat /\ l.rate \in Nat
  BY DEF LineRow
<1> QED BY <1>1, TaxType

LEMMA LineType ==
    ASSUME price \in [Products -> Prices \cup {NoPrice}], NEW i \in Items, NEW call \in Calls,
           Resolvable({i})
    PROVE  Line(i, call) \in LineRow
<1>1. /\ i.product \in Products \cup {Free} /\ i.price \in Nat \cup {NoPrice}
      /\ i.quantity \in Nat /\ i.rate \in Nat /\ i.taxed \in BOOLEAN
  BY ItemsAssumption
<1>2. UnitPrice(i) \in Nat
  <2>1. i.product # Free => price[i.product] \in Nat
    BY <1>1, ItemsAssumption DEF Resolvable
  <2> QED BY <1>1, <2>1 DEF UnitPrice
<1>3. i.quantity * UnitPrice(i) \in Nat
  BY <1>1, <1>2
<1> QED BY <1>1, <1>3 DEF Line, LineRow

\* The lines a request adds.
LEMMA AddedLines ==
    ASSUME price \in [Products -> Prices \cup {NoPrice}], NEW items \in SUBSET Items,
           NEW call \in Calls, Resolvable(items)
    PROVE  {Line(i, call) : i \in items} \subseteq LineRow
           /\ IsFiniteSet({Line(i, call) : i \in items})
<1> DEFINE T == {Line(i, call) : i \in items}
           f == [i \in items |-> Line(i, call)]
<1>1. T \subseteq LineRow
  BY LineType DEF Resolvable
<1>2. f \in Surjection(items, T)
  BY DEF Surjection
<1>3. IsFiniteSet(items)
  BY ItemsAssumption, FS_Subset
<1> HIDE DEF T, f
<1>4. IsFiniteSet(T)
  BY <1>2, <1>3, FS_Surjection
<1> QED BY <1>1, <1>4 DEF T

LEMMA RecalculatedType ==
    ASSUME NEW row \in Row, NEW customer \in Customers \cup {NoCustomer},
           NEW ls, ls \subseteq LineRow, IsFiniteSet(ls)
    PROVE  Recalculated(row, customer, ls) \in Row
<1>1. Sums(ls) \in Amounts
  BY LinesAmount, SumsType
<1>2. StatusOf(row, customer, ls) \in {"draft", "ready_to_stamp", "stamped"}
  <2>1. row.stampedAt \in BOOLEAN
    BY DEF Row
  <2> QED BY <2>1 DEF StatusOf
<1> DEFINE st == CASE row.stampedAt -> "stamped"
                   [] ~row.stampedAt /\ row.stampStatus = "stamped" -> "not_sent"
                   [] OTHER -> row.stampStatus
<1>3. st \in {"not_sent", "stamped", "rejected"}
  <2>1. row.stampedAt \in BOOLEAN /\ row.stampStatus \in {"not_sent", "stamped", "rejected"}
    BY DEF Row
  <2> QED BY <2>1
<1>4. row.stampedAt \in BOOLEAN /\ row.xml \in [call : 0..MaxCalls, sealed : BOOLEAN]
  BY DEF Row
<1>5. Recalculated(row, customer, ls) =
        [customer |-> customer, status |-> StatusOf(row, customer, ls), stampStatus |-> st,
         stampedAt |-> row.stampedAt, xml |-> row.xml, sums |-> Sums(ls)]
  BY DEF Recalculated
<1> HIDE DEF st
<1> QED BY <1>1, <1>2, <1>3, <1>4, <1>5 DEF Row

LEMMA NewDraftType == NewDraft \in Row
<1>1. Sums({}) \in Amounts
  BY NoLinesSum DEF Amounts
<1>2. NoXml \in [call : 0..MaxCalls, sealed : BOOLEAN]
  BY BoundAssumption DEF NoXml
<1> QED BY <1>1, <1>2 DEF NewDraft, Row

LEMMA StoredType ==
    ASSUME NEW new \in Row, NEW seen \in Row, NEW row \in Row PROVE Stored(new, seen, row) \in Row
<1>1. \A a, b, c : Column(a, b, c) \in {a, c}
  BY DEF Column
<1>2. /\ Column(new.customer, seen.customer, row.customer) \in Customers \cup {NoCustomer}
      /\ Column(new.status, seen.status, row.status) \in {"draft", "ready_to_stamp", "stamped"}
      /\ Column(new.stampStatus, seen.stampStatus, row.stampStatus)
            \in {"not_sent", "stamped", "rejected"}
      /\ Column(new.stampedAt, seen.stampedAt, row.stampedAt) \in BOOLEAN
      /\ Column(new.xml, seen.xml, row.xml) \in [call : 0..MaxCalls, sealed : BOOLEAN]
  BY DEF Column, Row
<1>3. new.sums \in Amounts /\ row.sums \in Amounts
  BY DEF Row
<1>4. /\ Column(new.sums.subtotal, seen.sums.subtotal, row.sums.subtotal) \in Nat
      /\ Column(new.sums.taxes, seen.sums.taxes, row.sums.taxes) \in Nat
      /\ Column(new.sums.total, seen.sums.total, row.sums.total) \in Nat
  BY <1>3 DEF Column, Amounts
<1>5. Stored(new, seen, row).sums \in Amounts
  BY <1>4 DEF Stored, Amounts
<1>6. /\ Stored(new, seen, row) =
           [customer    |-> Column(new.customer, seen.customer, row.customer),
            status      |-> Column(new.status, seen.status, row.status),
            stampStatus |-> Column(new.stampStatus, seen.stampStatus, row.stampStatus),
            stampedAt   |-> Column(new.stampedAt, seen.stampedAt, row.stampedAt),
            xml         |-> Column(new.xml, seen.xml, row.xml),
            sums        |-> Stored(new, seen, row).sums]
  BY DEF Stored
<1> QED BY <1>2, <1>5, <1>6 DEF Row

\* A request in one session changes no finite set of another.
LEMMA SessionTypes ==
    ASSUME TInv, NEW s \in Sessions, NEW b \in Session, sess' = [sess EXCEPT ![s] = b],
           b.op = "edit" => IsFiniteSet(b.added), UNCHANGED lines
    PROVE  sess' \in [Sessions -> Session] /\ LinesFinite'
<1>1. sess' \in [Sessions -> Session]
  BY DEF TInv, TypeOK
<1>2. \A t \in Sessions : sess'[t] = IF t = s THEN b ELSE sess[t]
  BY DEF TInv, TypeOK
<1>3. LinesFinite'
  BY <1>2 DEF TInv, LinesFinite
<1> QED BY <1>1, <1>3

LEMMA IdleSession == Idle \in Session /\ Idle.op # "edit"
BY DEF Session, Idle

LEMMA BeginsTypes ==
    ASSUME TypeOK, NEW s, Begins(s) PROVE calls' \in 0..MaxCalls /\ calls' \in Calls
BY BoundAssumption DEF TypeOK, Begins, Calls

LEMMA PriceTypes ==
    ASSUME TInv, NEW p \in Products, CreateProduct(p) \/ UpdateProduct(p) PROVE TInv'
<1>1. /\ price' \in {[price EXCEPT ![p] = c] : c \in Prices}
      /\ UNCHANGED <<drafts, lines, events, posted, sess, told, calls, raced, cut>>
  BY DEF CreateProduct, UpdateProduct
<1>2. price' \in [Products -> Prices \cup {NoPrice}]
  BY <1>1 DEF TInv, TypeOK
<1> QED BY <1>1, <1>2 DEF TInv, TypeOK, LinesFinite

LEMMA CreateTypes ==
    ASSUME TInv, NEW s \in Sessions, NEW d \in Drafts, Create(s, d) PROVE TInv'
<1>1. Begins(s) /\ UNCHANGED <<price, events, posted, sess, told, raced, cut>>
  BY DEF Create
<1>2. calls' \in 0..MaxCalls /\ calls' \in Calls
  BY <1>1, BeginsTypes DEF TInv
<1>3. PICK customer \in Customers \cup {NoCustomer}, items \in SUBSET Items :
        /\ Resolvable(items)
        /\ LET ls == {Line(i, calls') : i \in items}
           IN  /\ lines' = [lines EXCEPT ![d] = ls]
               /\ drafts' = [drafts EXCEPT ![d] = Recalculated(NewDraft, customer, ls)]
  BY DEF Create
<1> DEFINE ls == {Line(i, calls') : i \in items}
<1>4. ls \subseteq LineRow /\ IsFiniteSet(ls)
  <2>1. price \in [Products -> Prices \cup {NoPrice}]
    BY DEF TInv, TypeOK
  <2> QED BY <1>2, <1>3, <2>1, AddedLines
<1>5. lines' = [lines EXCEPT ![d] = ls]
      /\ drafts' = [drafts EXCEPT ![d] = Recalculated(NewDraft, customer, ls)]
  BY <1>3
<1> HIDE DEF ls
<1>6. Recalculated(NewDraft, customer, ls) \in Row
  BY <1>4, NewDraftType, RecalculatedType
<1>7. drafts' \in [Drafts -> Row \cup {NoDraft}] /\ lines' \in [Drafts -> SUBSET LineRow]
  BY <1>4, <1>5, <1>6 DEF TInv, TypeOK
<1>8. \A e \in Drafts : lines'[e] = IF e = d THEN ls ELSE lines[e]
  BY <1>5 DEF TInv, TypeOK
<1> QED BY <1>1, <1>2, <1>4, <1>7, <1>8 DEF TInv, TypeOK, LinesFinite

LEMMA UpdateTypes ==
    ASSUME TInv, NEW s \in Sessions, NEW d \in Drafts, Update(s, d) PROVE TInv'
<1>1. /\ drafts[d] # NoDraft /\ Begins(s)
      /\ UNCHANGED <<price, drafts, lines, events, posted, told, raced, cut>>
  BY DEF Update
<1>2. calls' \in 0..MaxCalls /\ calls' \in Calls
  BY <1>1, BeginsTypes DEF TInv
<1>3. PICK customer \in Customers \cup {NoCustomer, SameCustomer}, replaces \in BOOLEAN,
           items \in SUBSET Items :
        /\ Resolvable(items)
        /\ LET gone  == IF replaces THEN lines[d] ELSE {}
               added == {Line(i, calls') : i \in items}
               kept  == Sent(customer, drafts[d].customer)
           IN  sess' = [sess EXCEPT ![s] =
                   [op |-> "edit", call |-> calls', draft |-> d, seen |-> drafts[d],
                    new |-> Recalculated(drafts[d], kept, (lines[d] \ gone) \cup added),
                    gone |-> gone, added |-> added]]
  BY DEF Update
<1> DEFINE gone  == IF replaces THEN lines[d] ELSE {}
           added == {Line(i, calls') : i \in items}
           kept  == Sent(customer, drafts[d].customer)
           left  == (lines[d] \ gone) \cup added
           new   == Recalculated(drafts[d], kept, left)
           b     == [op |-> "edit", call |-> calls', draft |-> d, seen |-> drafts[d],
                     new |-> new, gone |-> gone, added |-> added]
<1>4. added \subseteq LineRow /\ IsFiniteSet(added)
  <2>1. price \in [Products -> Prices \cup {NoPrice}]
    BY DEF TInv, TypeOK
  <2> QED BY <1>2, <1>3, <2>1, AddedLines
<1>5. sess' = [sess EXCEPT ![s] = b]
  BY <1>3
<1> HIDE DEF added
<1>6. drafts[d] \in Row /\ lines[d] \subseteq LineRow /\ IsFiniteSet(lines[d])
  BY <1>1 DEF TInv, TypeOK, LinesFinite
<1>7. gone \subseteq LineRow /\ left \subseteq LineRow /\ IsFiniteSet(left)
  <2>1. gone \subseteq LineRow
    BY <1>6
  <2>2. IsFiniteSet(lines[d] \ gone)
    BY <1>6, FS_Difference
  <2>3. IsFiniteSet(left)
    BY <1>4, <2>2, FS_Union
  <2> QED BY <1>4, <1>6, <2>1, <2>3
<1>8. kept \in Customers \cup {NoCustomer}
  <2>1. drafts[d].customer \in Customers \cup {NoCustomer}
    BY <1>6 DEF Row
  <2> QED BY <2>1 DEF Sent
<1> HIDE DEF gone, left, kept
<1>9. new \in Row
  BY <1>6, <1>7, <1>8, RecalculatedType
<1> HIDE DEF new
<1>10. b \in Session /\ b.added = added
  BY <1>2, <1>4, <1>6, <1>7, <1>9 DEF Session, Edit
<1> HIDE DEF b
<1>11. sess' \in [Sessions -> Session] /\ LinesFinite'
  BY <1>1, <1>4, <1>5, <1>10, SessionTypes
<1> QED BY <1>1, <1>2, <1>11 DEF TInv, TypeOK

LEMMA PostsTypes ==
    ASSUME TInv, NEW call \in Calls, NEW d \in Drafts \cup {None}, d # None => drafts[d] \in Row,
           NEW c \in Receptors, Posts(call, d, c)
    PROVE  posted' \subseteq Cfdi
<1> DEFINE ls == IF d = None THEN {} ELSE lines[d]
           sums == IF d = None THEN Sums({}) ELSE drafts[d].sums
           p == [call |-> call, draft |-> d, lines |-> ls, sums |-> sums,
                 receptor |-> c, to |-> Target(Cfg), outcome |-> Pending]
<1>1. posted' = posted \cup {p}
  BY DEF Posts
<1>2. ls \subseteq LineRow
  BY DEF TInv, TypeOK
<1>3. sums \in Amounts
  <2>1. Sums({}) \in Amounts
    BY NoLinesSum DEF Amounts
  <2> QED BY <2>1 DEF Row
<1> HIDE DEF ls, sums
<1>4. p \in Cfdi
  BY <1>2, <1>3 DEF Cfdi
<1> QED BY <1>1, <1>4 DEF TInv, TypeOK

LEMMA StampTypes ==
    ASSUME TInv, NEW s \in Sessions, NEW d \in Drafts, Stamp(s, d) PROVE TInv'
<1> DEFINE b == [op |-> "stamp", call |-> calls', draft |-> d, seen |-> drafts[d]]
<1>1. /\ drafts[d] # NoDraft /\ ~Missing(drafts[d].customer, lines[d]) /\ Begins(s)
      /\ Posts(calls', d, Receptor(drafts[d].customer))
      /\ sess' = [sess EXCEPT ![s] = b]
      /\ UNCHANGED <<price, drafts, lines, events, told, raced, cut>>
  BY DEF Stamp
<1>2. calls' \in 0..MaxCalls /\ calls' \in Calls
  BY <1>1, BeginsTypes DEF TInv
<1>3. drafts[d] \in Row
  BY <1>1 DEF TInv, TypeOK
<1>4. drafts[d].customer \in Customers
  BY <1>1, <1>3 DEF Row, Missing
<1>5. posted' \subseteq Cfdi
  <2>1. Receptor(drafts[d].customer) \in Receptors
    BY <1>4 DEF Receptors
  <2> QED BY <1>1, <1>2, <1>3, <2>1, PostsTypes
<1>6. b \in Session /\ b.op # "edit"
  BY <1>2, <1>3 DEF Session, Stamping
<1> HIDE DEF b
<1>7. sess' \in [Sessions -> Session] /\ LinesFinite'
  BY <1>1, <1>6, SessionTypes
<1> QED BY <1>1, <1>2, <1>5, <1>7 DEF TInv, TypeOK

LEMMA TellsTypes ==
    ASSUME TInv, NEW s \in Sessions, NEW req \in Requests,
           NEW active \in {Absent, "true", "false", Unknown}, Tells(s, req, active)
    PROVE  told' \in [Sessions -> {NoAnswer} \cup AnswerTold]
<1> DEFINE a == [req |-> req, active |-> active, valid |-> Verdict(req, active)]
<1>1. Verdict(req, active) \in BOOLEAN
  BY DEF Verdict
<1>2. a \in AnswerTold
  BY <1>1 DEF AnswerTold
<1>3. told' = [told EXCEPT ![s] = a]
  BY DEF Tells
<1> HIDE DEF a
<1> QED BY <1>2, <1>3 DEF TInv, TypeOK

LEMMA CheckRecipientTypes ==
    ASSUME TInv, NEW s \in Sessions, NEW req \in Requests, CheckRecipient(s, req) PROVE TInv'
<1>1. Begins(s) /\ UNCHANGED <<price, drafts, lines, events, raced, cut>>
  BY DEF CheckRecipient
<1>2. calls' \in 0..MaxCalls /\ calls' \in Calls
  BY <1>1, BeginsTypes DEF TInv
<1>3. ASSUME NEW active \in {Absent, Unknown}, Tells(s, req, active), UNCHANGED <<posted, sess>>
      PROVE  TInv'
  <2>1. told' \in [Sessions -> {NoAnswer} \cup AnswerTold]
    BY <1>3, TellsTypes
  <2> QED BY <1>1, <1>2, <1>3, <2>1 DEF TInv, TypeOK, LinesFinite
<1>4. ASSUME Posts(calls', None, Probed(req)),
             sess' = [sess EXCEPT ![s] = [op |-> "check", call |-> calls', req |-> req]],
             UNCHANGED told
      PROVE  TInv'
  <2> DEFINE b == [op |-> "check", call |-> calls', req |-> req]
  <2>1. Probed(req) \in Receptors
    BY DEF Receptors
  <2>2. Posts(calls', None, Probed(req))
    BY <1>4
  <2>3. posted' \subseteq Cfdi
    BY <1>2, <2>1, <2>2, PostsTypes
  <2>4. b \in Session /\ b.op # "edit" /\ sess' = [sess EXCEPT ![s] = b]
    BY <1>2, <1>4 DEF Session, Checking
  <2> HIDE DEF b
  <2>5. sess' \in [Sessions -> Session] /\ LinesFinite'
    BY <1>1, <2>4, SessionTypes
  <2> QED BY <1>1, <1>2, <1>4, <2>3, <2>5 DEF TInv, TypeOK
<1> QED BY <1>3, <1>4 DEF CheckRecipient

LEMMA ProxyTypes == ASSUME TInv, NEW s \in Sessions, ProxyCfdi(s) PROVE TInv'
<1>1. /\ Begins(s) /\ Posts(calls', None, NoReceptor)
      /\ UNCHANGED <<price, drafts, lines, events, sess, told, raced, cut>>
  BY DEF ProxyCfdi
<1>2. calls' \in 0..MaxCalls /\ calls' \in Calls
  BY <1>1, BeginsTypes DEF TInv
<1>3. NoReceptor \in Receptors
  BY DEF Receptors
<1>4. posted' \subseteq Cfdi
  BY <1>1, <1>2, <1>3, PostsTypes
<1> QED BY <1>1, <1>2, <1>4 DEF TInv, TypeOK, LinesFinite

LEMMA PacActsTypes ==
    ASSUME TInv, NEW p \in posted, NEW r \in Replies, PacActs(p, r) PROVE TInv'
<1> DEFINE n == [p EXCEPT !.outcome = r]
<1>1. /\ posted' = (posted \ {p}) \cup {n}
      /\ UNCHANGED <<price, drafts, lines, events, sess, told, calls, raced, cut>>
  BY DEF PacActs
<1>2. p \in Cfdi
  BY DEF TInv, TypeOK
<1>3. n \in Cfdi
  BY <1>2 DEF Cfdi
<1> HIDE DEF n
<1>4. posted' \subseteq Cfdi
  BY <1>1, <1>3 DEF TInv, TypeOK
<1> QED BY <1>1, <1>4 DEF TInv, TypeOK, LinesFinite

\* A commit writes a row and ends the request.
LEMMA CommitTypes ==
    ASSUME TInv, NEW s \in Sessions, NEW d \in Drafts, NEW new \in Row, sess[s].seen \in Row,
           drafts[d] \in Row, Commits(s, d, new)
    PROVE  /\ drafts' \in [Drafts -> Row \cup {NoDraft}] /\ raced' \in [Drafts -> BOOLEAN]
           /\ sess' \in [Sessions -> Session]
           /\ \A t \in Sessions : sess'[t] = IF t = s THEN Idle ELSE sess[t]
<1>1. Stored(new, sess[s].seen, drafts[d]) \in Row
  BY StoredType
<1>2. drafts' \in [Drafts -> Row \cup {NoDraft}]
  BY <1>1 DEF Commits, TInv, TypeOK
<1>3. raced' \in [Drafts -> BOOLEAN]
  <2>1. raced' = [raced EXCEPT ![d] = raced[d] \/ HeldByOther(s, d)]
    BY DEF Commits
  <2>2. (raced[d] \/ HeldByOther(s, d)) \in BOOLEAN
    OBVIOUS
  <2> QED BY <2>1, <2>2 DEF TInv, TypeOK
<1>4. sess' = [sess EXCEPT ![s] = Idle] /\ sess \in [Sessions -> Session]
  BY DEF Commits, TInv, TypeOK
<1>5. sess' \in [Sessions -> Session]
  BY <1>4, IdleSession
<1> QED BY <1>2, <1>3, <1>4, <1>5

LEMMA CommitUpdateTypes ==
    ASSUME TInv, IInv, NEW s \in Sessions, CommitUpdate(s) PROVE TInv'
<1> DEFINE b == sess[s]
           d == sess[s].draft
<1>1. /\ b.op = "edit" /\ Commits(s, d, b.new)
      /\ lines' = [lines EXCEPT ![d] = (lines[d] \ b.gone) \cup b.added]
      /\ UNCHANGED <<price, events, posted, told, calls, cut>>
  BY DEF CommitUpdate
<1>2. b \in Edit
  BY <1>1 DEF TInv, TypeOK, Session, Idle, Stamping, Checking
<1>3. b.seen \in Row /\ b.new \in Row /\ b.gone \subseteq LineRow /\ b.added \subseteq LineRow
      /\ d \in Drafts
  BY <1>2 DEF Edit
<1>4. drafts[d] \in Row
  <2>1. d \in Existing
    BY <1>1 DEF IInv, SessionsOK, SessionOK, EditOK
  <2> QED BY <2>1 DEF Existing, TInv, TypeOK
<1>5. /\ drafts' \in [Drafts -> Row \cup {NoDraft}] /\ raced' \in [Drafts -> BOOLEAN]
      /\ sess' \in [Sessions -> Session]
      /\ \A t \in Sessions : sess'[t] = IF t = s THEN Idle ELSE sess[t]
  BY <1>1, <1>3, <1>4, CommitTypes
<1> DEFINE ls == (lines[d] \ b.gone) \cup b.added
<1>6. ls \subseteq LineRow /\ IsFiniteSet(ls)
  <2>1. lines[d] \subseteq LineRow /\ IsFiniteSet(lines[d]) /\ IsFiniteSet(b.added)
    BY <1>1, <1>3 DEF TInv, TypeOK, LinesFinite
  <2>2. IsFiniteSet(lines[d] \ b.gone)
    BY <2>1, FS_Difference
  <2>3. IsFiniteSet(ls)
    BY <2>1, <2>2, FS_Union
  <2> QED BY <1>3, <2>1, <2>3
<1>7. lines' = [lines EXCEPT ![d] = ls]
  BY <1>1
<1> HIDE DEF ls
<1>8. lines' \in [Drafts -> SUBSET LineRow]
      /\ \A e \in Drafts : lines'[e] = IF e = d THEN ls ELSE lines[e]
  BY <1>3, <1>6, <1>7 DEF TInv, TypeOK
<1>9. LinesFinite'
  BY <1>5, <1>6, <1>8, IdleSession DEF TInv, LinesFinite
<1> QED BY <1>1, <1>5, <1>8, <1>9 DEF TInv, TypeOK

LEMMA StampedRowType ==
    ASSUME NEW seen \in Row, NEW call \in Calls, NEW result
    PROVE  StampedRow(seen, call, result) \in Row
<1> DEFINE st == IF Stamps(result) THEN "stamped" ELSE seen.status
           ss == IF Stamps(result) THEN "stamped" ELSE "rejected"
           at == seen.stampedAt \/ Stamps(result)
           xm == [call |-> call, sealed |-> StampedXml(result) # None]
<1>1. st \in {"draft", "ready_to_stamp", "stamped"} /\ ss \in {"not_sent", "stamped", "rejected"}
  BY DEF Row
<1>2. at \in BOOLEAN
  OBVIOUS
<1>3. xm \in [call : 0..MaxCalls, sealed : BOOLEAN]
  BY BoundAssumption DEF Calls
<1>4. seen.customer \in Customers \cup {NoCustomer} /\ seen.sums \in Amounts
  BY DEF Row
<1>5. StampedRow(seen, call, result) =
        [customer |-> seen.customer, status |-> st, stampStatus |-> ss, stampedAt |-> at,
         xml |-> xm, sums |-> seen.sums]
  BY DEF StampedRow
<1> HIDE DEF st, ss, at, xm
<1> QED BY <1>1, <1>2, <1>3, <1>4, <1>5 DEF Row

LEMMA StampAnsweredTypes ==
    ASSUME TInv, IInv, NEW s \in Sessions, StampAnswered(s) PROVE TInv'
<1> DEFINE b == sess[s]
           d == sess[s].draft
<1>1. b.op = "stamp" /\ UNCHANGED <<price, lines, posted, told, calls, cut>>
  BY DEF StampAnswered
<1>2. PICK p \in posted :
        /\ p.call = b.call
        /\ Commits(s, d, StampedRow(b.seen, p.call, Normalize(p.outcome.reply)))
        /\ events' = events \cup EventsOf(d, b.seen, p.call, Normalize(p.outcome.reply))
  BY DEF StampAnswered, Answer
<1>3. b \in Stamping
  BY <1>1 DEF TInv, TypeOK, Session, Idle, Edit, Checking
<1>4. b.seen \in Row /\ d \in Drafts /\ p.call \in Calls
  BY <1>2, <1>3 DEF Stamping
<1>5. drafts[d] \in Row
  <2>1. d \in Existing
    BY <1>1 DEF IInv, SessionsOK, SessionOK, StampOK
  <2> QED BY <2>1 DEF Existing, TInv, TypeOK
<1> DEFINE result == Normalize(p.outcome.reply)
           new == StampedRow(b.seen, p.call, result)
<1>6. new \in Row
  BY <1>4, StampedRowType
<1>7. Commits(s, d, new)
  BY <1>2
<1> HIDE DEF new
<1>8. /\ drafts' \in [Drafts -> Row \cup {NoDraft}] /\ raced' \in [Drafts -> BOOLEAN]
      /\ sess' \in [Sessions -> Session]
      /\ \A t \in Sessions : sess'[t] = IF t = s THEN Idle ELSE sess[t]
  BY <1>4, <1>5, <1>6, <1>7, CommitTypes
<1>9. events' \subseteq Event
  <2>1. [draft |-> d, call |-> p.call, sums |-> b.seen.sums] \in Event
    BY <1>4 DEF Event, Row
  <2> QED BY <1>2, <2>1 DEF EventsOf, TInv, TypeOK
<1>10. LinesFinite'
  BY <1>1, <1>8, IdleSession DEF TInv, LinesFinite
<1> QED BY <1>1, <1>8, <1>9, <1>10 DEF TInv, TypeOK

LEMMA RfcActiveType == ASSUME NEW result PROVE RfcActive(result) \in {Absent, "true", "false", Unknown}
BY DEF RfcActive

LEMMA EndTypes ==
    ASSUME TInv, NEW s \in Sessions, sess' = [sess EXCEPT ![s] = Idle], UNCHANGED lines
    PROVE  sess' \in [Sessions -> Session] /\ LinesFinite'
BY IdleSession, SessionTypes

LEMMA CheckAnsweredTypes ==
    ASSUME TInv, NEW s \in Sessions, CheckAnswered(s) PROVE TInv'
<1>1. /\ sess[s].op = "check" /\ sess' = [sess EXCEPT ![s] = Idle]
      /\ UNCHANGED <<price, drafts, lines, events, posted, calls, raced, cut>>
  BY DEF CheckAnswered
<1>2. sess[s].req \in Requests
  BY <1>1 DEF TInv, TypeOK, Session, Idle, Edit, Stamping, Checking
<1>3. PICK p \in posted : Tells(s, sess[s].req, RfcActive(Normalize(p.outcome.reply)))
  BY DEF CheckAnswered
<1>4. told' \in [Sessions -> {NoAnswer} \cup AnswerTold]
  BY <1>2, <1>3, RfcActiveType, TellsTypes
<1>5. sess' \in [Sessions -> Session] /\ LinesFinite'
  BY <1>1, EndTypes
<1> QED BY <1>1, <1>4, <1>5 DEF TInv, TypeOK

LEMMA GiveUpTypes == ASSUME TInv, NEW s \in Sessions, GiveUp(s) PROVE TInv'
<1>1. /\ sess[s] # Idle /\ cut' = cut \cup {sess[s].call} /\ sess' = [sess EXCEPT ![s] = Idle]
      /\ UNCHANGED <<price, drafts, lines, events, posted, calls, raced>>
  BY DEF GiveUp
<1>2. sess[s] \in Edit \cup Stamping \cup Checking
  BY <1>1 DEF TInv, TypeOK, Session
<1>3. sess[s].call \in Calls
  BY <1>2 DEF Edit, Stamping, Checking
<1>4. cut' \subseteq Calls
  BY <1>1, <1>3 DEF TInv, TypeOK
<1>5. told' \in [Sessions -> {NoAnswer} \cup AnswerTold]
  <2>1. CASE sess[s].op = "check"
    <3>1. sess[s].req \in Requests
      BY <1>2, <2>1 DEF Edit, Stamping, Checking
    <3>2. Tells(s, sess[s].req, Unknown)
      BY <2>1 DEF GiveUp
    <3> QED BY <3>1, <3>2, TellsTypes
  <2>2. CASE sess[s].op # "check"
    BY <2>2 DEF GiveUp, TInv, TypeOK
  <2> QED BY <2>1, <2>2
<1>6. sess' \in [Sessions -> Session] /\ LinesFinite'
  BY <1>1, EndTypes
<1> QED BY <1>1, <1>4, <1>5, <1>6 DEF TInv, TypeOK

LEMMA InitTypes == Init => TInv
<1> SUFFICES ASSUME Init PROVE TInv
  OBVIOUS
<1>1. TypeOK
  BY BoundAssumption, IdleSession DEF Init, TypeOK
<1>2. LinesFinite
  BY FS_EmptySet, IdleSession DEF Init, LinesFinite
<1> QED BY <1>1, <1>2 DEF TInv

LEMMA NextTypes == TInv /\ IInv /\ [Next]_vars => TInv'
<1> SUFFICES ASSUME TInv, IInv, [Next]_vars PROVE TInv'
  OBVIOUS
<1>1. CASE UNCHANGED vars
  BY <1>1 DEF vars, TInv, TypeOK, LinesFinite
<1>2. ASSUME NEW p \in Products, CreateProduct(p) \/ UpdateProduct(p) PROVE TInv'
  BY <1>2, PriceTypes
<1>3. ASSUME NEW s \in Sessions, NEW d \in Drafts, Create(s, d) \/ Update(s, d) \/ Stamp(s, d)
      PROVE  TInv'
  BY <1>3, CreateTypes, UpdateTypes, StampTypes
<1>4. ASSUME NEW s \in Sessions, NEW req \in Requests, CheckRecipient(s, req) PROVE TInv'
  BY <1>4, CheckRecipientTypes
<1>5. ASSUME NEW s \in Sessions, ProxyCfdi(s) \/ ProxyDemo(s) PROVE TInv'
  BY <1>5, ProxyTypes DEF ProxyDemo
<1>6. ASSUME NEW s \in Sessions,
             CommitUpdate(s) \/ StampAnswered(s) \/ CheckAnswered(s) \/ GiveUp(s)
      PROVE  TInv'
  BY <1>6, CommitUpdateTypes, StampAnsweredTypes, CheckAnsweredTypes, GiveUpTypes
<1>7. ASSUME NEW p \in posted, NEW r \in Replies, PacActs(p, r) PROVE TInv'
  BY <1>7, PacActsTypes
<1> QED BY <1>1, <1>2, <1>3, <1>4, <1>5, <1>6, <1>7 DEF Next

LEMMA TInvHolds == Spec => []TInv
BY InitTypes, NextTypes, Invariance, PTL DEF Spec

---------------------------------------------------------------------------
(* The theorems.                                                           *)

\* For any drafts, items and prices, a draft nobody has raced for has the sums of
\* its lines and a status that fits what is missing.
THEOREM DraftAgreesThm == Spec => []DraftAgrees
<1>1. IInv => DraftAgrees
  BY DEF IInv, RowsAgree, Agrees, DraftAgrees
<1> QED BY <1>1, Invariance, PTL

\* However requests overlap and end, an event is an invoice of the PAC for the
\* draft, or an answer of it that was unclear, with the sums of the draft.  Of the
\* PAC it is assumed only that it issues what it says it has sealed.
THEOREM RevenueIsIssuedThm == Spec => []RevenueIsIssued
<1>1. IInv => RevenueIsIssued
  BY DEF IInv
<1> QED BY <1>1, Invariance, PTL

\* An invoice that was confirmed has its event, or its request was cut off.
THEOREM ConfirmedIsRecordedThm == Spec => []ConfirmedIsRecorded
<1>1. IInv => ConfirmedIsRecorded
  BY DEF IInv, Covered, Settled, ConfirmedIsRecorded, Issued
<1> QED BY <1>1, Invariance, PTL

\* What is posted for a draft has the sums of its lines and a sound recipient.
THEOREM PostedIsSoundThm == Spec => []PostedIsSound
<1>1. IInv => PostedIsSound
  BY DEF IInv
<1> QED BY <1>1, Invariance, PTL

\* For any replies of a PAC that issues what it says it has sealed, a recipient is
\* active only for an invoice or an unclear success, and refused only by its code.
THEOREM VerdictIsGroundedThm == Spec => []VerdictIsGrounded
<1>1. IInv => VerdictIsGrounded
  BY DEF IInv
<1> QED BY <1>1, Invariance, PTL

\* For any finite set of lines and any prices the amounts are whole cents that are
\* not negative, and every CFDI is for the recipient of a draft or of a request.
THEOREM TypeCorrect == Spec => []TypeOK
<1>1. TInv => TypeOK
  BY DEF TInv
<1> QED BY <1>1, TInvHolds, PTL


\* An event and the lines of the invoice it stands for.
RevenueIsTheLines ==
    \A e \in events : ~raced[e.draft] =>
        \E p \in IssuedOrUnclear :
            /\ p.call = e.call /\ p.draft = e.draft
            /\ e.sums = Sums(p.lines)
            /\ e.sums.total = e.sums.subtotal + e.sums.taxes

\* Every billing event of a draft that no two requests have written to at a time
\* tells the sums of the lines of a CFDI that was posted for the draft and that the
\* PAC has issued or left unclear, and its total is what the two parts add up to
\* (stamp_billing_draft).
THEOREM RevenueIsTheLinesThm == Spec => []RevenueIsTheLines
<1>1. ASSUME IInv, NEW e \in events, ~raced[e.draft]
      PROVE  \E p \in IssuedOrUnclear :
                /\ p.call = e.call /\ p.draft = e.draft
                /\ e.sums = Sums(p.lines)
                /\ e.sums.total = e.sums.subtotal + e.sums.taxes
  <2>1. PICK p \in IssuedOrUnclear : p.call = e.call /\ p.draft = e.draft /\ p.sums = e.sums
    BY <1>1 DEF IInv, RevenueIsIssued
  <2>2. p \in posted /\ p.draft # None
    BY <1>1, <2>1, BoundAssumption DEF IssuedOrUnclear, IInv, EventsExist, Existing
  <2>3. p.sums = Sums(p.lines)
    BY <1>1, <2>1, <2>2 DEF IInv, PostedIsSound
  <2>4. Sums(p.lines).total = Sums(p.lines).subtotal + Sums(p.lines).taxes
    BY DEF Sums
  <2> QED BY <2>1, <2>3, <2>4
<1>2. IInv => RevenueIsTheLines
  BY <1>1 DEF RevenueIsTheLines
<1> QED BY <1>2, Invariance, PTL

\* Drafts are never deleted and events never changed.
LEMMA NothingLost ==
    ASSUME IInv, [Next]_vars
    PROVE  events \subseteq events' /\ Existing \subseteq Existing'
<1>1. CASE UNCHANGED <<drafts, events>>
  BY <1>1 DEF Existing
<1>2. ASSUME NEW s \in Sessions, NEW d \in Drafts, Create(s, d)
      PROVE  events \subseteq events' /\ Existing \subseteq Existing'
  BY <1>2 DEF Create, Existing, IInv, Domains
<1>3. ASSUME NEW s \in Sessions, CommitUpdate(s) \/ StampAnswered(s)
      PROVE  events \subseteq events' /\ Existing \subseteq Existing'
  <2>1. PICK d, new : drafts' = [drafts EXCEPT ![d] = Stored(new, sess[s].seen, @)]
    BY <1>3 DEF CommitUpdate, StampAnswered, Commits
  <2>2. \A row : Stored(new, sess[s].seen, row) # NoDraft
    BY DEF Stored, NoDraft
  <2>3. \A q \in Existing : drafts'[q] # NoDraft
    BY <2>1, <2>2 DEF Existing, IInv, Domains
  <2> QED BY <1>3, <2>3 DEF CommitUpdate, StampAnswered, Existing
<1> QED BY <1>1, <1>2, <1>3
        DEF Next, vars, CreateProduct, UpdateProduct, Update, Stamp, CheckRecipient,
            ProxyCfdi, ProxyDemo, PacActs, CheckAnswered, GiveUp

\* However requests overlap, a draft that was stamped once counts as stamped for
\* good: a commit of data read before the stamp does not take it back
\* (update_billing_draft, stamp_billing_draft).
THEOREM StampsKeptThm == Spec => StampsKept
<1>1. ASSUME IInv, IInv', [Next]_vars PROVE KeepsStamps
  <2>1. events \subseteq events' /\ Existing \subseteq Existing'
    BY <1>1, NothingLost
  <2>2. ASSUME NEW d \in Existing, drafts[d].stampedAt PROVE drafts'[d].stampedAt
    <3>1. PICK e \in events : e.draft = d
      BY <1>1, <2>2 DEF IInv, RevenueIsIssued
    <3>2. e \in events' /\ d \in Existing'
      BY <2>1, <2>2, <3>1
    <3> QED BY <1>1, <3>1, <3>2 DEF IInv, RevenueIsIssued
  <2> QED BY <2>1, <2>2 DEF KeepsStamps
<1>2. IInv /\ IInv' /\ [Next]_vars => [KeepsStamps]_vars
  BY <1>1
<1> QED BY <1>2, Invariance, PTL DEF Spec, StampsKept
=============================================================================
