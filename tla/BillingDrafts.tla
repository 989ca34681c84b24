---------------------------- MODULE BillingDrafts ----------------------------
(***************************************************************************)
(* api/routers/commercial_v1.py: the product catalogue and the drafts of   *)
(* invoices of one tenant, their stamping by the PAC, and the other        *)
(* requests that post a CFDI to the same PAC: the ones of billing_v1.py    *)
(* and the check of a recipient.                                           *)
(*                                                                         *)
(* A request reads the draft and its lines, computes, and commits the      *)
(* columns it has changed; a stamping waits for the PAC in between.  The   *)
(* PAC takes what it was posted at any time, also after the request that   *)
(* posted it has given up.                                                 *)
(***************************************************************************)
EXTENDS RecipientCheck, Integers, FiniteSets, FiniteSetsExt

CONSTANTS
    Sessions,     \* requests at work at one time
    Drafts,       \* ids
    Products, Prices,   \* the catalogue; prices in cents
    Items,        \* the lines a client may send
    Customers,    \* what clients send as customer_rfc and customer_regimen
    TextCode,     \* TextCode[t]: the code of a regime given as a text
    Requests,     \* bodies of validate_receptor
    Replies,      \* what the PAC may do: [reply |-> .., issued |-> BOOLEAN]
    Cfg,          \* the settings
    MaxCalls      \* bound: requests that start

NoDraft == [status |-> "no_draft"]
NoPrice == -1    \* of a product that is not there, or of an item without unit_price
Free == "free"     \* an item without product_id
Pending == [reply |-> None]

\* The PAC says that it has sealed an invoice only if it has.  Nothing is assumed
\* of an answer that does not say so, also if the service takes it for a success.
ASSUME PacAssumption == \A r \in Replies : SaysSealed(Normalize(r.reply)) => r.issued

\* A body has finitely many lines.
ASSUME ItemsAssumption ==
    /\ Free \notin Products
    /\ IsFiniteSet(Items)
    /\ Items \subseteq [product : Products \cup {Free}, price : Nat \cup {NoPrice},
                        quantity : Nat \ {0}, rate : Nat, taxed : BOOLEAN]
    /\ Prices \subseteq Nat

\* The columns of the customer are one: they are all there or some are missing.
NoCustomer == [rfc |-> None, regimen |-> None]
SameCustomer == [rfc |-> Absent, regimen |-> Absent]

ASSUME CustomerAssumption ==
    /\ Customers \subseteq [rfc : STRING, regimen : STRING]
    /\ {NoCustomer, SameCustomer} \cap Customers = {}

ASSUME BoundAssumption == MaxCalls \in Nat /\ Pending \notin Replies /\ None \notin Drafts

VARIABLES
    price,    \* the price of each product, NoPrice before it is created
    drafts,   \* the billing_draft table
    lines,    \* lines[d]: the rows of billing_draft_item
    events,   \* rows of evento_facturacion written by a stamping
    posted,   \* the CFDIs that were posted, with what the PAC did
    sess,     \* what each session holds
    told,     \* told[s]: the last answer to a recipient check
    calls,    \* requests started
    raced,    \* raced[d]: a request wrote to d while another one held it
    cut       \* requests that ended without an answer of the PAC

vars == <<price, drafts, lines, events, posted, sess, told, calls, raced, cut>>

---------------------------------------------------------------------------
(* What a request computes.                                                *)

\* _money and the percentage of a rate, in cents, half a cent rounded up
Tax(l) == IF l.taxed THEN (2 * l.base * l.rate + 100) \div 200 ELSE 0

Sums(ls) ==
    LET subtotal == MapThenSumSet(LAMBDA l : l.base, ls)
        taxes    == MapThenSumSet(Tax, ls)
    IN  [subtotal |-> subtotal, taxes |-> taxes, total |-> subtotal + taxes]

\* A price of 0 is one that was given.
UnitPrice(i) ==
    CASE i.price # NoPrice -> i.price
      [] i.price = NoPrice /\ i.product # Free -> price[i.product]
      [] OTHER -> 0

\* _resolve_item_payload, _set_line_totals; the call stands for the uuid.
Line(i, call) ==
    [call |-> call, item |-> i, base |-> i.quantity * UnitPrice(i),
     rate |-> i.rate, taxed |-> i.taxed]

\* 404: a product that is not in the catalogue of the tenant
Resolvable(items) == \A i \in items : i.product = Free \/ price[i.product] # NoPrice

Missing(customer, ls) == customer = NoCustomer \/ ls = {}

StatusOf(row, customer, ls) ==
    CASE row.stampedAt -> "stamped"
      [] ~row.stampedAt /\ Missing(customer, ls) -> "draft"
      [] OTHER -> "ready_to_stamp"

\* Mutation: the sums are left as they were.
Recalculated_KeepsSums(row, customer, ls) ==
    [customer |-> customer, status |-> StatusOf(row, customer, ls),
     stampStatus |-> row.stampStatus, stampedAt |-> row.stampedAt, xml |-> row.xml,
     sums |-> row.sums]

\* _recalculate_draft, for the customer the row has got
Recalculated(row, customer, ls) ==
    [customer |-> customer, status |-> StatusOf(row, customer, ls),
     stampStatus |-> CASE row.stampedAt -> "stamped"
                       [] ~row.stampedAt /\ row.stampStatus = "stamped" -> "not_sent"
                       [] OTHER -> row.stampStatus,
     stampedAt |-> row.stampedAt, xml |-> row.xml, sums |-> Sums(ls)]

NoXml == [call |-> 0, sealed |-> FALSE]

NewDraft ==
    [customer |-> NoCustomer, status |-> "draft", stampStatus |-> "not_sent",
     stampedAt |-> FALSE, xml |-> NoXml, sums |-> Sums({})]

\* _normalize_regimen_code: three digits, a known text, or as it is
RegimenCode(raw) == IF raw \in DOMAIN TextCode THEN TextCode[raw] ELSE raw

\* Mutation: the data of the draft, also for an RFC of the public.
Receptor_AsStored(c) == [rfc |-> c.rfc, regimen |-> RegimenCode(c.regimen), uso |-> "G03"]

\* _build_cfdi_xml.  customer_use_cfdi is G03 unless the client sends another.
Receptor(c) ==
    IF c.rfc \in GenericRfcs
    THEN [rfc |-> c.rfc, regimen |-> "616", uso |-> "S01"]
    ELSE [rfc |-> c.rfc, regimen |-> RegimenCode(c.regimen), uso |-> "G03"]

\* The recipient in the CFDI of validate_rfc_via_pac
Probed(req) == [rfc |-> req.rfc, regimen |-> req.regimen, uso |-> "G03"]

NoReceptor == [rfc |-> None, regimen |-> None, uso |-> None]

---------------------------------------------------------------------------
(* Types.                                                                  *)

Calls == 1..MaxCalls
Amounts == [subtotal : Nat, taxes : Nat, total : Nat]
Row == [customer : Customers \cup {NoCustomer},
        status : {"draft", "ready_to_stamp", "stamped"},
        stampStatus : {"not_sent", "stamped", "rejected"}, stampedAt : BOOLEAN,
        xml : [call : 0..MaxCalls, sealed : BOOLEAN], sums : Amounts]
LineRow == [call : Calls, item : Items, base : Nat, rate : Nat, taxed : BOOLEAN]

\* seen is the draft as it was read; gone and added are the changes of its lines.
Idle == [op |-> "idle"]
Edit == [op : {"edit"}, call : Calls, draft : Drafts, seen : Row, new : Row,
         gone : SUBSET LineRow, added : SUBSET LineRow]
Stamping == [op : {"stamp"}, call : Calls, draft : Drafts, seen : Row]
Checking == [op : {"check"}, call : Calls, req : Requests]
Session == {Idle} \cup Edit \cup Stamping \cup Checking

\* The CFDI of a draft, or one of another request, with no draft.
Receptors == {Receptor(c) : c \in Customers} \cup {Probed(req) : req \in Requests}
                \cup {NoReceptor}
Cfdi == [call : Calls, draft : Drafts \cup {None}, lines : SUBSET LineRow,
         sums : Amounts, receptor : Receptors, to : {Target(Cfg)},
         outcome : Replies \cup {Pending}]
NoAnswer == [req |-> None]
AnswerTold == [req : Requests, active : {Absent, "true", "false", Unknown}, valid : BOOLEAN]
Event == [draft : Drafts, call : Calls, sums : Amounts]

TypeOK ==
    /\ price \in [Products -> Prices \cup {NoPrice}]
    /\ drafts \in [Drafts -> Row \cup {NoDraft}]
    /\ lines \in [Drafts -> SUBSET LineRow]
    /\ events \subseteq Event
    /\ posted \subseteq Cfdi
    /\ sess \in [Sessions -> Session]
    /\ told \in [Sessions -> {NoAnswer} \cup AnswerTold]
    /\ calls \in 0..MaxCalls
    /\ raced \in [Drafts -> BOOLEAN]
    /\ cut \subseteq Calls

Init ==
    /\ price = [p \in Products |-> NoPrice]
    /\ drafts = [d \in Drafts |-> NoDraft]
    /\ lines = [d \in Drafts |-> {}]
    /\ events = {}
    /\ posted = {}
    /\ sess = [s \in Sessions |-> Idle]
    /\ told = [s \in Sessions |-> NoAnswer]
    /\ calls = 0
    /\ raced = [d \in Drafts |-> FALSE]
    /\ cut = {}

---------------------------------------------------------------------------
(* The catalogue.  create_product and update_product look for the SKU and  *)
(* write in one transaction; a constraint of the table stops a second one. *)

CreateProduct(p) ==
    /\ price[p] = NoPrice
    /\ price' \in {[price EXCEPT ![p] = c] : c \in Prices}
    /\ UNCHANGED <<drafts, lines, events, posted, sess, told, calls, raced, cut>>

UpdateProduct(p) ==
    /\ price[p] # NoPrice
    /\ price' \in {[price EXCEPT ![p] = c] : c \in Prices}
    /\ UNCHANGED <<drafts, lines, events, posted, sess, told, calls, raced, cut>>

---------------------------------------------------------------------------
(* The drafts.                                                             *)

Begins(s) ==
    /\ sess[s] = Idle
    /\ calls < MaxCalls
    /\ calls' = calls + 1

Holds(s, d) == sess[s].op \in {"edit", "stamp"} /\ sess[s].draft = d

HeldByOther(s, d) == \E q \in Sessions \ {s} : Holds(q, d)

\* Mutation: what is not in the body is taken from it all the same.
Sent_Always(customer, column) == customer

\* What is not in the body keeps its value.
Sent(customer, column) == IF customer = SameCustomer THEN column ELSE customer

\* Nobody knows the id before the commit: one step.
Create(s, d) ==
    /\ drafts[d] = NoDraft
    /\ Begins(s)
    /\ \E customer \in Customers \cup {NoCustomer}, items \in SUBSET Items :
        /\ Resolvable(items)
        /\ LET ls == {Line(i, calls') : i \in items}
           IN  /\ lines' = [lines EXCEPT ![d] = ls]
               /\ drafts' = [drafts EXCEPT ![d] = Recalculated(NewDraft, customer, ls)]
    /\ UNCHANGED <<price, events, posted, sess, told, raced, cut>>

\* update_billing_draft up to its commit: the draft, its lines and the products
\* are read.  Without items the lines stay; [] takes them all away.
Update(s, d) ==
    /\ drafts[d] # NoDraft
    /\ Begins(s)
    /\ \E customer \in Customers \cup {NoCustomer, SameCustomer}, replaces \in BOOLEAN,
          items \in SUBSET Items :
        /\ replaces \/ items = {}
        /\ Resolvable(items)
        /\ LET gone  == IF replaces THEN lines[d] ELSE {}
               added == {Line(i, calls') : i \in items}
               kept  == Sent(customer, drafts[d].customer)
           IN  sess' = [sess EXCEPT ![s] =
                   [op |-> "edit", call |-> calls', draft |-> d, seen |-> drafts[d],
                    new |-> Recalculated(drafts[d], kept, (lines[d] \ gone) \cup added),
                    gone |-> gone, added |-> added]]
    /\ UNCHANGED <<price, drafts, lines, events, posted, told, raced, cut>>

\* Mutation: every column is written, with what the request holds.
Column_Always(new, seen, current) == new

\* A column is in the UPDATE if its value is not the one that was read.
Column(new, seen, current) == IF new # seen THEN new ELSE current

Stored(new, seen, row) ==
    [customer    |-> Column(new.customer, seen.customer, row.customer),
     status      |-> Column(new.status, seen.status, row.status),
     stampStatus |-> Column(new.stampStatus, seen.stampStatus, row.stampStatus),
     stampedAt   |-> Column(new.stampedAt, seen.stampedAt, row.stampedAt),
     xml         |-> Column(new.xml, seen.xml, row.xml),
     sums        |->
        [subtotal |-> Column(new.sums.subtotal, seen.sums.subtotal, row.sums.subtotal),
         taxes    |-> Column(new.sums.taxes, seen.sums.taxes, row.sums.taxes),
         total    |-> Column(new.sums.total, seen.sums.total, row.sums.total)]]

Commits(s, d, new) ==
    /\ drafts' = [drafts EXCEPT ![d] = Stored(new, sess[s].seen, @)]
    /\ raced' = [raced EXCEPT ![d] = @ \/ HeldByOther(s, d)]
    /\ sess' = [sess EXCEPT ![s] = Idle]

\* db.commit.  Lines another request has deleted meanwhile stay deleted, the
\* ones it has added stay.
CommitUpdate(s) ==
    /\ sess[s].op = "edit"
    /\ LET d == sess[s].draft
       IN  /\ Commits(s, d, sess[s].new)
           /\ lines' = [lines EXCEPT ![d] = (@ \ sess[s].gone) \cup sess[s].added]
    /\ UNCHANGED <<price, events, posted, told, calls, cut>>

---------------------------------------------------------------------------
(* The PAC.                                                                *)

Posts(call, d, receptor) ==
    posted' = posted \cup
        {[call |-> call, draft |-> d, lines |-> IF d = None THEN {} ELSE lines[d],
          sums |-> IF d = None THEN Sums({}) ELSE drafts[d].sums,
          receptor |-> receptor, to |-> Target(Cfg), outcome |-> Pending]}

\* stamp_billing_draft up to the call: 422 for a draft with missing fields.
\* That the draft is stamped already is not asked.
Stamp(s, d) ==
    /\ drafts[d] # NoDraft
    /\ ~Missing(drafts[d].customer, lines[d])
    /\ IsConfigured(Cfg)
    /\ Begins(s)
    /\ Posts(calls', d, Receptor(drafts[d].customer))
    /\ sess' = [sess EXCEPT ![s] = [op |-> "stamp", call |-> calls', draft |-> d,
                                    seen |-> drafts[d]]]
    /\ UNCHANGED <<price, drafts, lines, events, told, raced, cut>>

Tells(s, req, active) ==
    told' = [told EXCEPT ![s] =
                [req |-> req, active |-> active, valid |-> Verdict(req, active)]]

\* validate_receptor without pac_check, with data that are wrong anyway, or
\* without a PAC answers at once; otherwise a CFDI for the recipient is posted.
CheckRecipient(s, req) ==
    /\ Begins(s)
    /\ \/ Tells(s, req, Absent) /\ UNCHANGED <<posted, sess>>
       \/ /\ ProbeAllowed(FieldsOf(req))
          /\ ~IsConfigured(Cfg)
          /\ Tells(s, req, Unknown)
          /\ UNCHANGED <<posted, sess>>
       \/ /\ ProbeAllowed(FieldsOf(req))
          /\ IsConfigured(Cfg)
          /\ Posts(calls', None, Probed(req))
          /\ sess' = [sess EXCEPT ![s] = [op |-> "check", call |-> calls', req |-> req]]
          /\ UNCHANGED told
    /\ UNCHANGED <<price, drafts, lines, events, raced, cut>>

\* timbra_cfdi of billing_v1: the answer is passed on and nothing is kept, so
\* nobody waits for it here.
ProxyCfdi(s) ==
    /\ IsConfigured(Cfg)
    /\ Begins(s)
    /\ Posts(calls', None, NoReceptor)
    /\ UNCHANGED <<price, drafts, lines, events, sess, told, raced, cut>>

\* timbra_demo_cfdi posts a CFDI of its own.
ProxyDemo(s) == DemoAllowed(Cfg) /\ ProxyCfdi(s)

\* What becomes of the CFDIs of billing_v1 is of no consequence here.
PacActs(p, r) ==
    /\ p.outcome = Pending
    /\ p.receptor # NoReceptor
    /\ posted' = (posted \ {p}) \cup {[p EXCEPT !.outcome = r]}
    /\ UNCHANGED <<price, drafts, lines, events, sess, told, calls, raced, cut>>

Answer(s, p) == p \in posted /\ p.call = sess[s].call /\ p.outcome # Pending

\* Where the PAC has sent no XML the one that was posted is kept.
StampedRow(seen, call, result) ==
    [customer |-> seen.customer,
     status |-> IF Stamps(result) THEN "stamped" ELSE seen.status,
     stampStatus |-> IF Stamps(result) THEN "stamped" ELSE "rejected",
     stampedAt |-> seen.stampedAt \/ Stamps(result),
     xml |-> [call |-> call, sealed |-> StampedXml(result) # None],
     sums |-> seen.sums]

\* Mutation: the sums the draft has now, not those that were sent.
EventsOf_Reread(d, seen, call, result) ==
    IF Stamps(result) THEN {[draft |-> d, call |-> call, sums |-> drafts[d].sums]} ELSE {}

\* Mutation: one event for a draft.
EventsOf_FirstOnly(d, seen, call, result) ==
    IF Stamps(result) /\ ~seen.stampedAt
    THEN {[draft |-> d, call |-> call, sums |-> seen.sums]} ELSE {}

EventsOf(d, seen, call, result) ==
    IF Stamps(result) THEN {[draft |-> d, call |-> call, sums |-> seen.sums]} ELSE {}

\* stamp_billing_draft from the answer on: the draft and the event of the
\* invoice are in one transaction.
StampAnswered(s) ==
    /\ sess[s].op = "stamp"
    /\ \E p \in posted :
        /\ Answer(s, p)
        /\ LET d == sess[s].draft
               result == Normalize(p.outcome.reply)
           IN  /\ Commits(s, d, StampedRow(sess[s].seen, p.call, result))
               /\ events' = events \cup EventsOf(d, sess[s].seen, p.call, result)
    /\ UNCHANGED <<price, lines, posted, told, calls, cut>>

CheckAnswered(s) ==
    /\ sess[s].op = "check"
    /\ \E p \in posted :
        /\ Answer(s, p)
        /\ Tells(s, sess[s].req, RfcActive(Normalize(p.outcome.reply)))
    /\ sess' = [sess EXCEPT ![s] = Idle]
    /\ UNCHANGED <<price, drafts, lines, events, posted, calls, raced, cut>>

\* A timeout, a broken connection (502, or an inconclusive check) or a stop of
\* the process; the CFDI is on its way all the same.
GiveUp(s) ==
    /\ sess[s] # Idle
    /\ cut' = cut \cup {sess[s].call}
    /\ IF sess[s].op = "check" THEN Tells(s, sess[s].req, Unknown) ELSE UNCHANGED told
    /\ sess' = [sess EXCEPT ![s] = Idle]
    /\ UNCHANGED <<price, drafts, lines, events, posted, calls, raced>>

Next ==
    \/ \E p \in Products : CreateProduct(p) \/ UpdateProduct(p)
    \/ \E s \in Sessions :
        \/ \E d \in Drafts : Create(s, d) \/ Update(s, d) \/ Stamp(s, d)
        \/ \E req \in Requests : CheckRecipient(s, req)
        \/ ProxyCfdi(s) \/ ProxyDemo(s)
        \/ CommitUpdate(s) \/ StampAnswered(s) \/ CheckAnswered(s) \/ GiveUp(s)
    \/ \E p \in posted, r \in Replies : PacActs(p, r)

Spec == Init /\ [][Next]_vars

---------------------------------------------------------------------------
Existing == {d \in Drafts : drafts[d] # NoDraft}
Issued == {p \in posted : p.outcome # Pending /\ p.outcome.issued}
IssuedOrUnclear ==
    {p \in posted : p.outcome # Pending /\ (p.outcome.issued \/ Unclear(Normalize(p.outcome.reply)))}

(***************************************************************************)
(* As long as no two requests overlap on a draft, its sums are the ones of *)
(* its lines, it is ready exactly when nothing is missing, and it counts   *)
(* as stamped for good once it was (_recalculate_draft and the writes of   *)
(* stamp_billing_draft, in any order, with prices that change meanwhile).  *)
(***************************************************************************)
DraftAgrees ==
    \A d \in Existing : ~raced[d] =>
        LET r == drafts[d]
        IN  /\ r.sums = Sums(lines[d])
            /\ r.stampedAt => r.status = "stamped"
            /\ ~r.stampedAt =>
                /\ r.status = IF Missing(r.customer, lines[d]) THEN "draft" ELSE "ready_to_stamp"
                /\ r.stampStatus # "stamped"

(***************************************************************************)
(* However requests overlap, are repeated or are cut off, each billing     *)
(* event stands for an invoice the PAC has issued for that draft, with its *)
(* sums, or for an answer that was unclear, which the service takes for a  *)
(* success; and a draft has a time of stamping exactly when it has an      *)
(* event (stamp_billing_draft, extract_stamped_document).                  *)
(***************************************************************************)
RevenueIsIssued ==
    /\ \A e \in events : \E p \in IssuedOrUnclear :
            p.call = e.call /\ p.draft = e.draft /\ p.sums = e.sums
    /\ \A d \in Existing : drafts[d].stampedAt <=> \E e \in events : e.draft = d

(***************************************************************************)
(* An invoice that was issued for a draft and confirmed has its event,     *)
(* unless the request was cut off before it had the answer or is still     *)
(* waiting for it.                                                         *)
(***************************************************************************)
ConfirmedIsRecorded ==
    \A p \in Issued :
        p.draft # None /\ Stamps(Normalize(p.outcome.reply)) =>
            \/ \E e \in events : e.call = p.call
            \/ p.call \in cut
            \/ \E s \in Sessions : sess[s].op = "stamp" /\ sess[s].call = p.call

KeepsStamps ==
    /\ events \subseteq events'
    /\ \A d \in Existing : d \in Existing' /\ (drafts[d].stampedAt => drafts'[d].stampedAt)

(***************************************************************************)
(* However requests overlap, a draft is not deleted, an event is not taken *)
(* back and a draft that was stamped counts as stamped for good: a commit  *)
(* of what was read before the stamp does not undo it                      *)
(* (update_billing_draft, stamp_billing_draft).                            *)
(***************************************************************************)
StampsKept == [][KeepsStamps]_vars

(***************************************************************************)
(* What a draft posts: sums that are those of its lines, unless requests   *)
(* have overlapped on the draft, and for an RFC of the public a regime and *)
(* a use that the recipient check would accept, whatever the draft says    *)
(* (_build_cfdi_xml, receptor_validate).                                   *)
(***************************************************************************)
PostedIsSound ==
    \A p \in posted : p.draft # None =>
        /\ ~raced[p.draft] => p.sums = Sums(p.lines)
        /\ p.receptor.rfc \in GenericRfcs =>
            /\ ValidRegimen(p.receptor.regimen, Tipo(p.receptor.rfc))
            /\ ValidUso(p.receptor.uso, Tipo(p.receptor.rfc), p.receptor.regimen)

(***************************************************************************)
(* A recipient is told to be active only if the PAC has issued an invoice  *)
(* for it or has left it unclear with the status of a success, and data    *)
(* that pass the catalogues are refused only if the PAC has said that the  *)
(* RFC is not there: an outage, an error of the issuer or an error nobody  *)
(* knows changes no verdict (validate_receptor, validate_rfc_via_pac).     *)
(***************************************************************************)
VerdictIsGrounded ==
    \A s \in Sessions : told[s] # NoAnswer =>
        LET about == {p \in posted : p.draft = None /\ p.receptor.rfc = told[s].req.rfc
                                                  /\ p.outcome # Pending}
        IN  /\ told[s].active = "true" =>
                \E p \in about : p.outcome.issued \/ Unclear(Normalize(p.outcome.reply))
            /\ AllValid(FieldsOf(told[s].req)) /\ ~told[s].valid =>
                \E p \in about : ErrorCode(Normalize(p.outcome.reply)) \in RfcNotFoundCodes

(***************************************************************************)
(* commercial_v1.py:868: "Si el draft ya fue timbrado, el PDF indica       *)
(* 'TIMBRADO' y muestra el UUID."  The PDF looks at stamp_status and takes *)
(* the UUID from the stored XML; requests that overlap are left out here.  *)
(***************************************************************************)
PdfTellsTheStamp ==
    \A d \in Existing : ~raced[d] /\ drafts[d].stampedAt =>
        drafts[d].stampStatus = "stamped" /\ drafts[d].xml.sealed

============================================================================
