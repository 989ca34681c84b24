---------------------------- MODULE AuditChain ----------------------------
(***************************************************************************)
(* The hash chain of the audit trail (services/audit_service.py).          *)
(*                                                                         *)
(* create_audit_log reads the last entry of the company, computes the next *)
(* sequence number and hashes from it, and inserts: two statements with no *)
(* lock, and no unique constraint on (company_id, sequence_number).  The   *)
(* callers run concurrently: the document worker and the outbound worker   *)
(* each in a thread, the synchronous endpoints in the thread pool and      *)
(* ingest_document on the event loop, each with a session of its own.      *)
(***************************************************************************)
EXTENDS Naturals, Sequences, FiniteSets

CONSTANTS
    Calls,        \* calls of create_audit_log, each to insert one entry
    Companies,
    CompanyOf,    \* CompanyOf[k]: the company_id argument of call k
    Contents,
    ContentOf     \* ContentOf[k]: its action, entity and details

ASSUME CallsAssumption ==
    /\ CompanyOf \in [Calls -> Companies]
    /\ ContentOf \in [Calls -> Contents]

VARIABLES
    rows,   \* the audit_logs table; a row is named by the call that inserts it
    pc,     \* pc[k]: "idle", "insert", "ended"
    last    \* last[k]: the entry get_last_audit_log returned to k, or none

vars == <<rows, pc, last>>

\* SHA-256 is taken as injective: the content stands for its own hash, and a
\* chain hash for the sequence of the contents it covers.  '' is <<>>.
NoHash == <<>>
ChainHash(previous, contentHash) == Append(previous, contentHash)
Hash == Seq(Contents)

NoEntry == [seq |-> 0, chain |-> NoHash]
Entry == [seq : Nat, chain : Hash]
Row == [id : Calls, company : Companies, seq : Nat \ {0}, content : Contents,
        prev : Hash, contentHash : Contents, chain : Hash]

TypeOK ==
    /\ rows \in SUBSET Row
    /\ pc \in [Calls -> {"idle", "insert", "ended"}]
    /\ last \in [Calls -> Entry]

Init ==
    /\ rows = {}
    /\ pc = [k \in Calls |-> "idle"]
    /\ last = [k \in Calls |-> NoEntry]

---------------------------------------------------------------------------
\* Mutation: the query does not filter by company.
RowsOf_AllTenants(c) == rows

RowsOf(c) == {r \in rows : r.company = c}

\* The rows ORDER BY sequence_number DESC may return first.
LastRows(c) == {r \in RowsOf(c) : \A q \in RowsOf(c) : q.seq <= r.seq}

\* get_last_audit_log(db, company_id)
ReadLast(k) ==
    /\ pc[k] = "idle"
    /\ \/ /\ RowsOf(CompanyOf[k]) = {}
          /\ last' = [last EXCEPT ![k] = NoEntry]
       \/ \E r \in LastRows(CompanyOf[k]) :
            last' = [last EXCEPT ![k] = [seq |-> r.seq, chain |-> r.chain]]
    /\ pc' = [pc EXCEPT ![k] = "insert"]
    /\ UNCHANGED rows

\* Mutation: the number of the last entry is used again.
NextSeq_NotAdvanced(k) == last[k].seq

\* last_log.sequence_number + 1, or 1
NextSeq(k) == last[k].seq + 1

NewRow(k) ==
    [id |-> k, company |-> CompanyOf[k], seq |-> NextSeq(k),
     content |-> ContentOf[k], prev |-> last[k].chain,
     contentHash |-> ContentOf[k], chain |-> ChainHash(last[k].chain, ContentOf[k])]

\* db.add, db.commit
Insert(k) ==
    /\ pc[k] = "insert"
    /\ rows' = rows \cup {NewRow(k)}
    /\ pc' = [pc EXCEPT ![k] = "ended"]
    /\ UNCHANGED last

\* The insert raises, or the process stops first: nothing is written.
Abort(k) ==
    /\ pc[k] = "insert"
    /\ pc' = [pc EXCEPT ![k] = "ended"]
    /\ UNCHANGED <<rows, last>>

Next == \E k \in Calls : ReadLast(k) \/ Insert(k) \/ Abort(k)

Spec == Init /\ [][Next]_vars

---------------------------------------------------------------------------
\* The orders in which ORDER BY sequence_number may return the rows of c.
Orders(c) ==
    {f \in [1..Cardinality(RowsOf(c)) -> RowsOf(c)] :
        \A i, k \in DOMAIN f : i < k => f[i] # f[k] /\ f[i].seq <= f[k].seq}

\* Mutation: previous_hash is not compared with the entry before.
Verify_HashesOnly(f) ==
    \A i \in DOMAIN f :
        /\ f[i].contentHash = f[i].content
        /\ f[i].chain = ChainHash(f[i].prev, f[i].contentHash)

\* verify_audit_chain, on the rows in the order f
Verify(f) ==
    \A i \in DOMAIN f :
        /\ f[i].prev = IF i = 1 THEN NoHash ELSE f[i - 1].chain
        /\ f[i].contentHash = f[i].content
        /\ f[i].chain = ChainHash(f[i].prev, f[i].contentHash)

Fork(c) == \E r, q \in RowsOf(c) : r # q /\ r.seq = q.seq

(***************************************************************************)
(* Whatever the callers do, an entry continues an entry of the same        *)
(* company: the one numbered just before it, whose chain hash it covers.   *)
(* The trail of a company may fork but it never dangles, and it never      *)
(* picks up the hash of another tenant (get_last_audit_log's filter).      *)
(***************************************************************************)
Continues(r) ==
    \/ r.seq = 1 /\ r.prev = NoHash
    \/ \E q \in rows : /\ q.company = r.company
                       /\ q.seq + 1 = r.seq
                       /\ q.chain = r.prev
LinksToParent ==
    \A r \in rows : Continues(r) /\ r.chain = ChainHash(r.prev, r.contentHash)

(***************************************************************************)
(* verify_audit_chain answers the same whatever order the database gives   *)
(* the entries with equal numbers, and it fails exactly when two entries   *)
(* of the company share a sequence number.                                 *)
(***************************************************************************)
VerifyFindsForks ==
    \A c \in Companies : \A f \in Orders(c) : Verify(f) <=> ~Fork(c)

(***************************************************************************)
(* What forks a trail, exactly: an entry inserted after another call of    *)
(* the same company has numbered beyond the entry its own call had read.   *)
(* Callers of other companies never do it, and neither do concurrent calls *)
(* of which no insert falls between the read and the insert of another.    *)
(***************************************************************************)
Overtaken(k) == \E r \in RowsOf(CompanyOf[k]) : r.seq > last[k].seq
MadeByOvertaken(c) ==
    \E k \in Calls : CompanyOf[k] = c /\ Overtaken(k) /\ Insert(k)
ForksFromOvertaking ==
    [][\A c \in Companies : Fork(c)' <=> Fork(c) \/ MadeByOvertaken(c)]_vars

(***************************************************************************)
(* CONTRATO_OPERATIVO_V1.md 8.6: "Verificacion de cadena de auditoria debe *)
(* mantenerse valida en todo momento."                                     *)
(***************************************************************************)
AlwaysValid == \A c \in Companies : \A f \in Orders(c) : Verify(f)
===========================================================================
