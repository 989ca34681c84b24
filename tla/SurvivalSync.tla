----------------------------- MODULE SurvivalSync -----------------------------
(***************************************************************************)
(* services/survival_engine.py and api/routers/sync.py: clients that were  *)
(* offline send batches of billing events, again and again until they are  *)
(* answered, and a reader follows the table by timestamp.  The table also  *)
(* holds the events of stamped drafts.                                     *)
(*                                                                         *)
(* A batch is worked off event by event: a lookup of the hash, then an     *)
(* insert with a commit of its own.  Batches overlap and may stop at any   *)
(* event.                                                                  *)
(***************************************************************************)
EXTENDS TenantScope, Naturals, FiniteSets, Sequences, SequencesExt

CONSTANTS
    Sessions,     \* requests at work at one time
    Events,       \* what clients have to send
    HashOf,       \* HashOf[e]: evt_hash, or NoHash
    TimeOf,       \* TimeOf[e]: its timestamp; 0 absent
    BadTime,      \* events whose timestamp cannot be parsed
    Dangling,     \* events that refer to a row that does not exist
    CompanyOf,    \* CompanyOf[e]: the company_id in the event, or NoTenant
    StampHashes,  \* hashes of the events of stamped drafts
    Outbox,       \* Outbox[c]: the events of client c, in its order
    Clients, ContextOf,   \* ContextOf[c]: the credentials of c
    Reader,       \* the tenant the reader follows
    Times,        \* timestamps
    Limit,        \* rows in a page
    MaxFaults     \* bound: failures of the database and lost requests

NoHash == "no_hash"
Hashes == ({HashOf[e] : e \in Events} \ {NoHash}) \cup StampHashes

\* An event of a client that is stored as it was sent.
Good(e) == HashOf[e] # NoHash /\ e \notin BadTime \cup Dangling

ASSUME EventsAssumption ==
    /\ Times \subseteq Nat \ {0}
    /\ TimeOf \in [Events -> Times \cup {0}]
    /\ CompanyOf \in [Events -> Tenants \cup {NoTenant}]
    /\ Outbox \in [Clients -> Seq(Events)]
    /\ ContextOf \in [Clients -> Context]
    /\ NoHash \notin StampHashes

\* Two events are not given the same hash.
ASSUME HashAssumption ==
    /\ \A e, f \in Events : HashOf[e] = HashOf[f] /\ HashOf[e] # NoHash => e = f
    /\ \A e \in Events : HashOf[e] \notin StampHashes

ASSUME LimitAssumption == Limit \in Nat \ {0} /\ MaxFaults \in Nat

VARIABLES
    rows,      \* evento_facturacion by evt_hash
    sess,      \* the batch each session works on
    acked,     \* events in a batch that was answered without errors
    cursor,    \* the timestamp the reader has come to, 0 at first
    fetched,   \* hashes the reader has got
    late,      \* hashes stored with a timestamp the reader had left behind
    faults     \* failures so far

vars == <<rows, sess, acked, cursor, fetched, late, faults>>

NoRow == [company |-> "none", time |-> 0, writer |-> NoContext]
Row == [company : Tenants, time : Times, writer : Context]
Idle == [step |-> "idle"]

\* todo holds the events that are left, company the tenant of the request.
Batch == [step : {"lookup", "insert"}, ctx : Context, company : Tenants,
          batch : Seq(Events), todo : Seq(Events),
          counts : [{"inserted", "skipped", "errors"} -> Nat]]

TypeOK ==
    /\ rows \in [Hashes -> Row \cup {NoRow}]
    /\ sess \in [Sessions -> {Idle} \cup Batch]
    /\ acked \subseteq Events
    /\ cursor \in Times \cup {0}
    /\ fetched \subseteq Hashes
    /\ late \subseteq Hashes
    /\ faults \in 0..MaxFaults

Init ==
    /\ rows = [h \in Hashes |-> NoRow]
    /\ sess = [s \in Sessions |-> Idle]
    /\ acked = {}
    /\ cursor = 0
    /\ fetched = {}
    /\ late = {}
    /\ faults = 0

---------------------------------------------------------------------------
(* The batches.                                                            *)

\* Mutation: the company in the event is kept, whoever sends it.
CompanyIn_Own(ctx, tenant, e) == IF CompanyOf[e] # NoTenant THEN CompanyOf[e] ELSE tenant

\* The loop of the router: a superadmin may name another company in an event.
CompanyIn(ctx, tenant, e) ==
    IF ctx.role = "superadmin" /\ CompanyOf[e] # NoTenant THEN CompanyOf[e] ELSE tenant

\* sync_batch of the router: a wrong signature and a foreign tenant are refused.
Send(c, s) ==
    /\ sess[s] = Idle
    /\ LET ctx == SecurityContext(ContextOf[c])
       IN  /\ MayCall(ctx, {"operator", "admin", "superadmin"})
           /\ \E asked \in Tenants \cup {NoTenant} :
                /\ EnforceTenantScope(ctx, asked) # Denied
                /\ sess' = [sess EXCEPT ![s] =
                     [step |-> "lookup", ctx |-> ctx,
                      company |-> EnforceTenantScope(ctx, asked),
                      batch |-> Outbox[c], todo |-> Outbox[c],
                      counts |-> [n \in {"inserted", "skipped", "errors"} |-> 0]]]
    /\ UNCHANGED <<rows, acked, cursor, fetched, late, faults>>

Working(s, step) == sess[s].step = step /\ sess[s].todo # <<>>

\* Mutation: the batch ends with the first bad event.
Rest_Stops(b, count) == IF count = "errors" THEN <<>> ELSE Tail(b.todo)

Rest(b, count) == Tail(b.todo)

\* The event counts as one of the three and the loop goes on.
Counted(s, count) ==
    LET b == sess[s]
    IN  sess' = [sess EXCEPT ![s] =
          [step |-> "lookup", ctx |-> b.ctx, company |-> b.company, batch |-> b.batch,
           todo |-> Rest(b, count), counts |-> [b.counts EXCEPT ![count] = @ + 1]]]

\* Mutation: an event without a hash is skipped.
Found_NoHashSkipped(e) ==
    CASE HashOf[e] = NoHash -> "skipped"
      [] HashOf[e] # NoHash /\ rows[HashOf[e]] # NoRow -> "skipped"
      [] HashOf[e] # NoHash /\ rows[HashOf[e]] = NoRow /\ e \in BadTime -> "errors"
      [] OTHER -> "insert"

\* What the look at an event decides.
Found(e) ==
    CASE HashOf[e] = NoHash -> "errors"
      [] HashOf[e] # NoHash /\ rows[HashOf[e]] # NoRow -> "skipped"
      [] HashOf[e] # NoHash /\ rows[HashOf[e]] = NoRow /\ e \in BadTime -> "errors"
      [] OTHER -> "insert"

Lookup(s) ==
    /\ Working(s, "lookup")
    /\ LET found == Found(Head(sess[s].todo))
       IN  IF found = "insert" THEN sess' = [sess EXCEPT ![s].step = "insert"]
                               ELSE Counted(s, found)
    /\ UNCHANGED <<rows, acked, cursor, fetched, late, faults>>

Stores(h, row) ==
    /\ rows' = [rows EXCEPT ![h] = row]
    /\ late' = IF row.time < cursor /\ row.company = Reader THEN late \cup {h} ELSE late
    /\ UNCHANGED <<acked, cursor, fetched, faults>>

Fits(e) == rows[HashOf[e]] = NoRow /\ e \notin Dangling

\* Mutation: the default for the timestamp is missing.
StoredTimes_AsSent(e) == {TimeOf[e]}

\* Without a timestamp the event gets the time of now.
StoredTimes(e) == IF TimeOf[e] = 0 THEN Times ELSE {TimeOf[e]}

\* db.add, db.commit
Insert(s) ==
    /\ Working(s, "insert")
    /\ LET e == Head(sess[s].todo)
       IN  /\ Fits(e)
           /\ Counted(s, "inserted")
           /\ \E t \in StoredTimes(e) :
                Stores(HashOf[e], [company |-> CompanyIn(sess[s].ctx, sess[s].company, e),
                                   time |-> t, writer |-> sess[s].ctx])

\* IntegrityError: the hash is there by now, or a row it refers to is not.
Violates(s) ==
    /\ Working(s, "insert")
    /\ ~Fits(Head(sess[s].todo))
    /\ Counted(s, "skipped")
    /\ UNCHANGED <<rows, acked, cursor, fetched, late, faults>>

Faulty == faults < MaxFaults /\ faults' = faults + 1

\* Any other error of the database
Fails(s) ==
    /\ sess[s] # Idle /\ sess[s].todo # <<>>
    /\ Faulty
    /\ Counted(s, "errors")
    /\ UNCHANGED <<rows, acked, cursor, fetched, late>>

\* The counts arrive.
Answered(s) ==
    /\ sess[s] # Idle /\ sess[s].todo = <<>>
    /\ acked' = IF sess[s].counts["errors"] = 0 THEN acked \cup ToSet(sess[s].batch) ELSE acked
    /\ sess' = [sess EXCEPT ![s] = Idle]
    /\ UNCHANGED <<rows, cursor, fetched, late, faults>>

\* The process stops or the answer is lost: the client learns nothing.
Lost(s) ==
    /\ sess[s] # Idle
    /\ Faulty
    /\ sess' = [sess EXCEPT ![s] = Idle]
    /\ UNCHANGED <<rows, acked, cursor, fetched, late>>

\* The event that stamp_billing_draft commits with a draft of tenant t
DraftStamped(h, t) ==
    /\ rows[h] = NoRow
    /\ \E now \in Times : Stores(h, [company |-> t, time |-> now,
                                     writer |-> [tenant |-> t, role |-> "operator"]])
    /\ UNCHANGED sess

---------------------------------------------------------------------------
(* The reader.                                                             *)

\* Mutation: rows with the time of the cursor are left out.
After_Strict(h) == rows[h].time > cursor

After(h) == rows[h].time >= cursor

\* get_changes: rows from the cursor on by timestamp, in any order where that is
\* the same, cut off at the limit.
Changes == {h \in Hashes : rows[h] # NoRow /\ rows[h].company = Reader /\ After(h)}

Pages ==
    {p \in SUBSET Changes :
        /\ Cardinality(p) <= Limit
        /\ p # Changes => Cardinality(p) = Limit
        /\ \A h \in p, g \in Changes \ p : rows[h].time <= rows[g].time}

\* The reader goes on from the last timestamp it was given.
Poll ==
    \E p \in Pages : \E last \in p :
        /\ \A h \in p : rows[h].time <= rows[last].time
        /\ cursor' = rows[last].time
        /\ fetched' = fetched \cup p
        /\ UNCHANGED <<rows, sess, acked, late, faults>>

Works(s) == Lookup(s) \/ Insert(s) \/ Violates(s) \/ Answered(s)

Next ==
    \/ \E c \in Clients, s \in Sessions : Send(c, s)
    \/ \E s \in Sessions : Works(s) \/ Fails(s) \/ Lost(s)
    \/ \E h \in StampHashes, t \in Tenants : DraftStamped(h, t)
    \/ Poll

(***************************************************************************)
(* Clients send again, also when all workers are often busy with others,   *)
(* and requests are worked off.                                            *)
(***************************************************************************)
Fairness ==
    /\ \A c \in Clients : SF_vars(\E s \in Sessions : Send(c, s))
    /\ \A s \in Sessions : WF_vars(Works(s))

Spec == Init /\ [][Next]_vars
FairSpec == Spec /\ Fairness

---------------------------------------------------------------------------
Stored(e) == HashOf[e] # NoHash /\ rows[HashOf[e]] # NoRow

(***************************************************************************)
(* What a client takes off its outbox is stored: an event of a batch that  *)
(* was answered without errors has its row, however batches overlap, stop  *)
(* and are sent again, unless it refers to a row that does not exist       *)
(* (sync_batch).                                                           *)
(***************************************************************************)
AckedIsStored == \A e \in acked : Stored(e) \/ e \in Dangling

(***************************************************************************)
(* Tenants stay apart: what a caller has written belongs to its tenant     *)
(* unless it is a superadmin, and the reader gets rows of its tenant only; *)
(* the first as long as callers are authenticated at all                   *)
(* (enforce_tenant_scope, the normalisation of the router, get_changes).   *)
(***************************************************************************)
TenantsApart ==
    /\ Connector # "none" =>
         \A h \in Hashes : rows[h] # NoRow /\ rows[h].writer.role # "superadmin" =>
            rows[h].company = rows[h].writer.tenant
    /\ \A h \in fetched : rows[h].company = Reader

(***************************************************************************)
(* A reader that goes on from the last timestamp it was given leaves no    *)
(* row behind, however pages are cut between rows of one timestamp, other  *)
(* than those that were stored with a time it had passed already.          *)
(***************************************************************************)
NoGapBehindCursor ==
    \A h \in Hashes :
        rows[h] # NoRow /\ rows[h].company = Reader /\ rows[h].time < cursor =>
            h \in fetched \cup late

(***************************************************************************)
(* An event that can be stored is stored in the end, whatever else is in   *)
(* its batch, when the failures have come to an end.                       *)
(***************************************************************************)
Delivered == \A c \in Clients : \A e \in ToSet(Outbox[c]) : Good(e) => <>Stored(e)
===============================================================================
