------------------------ MODULE SurvivalSync_proofs ------------------------
(* Batches and the reader for every set of events, clients and sessions.   *)
EXTENDS SurvivalSync, TLAPS

In(e, R) == HashOf[e] # NoHash /\ R[HashOf[e]] # NoRow

\* What the counts of a batch promise of the table R.
Accounted(b, R) ==
    b.counts["errors"] = 0 =>
        \A i \in 1..(Len(b.batch) - Len(b.todo)) : In(b.batch[i], R) \/ b.batch[i] \in Dangling

\* The events left are the end of the batch.
Suffix(b) ==
    /\ Len(b.todo) <= Len(b.batch)
    /\ \A i \in 1..Len(b.todo) : b.todo[i] = b.batch[i + (Len(b.batch) - Len(b.todo))]

\* An ordinary caller works in its own tenant.
Scoped(b) == Connector # "none" /\ b.ctx.role # "superadmin" => b.company = b.ctx.tenant

BatchOK(b, R) ==
    b # Idle =>
        /\ b \in Batch
        /\ Suffix(b) /\ Accounted(b, R) /\ Scoped(b)
        /\ b.step = "insert" => b.todo # <<>> /\ HashOf[Head(b.todo)] # NoHash

BatchesOK == \A s \in Sessions : BatchOK(sess[s], rows)

RowsScoped ==
    Connector # "none" =>
        \A h \in Hashes : rows[h] # NoRow /\ rows[h].writer.role # "superadmin" =>
            rows[h].company = rows[h].writer.tenant

FetchedOK == \A h \in fetched : rows[h] # NoRow /\ rows[h].company = Reader

IInv == TypeOK /\ BatchesOK /\ AckedIsStored /\ RowsScoped /\ FetchedOK /\ NoGapBehindCursor

LEMMA RowIsSome == NoRow \notin Row
BY EventsAssumption DEF NoRow, Row

LEMMA CursorIsNat == TypeOK => cursor \in Nat
<1>1. Times \subseteq Nat
  BY EventsAssumption
<1> QED BY <1>1 DEF TypeOK

LEMMA IdleIsNoBatch == Idle \notin Batch
BY DEF Idle, Batch

LEMMA HashIsKnown ==
    ASSUME NEW e \in Events, HashOf[e] # NoHash PROVE HashOf[e] \in Hashes
BY DEF Hashes

LEMMA Earlier == ASSUME NEW m \in Nat, NEW n \in Nat, NEW i \in 1..(m - n) PROVE i \in 1..m
OBVIOUS

\* A table that grows breaks no promise.
LEMMA BatchOKMono ==
    ASSUME NEW b, NEW R, NEW S, BatchOK(b, R),
           \A h \in Hashes : R[h] # NoRow => S[h] # NoRow
    PROVE  BatchOK(b, S)
<1> SUFFICES ASSUME b # Idle PROVE Accounted(b, S)
  BY DEF BatchOK
<1>1. b \in Batch /\ Accounted(b, R)
  BY DEF BatchOK
<1> SUFFICES ASSUME b.counts["errors"] = 0,
                    NEW i \in 1..(Len(b.batch) - Len(b.todo)), b.batch[i] \notin Dangling
             PROVE  In(b.batch[i], S)
  BY DEF Accounted
<1>2. b.batch[i] \in Events
  <2>1. b.batch \in Seq(Events) /\ b.todo \in Seq(Events)
    BY <1>1 DEF Batch
  <2>2. Len(b.batch) \in Nat /\ Len(b.todo) \in Nat
    BY <2>1
  <2>3. i \in 1..Len(b.batch)
    BY <2>2, Earlier
  <2> QED BY <2>1, <2>3
<1>3. In(b.batch[i], R)
  BY <1>1 DEF Accounted
<1> QED BY <1>2, <1>3, HashIsKnown DEF In

\* The record that Counted writes.
Next1(b, count) ==
    [step |-> "lookup", ctx |-> b.ctx, company |-> b.company, batch |-> b.batch,
     todo |-> Tail(b.todo), counts |-> [b.counts EXCEPT ![count] = @ + 1]]

\* An event that is counted keeps the promise if only errors are not stored.
LEMMA CountedOK ==
    ASSUME NEW b, NEW R, NEW count \in {"inserted", "skipped", "errors"},
           b \in Batch, BatchOK(b, R), b.todo # <<>>,
           count # "errors" => In(Head(b.todo), R) \/ Head(b.todo) \in Dangling
    PROVE  BatchOK(Next1(b, count), R)
<1> DEFINE n == Next1(b, count)
<1>1. /\ b.batch \in Seq(Events) /\ b.todo \in Seq(Events)
      /\ b.counts \in [{"inserted", "skipped", "errors"} -> Nat]
      /\ b.ctx \in Context /\ b.company \in Tenants
  BY DEF Batch
<1>2. /\ n.step = "lookup" /\ n.ctx = b.ctx /\ n.company = b.company /\ n.batch = b.batch
      /\ n.todo = Tail(b.todo) /\ n.counts = [b.counts EXCEPT ![count] = @ + 1]
  BY DEF Next1
<1>3. n.counts \in [{"inserted", "skipped", "errors"} -> Nat] /\ n.todo \in Seq(Events)
  BY <1>1, <1>2
<1>4. n \in Batch
  BY <1>1, <1>3 DEF Next1, Batch
<1>5. b # Idle
  BY IdleIsNoBatch
<1>6. Suffix(b) /\ Accounted(b, R) /\ Scoped(b)
  BY <1>5 DEF BatchOK
<1>7. Len(n.todo) = Len(b.todo) - 1 /\ Len(b.todo) >= 1 /\ Len(b.batch) \in Nat /\ Len(b.todo) \in Nat
  BY <1>1, <1>2
<1>8. Suffix(n)
  <2>0. Len(n.todo) <= Len(n.batch)
    BY <1>2, <1>6, <1>7 DEF Suffix
  <2> SUFFICES ASSUME NEW i \in 1..Len(n.todo)
               PROVE  n.todo[i] = n.batch[i + (Len(n.batch) - Len(n.todo))]
    BY <2>0 DEF Suffix
  <2>1. n.todo[i] = b.todo[i + 1] /\ i + 1 \in 1..Len(b.todo)
    BY <1>1, <1>2, <1>7
  <2>2. b.todo[i + 1] = b.batch[i + 1 + (Len(b.batch) - Len(b.todo))]
    BY <1>6, <2>1 DEF Suffix
  <2> QED BY <1>2, <1>7, <2>1, <2>2
<1>9. Accounted(n, R)
  <2> SUFFICES ASSUME n.counts["errors"] = 0, NEW i \in 1..(Len(n.batch) - Len(n.todo))
               PROVE  In(n.batch[i], R) \/ n.batch[i] \in Dangling
    BY DEF Accounted
  <2>1. count # "errors" /\ b.counts["errors"] = 0
    BY <1>1, <1>2
  <2>2. CASE i <= Len(b.batch) - Len(b.todo)
    <3>1. i \in 1..(Len(b.batch) - Len(b.todo))
      BY <1>7, <2>2
    <3> QED BY <1>2, <1>6, <2>1, <3>1 DEF Accounted
  <2>3. CASE i = Len(b.batch) - Len(b.todo) + 1
    <3>1. Head(b.todo) = b.todo[1]
      BY <1>1, <1>7
    <3>2. b.todo[1] = b.batch[1 + (Len(b.batch) - Len(b.todo))]
      <4>1. 1 \in 1..Len(b.todo)
        BY <1>7
      <4> QED BY <1>6, <4>1 DEF Suffix
    <3>3. n.batch[i] = Head(b.todo)
      <4>1. i = 1 + (Len(b.batch) - Len(b.todo))
        BY <1>7, <2>3
      <4> HIDE DEF n
      <4> QED BY <1>2, <3>1, <3>2, <4>1
    <3> QED BY <2>1, <3>3
  <2> QED BY <1>2, <1>6, <1>7, <2>2, <2>3 DEF Suffix
<1>10. Scoped(n)
  BY <1>2, <1>6 DEF Scoped
<1> QED BY <1>2, <1>4, <1>8, <1>9, <1>10 DEF BatchOK

\* What Counted does to the sessions.
LEMMA CountedKeeps ==
    ASSUME IInv, NEW s \in Sessions, sess[s] # Idle, sess[s].todo # <<>>,
           NEW count \in {"inserted", "skipped", "errors"}, Counted(s, count),
           \A h \in Hashes : rows[h] # NoRow => rows'[h] # NoRow,
           count # "errors" => In(Head(sess[s].todo), rows') \/ Head(sess[s].todo) \in Dangling
    PROVE  BatchesOK'
<1> SUFFICES ASSUME NEW t \in Sessions PROVE BatchOK(sess'[t], rows')
  BY DEF BatchesOK, BatchOK, Accounted, Suffix, Scoped, In
<1>1. BatchOK(sess[t], rows) /\ BatchOK(sess[s], rows) /\ sess[s] \in Batch
  BY DEF IInv, BatchesOK, BatchOK
<1>2. BatchOK(sess[t], rows') /\ BatchOK(sess[s], rows')
  BY <1>1, BatchOKMono
<1>3. sess' = [sess EXCEPT ![s] = Next1(sess[s], count)]
  BY DEF Counted, Rest, Next1
<1>4. BatchOK(Next1(sess[s], count), rows')
  BY <1>1, <1>2, CountedOK
<1>5. sess'[t] = IF t = s THEN Next1(sess[s], count) ELSE sess[t]
  BY <1>3 DEF IInv, TypeOK
<1> QED BY <1>2, <1>4, <1>5

\* A new row.
LEMMA StoresKeeps ==
    ASSUME IInv, NEW h \in Hashes, NEW row \in Row, rows[h] = NoRow, Stores(h, row),
           Connector # "none" /\ row.writer.role # "superadmin" =>
                row.company = row.writer.tenant
    PROVE  /\ rows' \in [Hashes -> Row \cup {NoRow}] /\ late' \subseteq Hashes
           /\ rows'[h] # NoRow
           /\ \A g \in Hashes : rows[g] # NoRow => rows'[g] = rows[g]
           /\ RowsScoped' /\ FetchedOK' /\ NoGapBehindCursor'
<1>1. /\ rows' = [rows EXCEPT ![h] = row] /\ UNCHANGED <<cursor, fetched>>
      /\ late' = IF row.time < cursor /\ row.company = Reader THEN late \cup {h} ELSE late
  BY DEF Stores
<1>2. rows \in [Hashes -> Row \cup {NoRow}] /\ late \subseteq Hashes /\ fetched \subseteq Hashes
  BY DEF IInv, TypeOK
<1>3. rows' \in [Hashes -> Row \cup {NoRow}] /\ late' \subseteq Hashes
  BY <1>1, <1>2
<1>4. \A g \in Hashes : rows'[g] = IF g = h THEN row ELSE rows[g]
  BY <1>1, <1>2
<1>5. rows'[h] # NoRow /\ \A g \in Hashes : rows[g] # NoRow => rows'[g] = rows[g]
  BY <1>4, RowIsSome
<1>6. RowsScoped'
  BY <1>4 DEF IInv, RowsScoped
<1>7. FetchedOK'
  BY <1>1, <1>2, <1>5 DEF IInv, FetchedOK
<1>8. NoGapBehindCursor'
  BY <1>1, <1>4 DEF IInv, NoGapBehindCursor
<1> QED BY <1>3, <1>5, <1>6, <1>7, <1>8

\* What was answered is not lost by a table that grows.
LEMMA AckedKeeps ==
    ASSUME IInv, UNCHANGED acked, \A h \in Hashes : rows[h] # NoRow => rows'[h] # NoRow
    PROVE  AckedIsStored'
BY HashIsKnown DEF IInv, TypeOK, AckedIsStored, Stored

LEMMA ContextType == ASSUME NEW c \in Clients PROVE SecurityContext(ContextOf[c]) \in Context
<1>1. ContextOf[c] \in Context
  BY EventsAssumption
<1>2. ContextOf[c] # NoContext /\ ContextOf[c].tenant \in Tenants
  BY <1>1 DEF Context, NoContext, Roles
<1>3. \A role : NormalizeRole(role) \in Roles
  BY DEF NormalizeRole, Roles
<1>4. SecurityContext(ContextOf[c]) =
        IF Connector = "none" THEN DefaultContext
        ELSE [tenant |-> ContextOf[c].tenant, role |-> NormalizeRole(ContextOf[c].role)]
  BY <1>2 DEF SecurityContext
<1> QED BY <1>2, <1>3, <1>4, ScopeAssumption DEF DefaultContext, Context

LEMMA InitIInv == Init => IInv
<1> SUFFICES ASSUME Init PROVE IInv
  OBVIOUS
<1>1. TypeOK
  BY LimitAssumption DEF Init, TypeOK
<1>2. BatchesOK
  BY DEF Init, BatchesOK, BatchOK
<1>3. AckedIsStored /\ RowsScoped /\ FetchedOK
  BY DEF Init, AckedIsStored, RowsScoped, FetchedOK
<1>4. NoGapBehindCursor
  BY DEF Init, NoGapBehindCursor
<1> QED BY <1>1, <1>2, <1>3, <1>4 DEF IInv

LEMMA SendKeeps == ASSUME IInv, NEW c \in Clients, NEW s \in Sessions, Send(c, s) PROVE IInv'
<1> DEFINE ctx == SecurityContext(ContextOf[c])
<1>1. PICK asked \in Tenants \cup {NoTenant} :
        /\ EnforceTenantScope(ctx, asked) # Denied
        /\ sess' = [sess EXCEPT ![s] =
             [step |-> "lookup", ctx |-> ctx,
              company |-> EnforceTenantScope(ctx, asked),
              batch |-> Outbox[c], todo |-> Outbox[c],
              counts |-> [n \in {"inserted", "skipped", "errors"} |-> 0]]]
  BY DEF Send
<1> DEFINE b == [step |-> "lookup", ctx |-> ctx,
                 company |-> EnforceTenantScope(ctx, asked),
                 batch |-> Outbox[c], todo |-> Outbox[c],
                 counts |-> [n \in {"inserted", "skipped", "errors"} |-> 0]]
<1>2. UNCHANGED <<rows, acked, cursor, fetched, late, faults>>
  BY DEF Send
<1>3. ctx \in Context /\ Outbox[c] \in Seq(Events)
  BY ContextType, EventsAssumption
<1> HIDE DEF ctx
<1>4. /\ EnforceTenantScope(ctx, asked) \in Tenants
      /\ Connector # "none" /\ ctx.role # "superadmin" =>
            EnforceTenantScope(ctx, asked) = ctx.tenant
  <2>1. ctx.tenant \in Tenants
    BY <1>3 DEF Context
  <2>2. \/ EnforceTenantScope(ctx, asked) = ctx.tenant
        \/ /\ EnforceTenantScope(ctx, asked) = asked /\ asked # NoTenant
           /\ Connector = "none" \/ ctx.role = "superadmin"
    BY <1>1 DEF EnforceTenantScope
  <2> QED BY <2>1, <2>2
<1>5. b \in Batch
  BY <1>3, <1>4 DEF Batch
<1>6. BatchOK(b, rows)
  <2>1. Suffix(b)
    BY <1>3 DEF Suffix
  <2>2. Accounted(b, rows)
    BY <1>3 DEF Accounted
  <2>3. Scoped(b)
    BY <1>4 DEF Scoped
  <2> QED BY <1>5, <2>1, <2>2, <2>3 DEF BatchOK
<1>7. sess' = [sess EXCEPT ![s] = b]
  BY <1>1
<1> HIDE DEF b
<1>8. TypeOK'
  BY <1>2, <1>5, <1>7 DEF IInv, TypeOK
<1>9. \A t \in Sessions : sess'[t] = IF t = s THEN b ELSE sess[t]
  BY <1>7 DEF IInv, TypeOK
<1>10. \A t \in Sessions : BatchOK(sess'[t], rows)
  BY <1>6, <1>9 DEF IInv, BatchesOK
<1>11. BatchesOK'
  BY <1>2, <1>10 DEF BatchesOK, BatchOK, Accounted, Suffix, Scoped, In
<1> QED BY <1>2, <1>8, <1>11 DEF IInv, AckedIsStored, Stored, RowsScoped, FetchedOK, NoGapBehindCursor

\* Steps that store nothing and end nothing.
LEMMA QuietKeeps ==
    ASSUME IInv, UNCHANGED <<rows, acked, cursor, fetched, late>>,
           faults' \in 0..MaxFaults, sess' \in [Sessions -> {Idle} \cup Batch], BatchesOK'
    PROVE  IInv'
BY DEF IInv, TypeOK, AckedIsStored, Stored, RowsScoped, FetchedOK, NoGapBehindCursor

\* What Counted leaves is a batch.
LEMMA CountedType ==
    ASSUME IInv, NEW s \in Sessions, sess[s] # Idle, sess[s].todo # <<>>,
           NEW count \in {"inserted", "skipped", "errors"}, Counted(s, count)
    PROVE  sess' \in [Sessions -> {Idle} \cup Batch]
<1> DEFINE b == sess[s]
<1>1. b \in Batch
  BY DEF IInv, TypeOK
<1>2. /\ b.batch \in Seq(Events) /\ b.todo \in Seq(Events)
      /\ b.counts \in [{"inserted", "skipped", "errors"} -> Nat]
      /\ b.ctx \in Context /\ b.company \in Tenants
  BY <1>1 DEF Batch
<1>3. Tail(b.todo) \in Seq(Events) /\ [b.counts EXCEPT ![count] = @ + 1] \in [{"inserted", "skipped", "errors"} -> Nat]
  BY <1>2
<1>4. Next1(b, count) \in Batch
  BY <1>2, <1>3 DEF Next1, Batch
<1>5. sess' = [sess EXCEPT ![s] = Next1(b, count)]
  BY DEF Counted, Rest, Next1
<1> QED BY <1>4, <1>5 DEF IInv, TypeOK
\* One step of a batch.
LEMMA LookupKeeps == ASSUME IInv, NEW s \in Sessions, Lookup(s) PROVE IInv'
<1> DEFINE e == Head(sess[s].todo)
<1>1. /\ sess[s].step = "lookup" /\ sess[s].todo # <<>>
      /\ UNCHANGED <<rows, acked, cursor, fetched, late, faults>>
  BY DEF Lookup, Working
<1>2. sess[s] # Idle /\ sess[s] \in Batch
  BY <1>1 DEF Idle, IInv, TypeOK
<1>3. faults' \in 0..MaxFaults
  BY <1>1 DEF IInv, TypeOK
<1>4. CASE Found(e) # "insert"
  <2>1. Found(e) \in {"inserted", "skipped", "errors"} /\ Counted(s, Found(e))
    BY <1>4 DEF Lookup, Found
  <2>2. Found(e) # "errors" => In(e, rows')
    BY <1>1, <1>4 DEF Found, In
  <2>3. BatchesOK'
    BY <1>1, <1>2, <2>1, <2>2, CountedKeeps
  <2> QED BY <1>1, <1>2, <1>3, <2>1, <2>3, CountedType, QuietKeeps
<1>5. CASE Found(e) = "insert"
  <2> DEFINE b == sess[s]
             n == [b EXCEPT !.step = "insert"]
  <2>1. sess' = [sess EXCEPT ![s] = n]
    BY <1>5 DEF Lookup
  <2>2. HashOf[e] # NoHash
    BY <1>5 DEF Found
  <2>3. n \in Batch /\ n # Idle
    BY <1>2 DEF Batch, Idle
  <2>4. /\ n.ctx = b.ctx /\ n.company = b.company /\ n.batch = b.batch
        /\ n.todo = b.todo /\ n.counts = b.counts /\ n.step = "insert"
    BY <1>2 DEF Batch
  <2>5. BatchOK(b, rows)
    BY DEF IInv, BatchesOK
  <2> HIDE DEF n
  <2>6. BatchOK(n, rows)
    BY <1>1, <1>2, <2>2, <2>3, <2>4, <2>5 DEF BatchOK, Suffix, Accounted, Scoped
  <2>7. \A t \in Sessions : sess'[t] = IF t = s THEN n ELSE sess[t]
    BY <2>1 DEF IInv, TypeOK
  <2>8. \A t \in Sessions : BatchOK(sess'[t], rows)
    BY <2>6, <2>7 DEF IInv, BatchesOK
  <2>9. BatchesOK'
    BY <1>1, <2>8 DEF BatchesOK, BatchOK, Accounted, Suffix, Scoped, In
  <2>10. sess' \in [Sessions -> {Idle} \cup Batch]
    BY <2>1, <2>3 DEF IInv, TypeOK
  <2> QED BY <1>1, <1>3, <2>9, <2>10, QuietKeeps
<1> QED BY <1>4, <1>5

\* The event a session is about to insert.
LEMMA HeadType ==
    ASSUME IInv, NEW s \in Sessions, sess[s].step = "insert"
    PROVE  /\ sess[s] \in Batch /\ sess[s] # Idle /\ sess[s].todo # <<>>
           /\ Head(sess[s].todo) \in Events
           /\ HashOf[Head(sess[s].todo)] # NoHash
           /\ HashOf[Head(sess[s].todo)] \in Hashes
<1>1. sess[s] \in Batch /\ sess[s] # Idle
  BY DEF Idle, IInv, TypeOK
<1>2. sess[s].todo # <<>> /\ HashOf[Head(sess[s].todo)] # NoHash
  BY <1>1 DEF IInv, BatchesOK, BatchOK
<1>3. sess[s].todo \in Seq(Events)
  BY <1>1 DEF Batch
<1>4. Head(sess[s].todo) \in Events
  BY <1>2, <1>3
<1> QED BY <1>1, <1>2, <1>4, HashIsKnown

LEMMA InsertKeeps == ASSUME IInv, NEW s \in Sessions, Insert(s) PROVE IInv'
<1> DEFINE e == Head(sess[s].todo)
           b == sess[s]
<1>1. sess[s].step = "insert" /\ Fits(e) /\ Counted(s, "inserted")
  BY DEF Insert, Working
<1>2. /\ b \in Batch /\ b # Idle /\ b.todo # <<>>
      /\ e \in Events /\ HashOf[e] # NoHash /\ HashOf[e] \in Hashes
  BY <1>1, HeadType
<1>3. PICK t \in StoredTimes(e) :
        Stores(HashOf[e], [company |-> CompanyIn(b.ctx, b.company, e), time |-> t, writer |-> b.ctx])
  BY DEF Insert
<1> DEFINE row == [company |-> CompanyIn(b.ctx, b.company, e), time |-> t, writer |-> b.ctx]
<1>4. b.ctx \in Context /\ b.company \in Tenants /\ Scoped(b)
  BY <1>2 DEF Batch, IInv, BatchesOK, BatchOK
<1>5. t \in Times
  BY <1>2, EventsAssumption DEF StoredTimes
<1>6. CompanyIn(b.ctx, b.company, e) \in Tenants
  BY <1>2, <1>4, EventsAssumption DEF CompanyIn
<1>7. row \in Row
  BY <1>4, <1>5, <1>6 DEF Row
<1>8. Connector # "none" /\ row.writer.role # "superadmin" => row.company = row.writer.tenant
  BY <1>4 DEF Scoped, CompanyIn
<1>9. rows[HashOf[e]] = NoRow /\ Stores(HashOf[e], row)
  BY <1>1, <1>3 DEF Fits
<1> HIDE DEF row
<1>10. /\ rows' \in [Hashes -> Row \cup {NoRow}] /\ late' \subseteq Hashes
       /\ rows'[HashOf[e]] # NoRow
       /\ \A g \in Hashes : rows[g] # NoRow => rows'[g] = rows[g]
       /\ RowsScoped' /\ FetchedOK' /\ NoGapBehindCursor'
  BY <1>2, <1>7, <1>8, <1>9, StoresKeeps
<1>11. UNCHANGED <<acked, cursor, fetched, faults>>
  BY <1>9 DEF Stores
<1>12. BatchesOK'
  BY <1>1, <1>2, <1>10, CountedKeeps DEF In
<1>13. AckedIsStored'
  BY <1>10, <1>11, AckedKeeps
<1>14. TypeOK'
  BY <1>1, <1>2, <1>10, <1>11, CountedType DEF IInv, TypeOK
<1> QED BY <1>10, <1>12, <1>13, <1>14 DEF IInv

LEMMA ViolatesKeeps == ASSUME IInv, NEW s \in Sessions, Violates(s) PROVE IInv'
<1> DEFINE e == Head(sess[s].todo)
<1>1. /\ sess[s].step = "insert" /\ ~Fits(e) /\ Counted(s, "skipped")
      /\ UNCHANGED <<rows, acked, cursor, fetched, late, faults>>
  BY DEF Violates, Working
<1>2. sess[s] # Idle /\ sess[s].todo # <<>> /\ HashOf[e] # NoHash
  BY <1>1, HeadType
<1>3. In(e, rows') \/ e \in Dangling
  BY <1>1, <1>2 DEF Fits, In
<1>4. BatchesOK'
  BY <1>1, <1>2, <1>3, CountedKeeps
<1> QED BY <1>1, <1>2, <1>4, CountedType, QuietKeeps DEF IInv, TypeOK

LEMMA FailsKeeps == ASSUME IInv, NEW s \in Sessions, Fails(s) PROVE IInv'
<1>1. /\ sess[s] # Idle /\ sess[s].todo # <<>> /\ Counted(s, "errors")
      /\ faults < MaxFaults /\ faults' = faults + 1
      /\ UNCHANGED <<rows, acked, cursor, fetched, late>>
  BY DEF Fails, Faulty
<1>2. faults' \in 0..MaxFaults
  BY <1>1, LimitAssumption DEF IInv, TypeOK
<1>3. BatchesOK'
  BY <1>1, CountedKeeps
<1> QED BY <1>1, <1>2, <1>3, CountedType, QuietKeeps

\* A session that is idle again.
LEMMA IdleKeeps ==
    ASSUME IInv, NEW s \in Sessions, sess' = [sess EXCEPT ![s] = Idle], UNCHANGED rows
    PROVE  BatchesOK' /\ sess' \in [Sessions -> {Idle} \cup Batch]
<1>1. \A t \in Sessions : sess'[t] = IF t = s THEN Idle ELSE sess[t]
  BY DEF IInv, TypeOK
<1>2. \A t \in Sessions : BatchOK(sess'[t], rows)
  BY <1>1 DEF IInv, BatchesOK, BatchOK
<1>3. BatchesOK'
  BY <1>2 DEF BatchesOK, BatchOK, Accounted, Suffix, Scoped, In
<1> QED BY <1>3 DEF IInv, TypeOK

LEMMA LostKeeps == ASSUME IInv, NEW s \in Sessions, Lost(s) PROVE IInv'
<1>1. /\ sess' = [sess EXCEPT ![s] = Idle] /\ faults < MaxFaults /\ faults' = faults + 1
      /\ UNCHANGED <<rows, acked, cursor, fetched, late>>
  BY DEF Lost, Faulty
<1>2. faults' \in 0..MaxFaults
  BY <1>1, LimitAssumption DEF IInv, TypeOK
<1> QED BY <1>1, <1>2, IdleKeeps, QuietKeeps

LEMMA AnsweredKeeps == ASSUME IInv, NEW s \in Sessions, Answered(s) PROVE IInv'
<1> DEFINE b == sess[s]
<1>1. /\ b # Idle /\ b.todo = <<>> /\ sess' = [sess EXCEPT ![s] = Idle]
      /\ acked' = IF b.counts["errors"] = 0 THEN acked \cup ToSet(b.batch) ELSE acked
      /\ UNCHANGED <<rows, cursor, fetched, late, faults>>
  BY DEF Answered
<1>2. b \in Batch /\ Accounted(b, rows)
  BY <1>1 DEF IInv, BatchesOK, BatchOK
<1>3. b.batch \in Seq(Events) /\ Len(b.todo) = 0
  BY <1>1, <1>2 DEF Batch
<1>4. ToSet(b.batch) \subseteq Events
  BY <1>3 DEF ToSet
<1>5. TypeOK'
  BY <1>1, <1>4, IdleKeeps DEF IInv, TypeOK
<1>6. AckedIsStored'
  <2> SUFFICES ASSUME NEW e \in acked', e \notin Dangling PROVE Stored(e)
    BY <1>1 DEF AckedIsStored, Stored
  <2>1. CASE e \in acked
    BY <2>1 DEF IInv, AckedIsStored
  <2>2. CASE e \notin acked
    <3>1. b.counts["errors"] = 0 /\ e \in ToSet(b.batch)
      BY <1>1, <2>2
    <3>2. PICK i \in 1..Len(b.batch) : b.batch[i] = e
      BY <1>3, <3>1 DEF ToSet
    <3>3. Len(b.batch) - Len(b.todo) = Len(b.batch)
      BY <1>3
    <3>4. In(b.batch[i], rows) \/ b.batch[i] \in Dangling
      BY <1>2, <3>1, <3>3 DEF Accounted
    <3> QED BY <3>2, <3>4 DEF In, Stored
  <2> QED BY <2>1, <2>2
<1> QED BY <1>1, <1>5, <1>6, IdleKeeps DEF IInv, RowsScoped, FetchedOK, NoGapBehindCursor

LEMMA DraftStampedKeeps ==
    ASSUME IInv, NEW h \in StampHashes, NEW t \in Tenants, DraftStamped(h, t) PROVE IInv'
<1> DEFINE w == [tenant |-> t, role |-> "operator"]
<1>1. h \in Hashes
  BY DEF Hashes
<1>2. PICK now \in Times : Stores(h, [company |-> t, time |-> now, writer |-> w])
  BY DEF DraftStamped
<1> DEFINE row == [company |-> t, time |-> now, writer |-> w]
<1>3. row \in Row /\ row.company = row.writer.tenant
  BY DEF Row, Context, Roles
<1>4. rows[h] = NoRow /\ Stores(h, row) /\ UNCHANGED sess
  BY <1>2 DEF DraftStamped
<1> HIDE DEF row
<1>5. /\ rows' \in [Hashes -> Row \cup {NoRow}] /\ late' \subseteq Hashes
      /\ \A g \in Hashes : rows[g] # NoRow => rows'[g] = rows[g]
      /\ RowsScoped' /\ FetchedOK' /\ NoGapBehindCursor'
  BY <1>1, <1>3, <1>4, StoresKeeps
<1>6. UNCHANGED <<acked, cursor, fetched, faults>>
  BY <1>4 DEF Stores
<1>7. \A s \in Sessions : BatchOK(sess[s], rows')
  BY <1>5, BatchOKMono DEF IInv, BatchesOK
<1>8. BatchesOK'
  BY <1>4, <1>7 DEF BatchesOK, BatchOK, Accounted, Suffix, Scoped, In
<1>9. AckedIsStored'
  BY <1>5, <1>6, AckedKeeps
<1>10. TypeOK'
  BY <1>4, <1>5, <1>6 DEF IInv, TypeOK
<1> QED BY <1>5, <1>8, <1>9, <1>10 DEF IInv

LEMMA PollKeeps == ASSUME IInv, Poll PROVE IInv'
<1>1. PICK p \in Pages : \E last \in p :
        /\ \A h \in p : rows[h].time <= rows[last].time
        /\ cursor' = rows[last].time
        /\ fetched' = fetched \cup p
        /\ UNCHANGED <<rows, sess, acked, late, faults>>
  BY DEF Poll
<1>2. PICK last \in p :
        /\ \A h \in p : rows[h].time <= rows[last].time
        /\ cursor' = rows[last].time
        /\ fetched' = fetched \cup p
        /\ UNCHANGED <<rows, sess, acked, late, faults>>
  BY <1>1
<1>3. p \subseteq Changes /\ \A h \in p, g \in Changes \ p : rows[h].time <= rows[g].time
  BY DEF Pages
<1>4. Changes \subseteq Hashes /\ \A h \in Changes : rows[h] \in Row /\ rows[h].company = Reader /\ rows[h] # NoRow
  BY DEF Changes, IInv, TypeOK
<1>5. cursor' \in Times
  BY <1>2, <1>3, <1>4 DEF Row
<1>6. TypeOK'
  BY <1>2, <1>3, <1>4, <1>5 DEF IInv, TypeOK
<1>7. FetchedOK'
  BY <1>2, <1>3, <1>4 DEF IInv, FetchedOK
<1>8. NoGapBehindCursor'
  <2> SUFFICES ASSUME NEW h \in Hashes, rows[h] # NoRow, rows[h].company = Reader,
                      rows[h].time < cursor'
               PROVE  h \in fetched' \cup late'
    BY <1>2 DEF NoGapBehindCursor
  <2>1. CASE rows[h].time < cursor
    BY <1>2, <2>1 DEF IInv, NoGapBehindCursor
  <2>2. CASE ~(rows[h].time < cursor)
    <3>1. rows[h].time \in Nat /\ cursor \in Nat /\ cursor' \in Nat
      <4>1. rows[h] \in Row
        BY DEF IInv, TypeOK
      <4>2. rows[h].time \in Times
        BY <4>1 DEF Row
      <4>4. Times \subseteq Nat
        BY EventsAssumption
      <4>5. rows[h].time \in Nat /\ cursor' \in Nat
        BY <1>5, <4>2, <4>4
      <4>6. cursor \in Nat
        BY CursorIsNat DEF IInv
      <4> QED BY <4>5, <4>6
    <3>2. h \in Changes
      BY <2>2, <3>1 DEF Changes, After
    <3>3. h \in p
      BY <1>2, <1>3, <3>1, <3>2
    <3> QED BY <1>2, <3>3
  <2> QED BY <2>1, <2>2
<1>9. BatchesOK'
  BY <1>2 DEF IInv, BatchesOK, BatchOK, Accounted, Suffix, Scoped, In
<1> QED BY <1>2, <1>6, <1>7, <1>8, <1>9 DEF IInv, AckedIsStored, Stored, RowsScoped

LEMMA NextIInv == IInv /\ [Next]_vars => IInv'
<1> SUFFICES ASSUME IInv, [Next]_vars PROVE IInv'
  OBVIOUS
<1>1. CASE UNCHANGED vars
  <2>1. BatchesOK'
    BY <1>1 DEF vars, IInv, BatchesOK, BatchOK, Accounted, Suffix, Scoped, In
  <2> QED BY <1>1, <2>1 DEF vars, IInv, TypeOK, AckedIsStored, Stored, RowsScoped, FetchedOK, NoGapBehindCursor
<1>2. CASE \E c \in Clients, s \in Sessions : Send(c, s)
  BY <1>2, SendKeeps
<1>3. ASSUME NEW s \in Sessions, Works(s) \/ Fails(s) \/ Lost(s) PROVE IInv'
  BY <1>3, LookupKeeps, InsertKeeps, ViolatesKeeps, AnsweredKeeps, FailsKeeps, LostKeeps DEF Works
<1>4. CASE \E h \in StampHashes, t \in Tenants : DraftStamped(h, t)
  BY <1>4, DraftStampedKeeps
<1>5. CASE Poll
  BY <1>5, PollKeeps
<1> QED BY <1>1, <1>2, <1>3, <1>4, <1>5 DEF Next

LEMMA Invariance == Spec => []IInv
BY InitIInv, NextIInv, PTL DEF Spec

\* Type correctness of the table, the batches at work and the reader.
THEOREM TypeCorrect == Spec => []TypeOK
<1>1. IInv => TypeOK
  BY DEF IInv
<1> QED BY <1>1, Invariance, PTL

\* For any batches, however many overlap, stop and are sent again, an event of a
\* batch that was answered without errors is stored, or dangles.
THEOREM AckedIsStoredThm == Spec => []AckedIsStored
<1>1. IInv => AckedIsStored
  BY DEF IInv
<1> QED BY <1>1, Invariance, PTL

\* Rows belong to the tenant of their writer, and the reader sees its own.
THEOREM TenantsApartThm == Spec => []TenantsApart
<1>1. IInv => TenantsApart
  BY DEF IInv, RowsScoped, FetchedOK, TenantsApart
<1> QED BY <1>1, Invariance, PTL

\* For any limit the pages leave no row behind the cursor that was there in time.
THEOREM NoGapBehindCursorThm == Spec => []NoGapBehindCursor
<1>1. IInv => NoGapBehindCursor
  BY DEF IInv
<1> QED BY <1>1, Invariance, PTL
=============================================================================
