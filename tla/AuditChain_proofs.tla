------------------------- MODULE AuditChain_proofs -------------------------
(* The audit chain for every set of calls and companies.                   *)
EXTENDS AuditChain, FiniteSetTheorems, TLAPS

\* A call between its read and its insert holds an entry of its own company
\* that is still there, or none.
Pending ==
    \A k \in Calls : pc[k] = "insert" =>
        \/ last[k] = NoEntry
        \/ \E q \in rows : /\ q.company = CompanyOf[k]
                           /\ q.seq = last[k].seq
                           /\ q.chain = last[k].chain

IInv == TypeOK /\ Pending /\ LinksToParent

\* What Append does to a hash.
LEMMA HashType ==
    ASSUME NEW h \in Hash, NEW x \in Contents
    PROVE  ChainHash(h, x) \in Hash
BY DEF Hash, ChainHash

LEMMA NoHashType == NoHash \in Hash
BY DEF Hash, NoHash

\* The row a call inserts.
LEMMA NewRowFields ==
    ASSUME TypeOK, NEW k \in Calls
    PROVE  /\ NewRow(k) \in Row
           /\ NewRow(k).company = CompanyOf[k]
           /\ NewRow(k).seq = last[k].seq + 1
           /\ NewRow(k).prev = last[k].chain
           /\ NewRow(k).chain = ChainHash(NewRow(k).prev, NewRow(k).contentHash)
<1>1. last[k].seq \in Nat /\ last[k].chain \in Hash
  BY DEF TypeOK, Entry
<1>2. ContentOf[k] \in Contents /\ CompanyOf[k] \in Companies
  BY CallsAssumption
<1>3. ChainHash(last[k].chain, ContentOf[k]) \in Hash
  BY <1>1, <1>2, HashType
<1> QED BY <1>1, <1>2, <1>3 DEF NewRow, NextSeq, Row

LEMMA InitIInv == Init => IInv
<1> SUFFICES ASSUME Init PROVE IInv
  OBVIOUS
<1>1. NoEntry \in Entry
  BY NoHashType DEF NoEntry, Entry
<1> QED BY <1>1 DEF Init, IInv, TypeOK, Pending, LinksToParent

LEMMA NextIInv == IInv /\ [Next]_vars => IInv'
<1> SUFFICES ASSUME IInv, [Next]_vars PROVE IInv'
  OBVIOUS
<1>1. CASE UNCHANGED vars
  BY <1>1 DEF vars, IInv, TypeOK, Pending, LinksToParent, Continues
<1>2. ASSUME NEW k \in Calls, ReadLast(k) PROVE IInv'
  <2>1. \/ last' = [last EXCEPT ![k] = NoEntry]
        \/ \E r \in rows : /\ r.company = CompanyOf[k]
                           /\ last' = [last EXCEPT ![k] = [seq |-> r.seq, chain |-> r.chain]]
    BY <1>2 DEF ReadLast, LastRows, RowsOf
  <2>2. NoEntry \in Entry /\ \A r \in rows : [seq |-> r.seq, chain |-> r.chain] \in Entry
    BY NoHashType DEF IInv, TypeOK, Row, NoEntry, Entry
  <2>3. TypeOK'
    BY <1>2, <2>1, <2>2 DEF ReadLast, IInv, TypeOK
  <2>4. Pending'
    BY <1>2, <2>1 DEF ReadLast, IInv, TypeOK, Pending
  <2>5. LinksToParent'
    BY <1>2 DEF ReadLast, IInv, LinksToParent, Continues
  <2> QED BY <2>3, <2>4, <2>5 DEF IInv
<1>3. ASSUME NEW k \in Calls, Insert(k) PROVE IInv'
  <2>0. PICK n : n = NewRow(k)
    OBVIOUS
  <2>1. n \in Row /\ n.company = CompanyOf[k] /\ n.seq = last[k].seq + 1
        /\ n.prev = last[k].chain /\ n.chain = ChainHash(n.prev, n.contentHash)
    BY <2>0, NewRowFields DEF IInv
  <2>2. TypeOK'
    BY <1>3, <2>0, <2>1 DEF Insert, IInv, TypeOK
  <2>3. Pending'
    BY <1>3 DEF Insert, IInv, TypeOK, Pending
  <2>4. Continues(n)'
    <3>1. CASE last[k] = NoEntry
      BY <2>1, <3>1 DEF NoEntry, Continues
    <3>2. CASE \E q \in rows : /\ q.company = CompanyOf[k]
                               /\ q.seq = last[k].seq /\ q.chain = last[k].chain
      BY <1>3, <2>1, <3>2 DEF Insert, Continues
    <3> QED BY <1>3, <3>1, <3>2 DEF Insert, IInv, Pending
  <2>5. \A r \in rows : Continues(r)'
    BY <1>3 DEF Insert, IInv, LinksToParent, Continues
  <2>6. LinksToParent'
    <3>1. rows' = rows \cup {n}
      BY <1>3, <2>0 DEF Insert
    <3>2. \A r \in rows : r.chain = ChainHash(r.prev, r.contentHash)
      BY DEF IInv, LinksToParent
    <3> QED BY <2>1, <2>4, <2>5, <3>1, <3>2 DEF LinksToParent
  <2> QED BY <2>2, <2>3, <2>6 DEF IInv
<1>4. ASSUME NEW k \in Calls, Abort(k) PROVE IInv'
  BY <1>4 DEF Abort, IInv, TypeOK, Pending, LinksToParent, Continues
<1> QED BY <1>1, <1>2, <1>3, <1>4 DEF Next

LEMMA Invariance == Spec => []IInv
BY InitIInv, NextIInv, PTL DEF Spec

\* Type correctness of the audit chain.
THEOREM TypeCorrect == Spec => []TypeOK
<1>1. IInv => TypeOK
  BY DEF IInv
<1> QED BY Invariance, <1>1, PTL

\* Any number of concurrent callers leave every entry linked to an entry of its
\* own company (create_audit_log).
THEOREM LinksToParentThm == Spec => []LinksToParent
<1>1. IInv => LinksToParent
  BY DEF IInv
<1> QED BY Invariance, <1>1, PTL

---------------------------------------------------------------------------
(* What forks a trail.                                                     *)

\* A row is named by the call that wrote it.
OwnRow == \A r \in rows : pc[r.id] = "ended"

\* The number that follows what a call has read is taken once it is overtaken:
\* whoever overtakes it has read an entry numbered no higher.
NextIsTaken ==
    \A k \in Calls : pc[k] = "insert" /\ Overtaken(k) =>
        \E r \in RowsOf(CompanyOf[k]) : r.seq = last[k].seq + 1

OInv == OwnRow /\ NextIsTaken

LEMMA InitOInv == Init => OInv
BY DEF Init, OInv, OwnRow, NextIsTaken

LEMMA NextOInv == IInv /\ OInv /\ [Next]_vars => OInv'
<1> SUFFICES ASSUME IInv, OInv, [Next]_vars PROVE OInv'
  OBVIOUS
<1>0. \A r \in rows : r.id \in Calls /\ r.seq \in Nat
  BY DEF IInv, TypeOK, Row
<1>1. CASE UNCHANGED vars
  BY <1>1 DEF vars, OInv, OwnRow, NextIsTaken, Overtaken, RowsOf
<1>2. ASSUME NEW k \in Calls, ReadLast(k) PROVE OInv'
  <2>1. UNCHANGED rows /\ pc' = [pc EXCEPT ![k] = "insert"] /\ pc[k] = "idle"
    BY <1>2 DEF ReadLast
  <2>2. OwnRow'
    BY <1>0, <2>1 DEF OInv, OwnRow, IInv, TypeOK
  <2>3. \A r \in RowsOf(CompanyOf[k]) : r.seq <= last'[k].seq
    BY <1>2 DEF ReadLast, LastRows, IInv, TypeOK
  <2>4. last'[k].seq \in Nat
    BY <1>0, <1>2 DEF ReadLast, LastRows, RowsOf, NoEntry, IInv, TypeOK
  <2>5. ~Overtaken(k)'
    BY <1>0, <2>1, <2>3, <2>4 DEF Overtaken, RowsOf
  <2>6. \A m \in Calls \ {k} : last'[m] = last[m] /\ pc'[m] = pc[m]
    BY <1>2 DEF ReadLast, IInv, TypeOK
  <2>7. NextIsTaken'
    BY <2>1, <2>5, <2>6 DEF OInv, NextIsTaken, Overtaken, RowsOf
  <2> QED BY <2>2, <2>7 DEF OInv
<1>3. ASSUME NEW k \in Calls, Insert(k) PROVE OInv'
  <2>0. PICK n : n = NewRow(k)
    OBVIOUS
  <2>1. /\ rows' = rows \cup {n} /\ UNCHANGED last /\ pc' = [pc EXCEPT ![k] = "ended"]
        /\ n.id = k /\ n.company = CompanyOf[k] /\ n.seq = last[k].seq + 1
        /\ pc[k] = "insert"
    BY <1>3, <2>0, NewRowFields DEF Insert, IInv, NewRow
  <2>2. OwnRow'
    BY <1>0, <2>1 DEF OInv, OwnRow, IInv, TypeOK
  <2>3. ASSUME NEW m \in Calls, pc'[m] = "insert", Overtaken(m)'
        PROVE  \E r \in RowsOf(CompanyOf[m])' : r.seq = last'[m].seq + 1
    <3>1. pc[m] = "insert" /\ RowsOf(CompanyOf[m]) \subseteq RowsOf(CompanyOf[m])'
      BY <2>1, <2>3 DEF RowsOf, IInv, TypeOK
    <3>2. CASE Overtaken(m)
      BY <2>1, <3>1, <3>2 DEF OInv, NextIsTaken
    <3>3. CASE ~Overtaken(m)
      <4>1. n \in RowsOf(CompanyOf[m])' /\ n.seq > last[m].seq
            /\ CompanyOf[m] = CompanyOf[k]
        BY <2>1, <2>3, <3>3 DEF Overtaken, RowsOf
      <4>2. last[k].seq \in Nat /\ last[m].seq \in Nat
        BY DEF IInv, TypeOK, Entry
      <4>3. last[k].seq <= last[m].seq
        <5>1. CASE last[k] = NoEntry
          BY <4>2, <5>1 DEF NoEntry
        <5>2. CASE \E q \in rows : q.company = CompanyOf[k] /\ q.seq = last[k].seq
          BY <1>0, <3>3, <4>1, <4>2, <5>2 DEF Overtaken, RowsOf
        <5> QED BY <2>1, <5>1, <5>2 DEF IInv, Pending
      <4>4. n.seq = last[m].seq + 1
        BY <2>1, <4>1, <4>2, <4>3
      <4> QED BY <2>1, <4>1, <4>4
    <3> QED BY <3>2, <3>3
  <2> QED BY <2>2, <2>3 DEF OInv, NextIsTaken
<1>4. ASSUME NEW k \in Calls, Abort(k) PROVE OInv'
  <2>1. UNCHANGED <<rows, last>> /\ pc' = [pc EXCEPT ![k] = "ended"]
    BY <1>4 DEF Abort
  <2> QED BY <1>0, <2>1 DEF OInv, OwnRow, NextIsTaken, Overtaken, RowsOf, IInv, TypeOK
<1> QED BY <1>1, <1>2, <1>3, <1>4 DEF Next

\* A step forks the trail of c exactly by inserting an overtaken entry.
LEMMA StepForks ==
    ASSUME IInv, OInv, Next, NEW c \in Companies
    PROVE  Fork(c)' <=> Fork(c) \/ MadeByOvertaken(c)
<1>1. ASSUME NEW k \in Calls, Insert(k)
      PROVE  /\ rows' = rows \cup {NewRow(k)}
             /\ NewRow(k) \notin rows
             /\ NewRow(k).company = CompanyOf[k]
             /\ NewRow(k).seq = last[k].seq + 1
             /\ last[k].seq \in Nat
  <2>1. NewRow(k).id = k /\ pc[k] = "insert"
    BY <1>1 DEF NewRow, Insert
  <2> QED BY <1>1, <2>1, NewRowFields DEF Insert, IInv, TypeOK, Entry, OInv, OwnRow
<1>2. rows \subseteq rows'
  BY DEF Next, ReadLast, Insert, Abort
<1>3. Fork(c) => Fork(c)'
  BY <1>2 DEF Fork, RowsOf
<1>4. ASSUME MadeByOvertaken(c) PROVE Fork(c)'
  <2>1. PICK k \in Calls : CompanyOf[k] = c /\ Overtaken(k) /\ Insert(k)
    BY <1>4 DEF MadeByOvertaken
  <2>2. PICK r \in RowsOf(c) : r.seq = last[k].seq + 1
    BY <2>1 DEF Insert, OInv, NextIsTaken
  <2> QED BY <1>1, <2>1, <2>2 DEF Fork, RowsOf
<1>5. ASSUME Fork(c)', ~Fork(c) PROVE MadeByOvertaken(c)
  <2>1. PICK k \in Calls : Insert(k)
    BY <1>5 DEF Next, ReadLast, Abort, Fork, RowsOf
  <2>2. PICK q \in rows : q.company = c /\ NewRow(k).company = c
                         /\ q.seq = NewRow(k).seq
    BY <1>1, <1>5, <2>1 DEF Fork, RowsOf
  <2>3. CompanyOf[k] = c /\ q.seq > last[k].seq
    BY <1>1, <2>1, <2>2
  <2> QED BY <2>1, <2>2, <2>3 DEF MadeByOvertaken, Overtaken, RowsOf
<1> QED BY <1>3, <1>4, <1>5

\* For any number of concurrent callers, the trail of a company forks exactly at
\* the insert of an entry that was overtaken since it read the last one
\* (get_last_audit_log and the commit of create_audit_log).
THEOREM ForksFromOvertakingThm == Spec => ForksFromOvertaking
<1>1. IInv /\ OInv /\ [Next]_vars =>
          [\A c \in Companies : Fork(c)' <=> Fork(c) \/ MadeByOvertaken(c)]_vars
  BY StepForks
<1>2. Spec => []OInv
  BY InitOInv, NextOInv, Invariance, PTL DEF Spec
<1> QED BY <1>1, <1>2, Invariance, PTL DEF Spec, ForksFromOvertaking

---------------------------------------------------------------------------
(* The verification.                                                       *)

\* Rows are finitely many and numbered by the length of the chain they cover;
\* so is what a writer has read.
VInv ==
    /\ IsFiniteSet(rows)
    /\ \A r \in rows : r.contentHash = r.content /\ r.seq = Len(r.chain)
    /\ \A k \in Calls : last[k].seq = Len(last[k].chain)

LEMMA InitVInv == Init => VInv
BY FS_EmptySet DEF Init, VInv, NoEntry, NoHash

\* Appending to a hash makes it longer by one.
LEMMA HashLength ==
    ASSUME NEW h \in Hash, NEW x \in Contents
    PROVE  Len(ChainHash(h, x)) = Len(h) + 1
BY DEF Hash, ChainHash

LEMMA NextVInv == IInv /\ VInv /\ [Next]_vars => VInv'
<1> SUFFICES ASSUME IInv, VInv, [Next]_vars PROVE VInv'
  OBVIOUS
<1>1. CASE UNCHANGED vars
  BY <1>1 DEF vars, VInv
<1>2. ASSUME NEW k \in Calls, ReadLast(k) PROVE VInv'
  <2>1. \/ last' = [last EXCEPT ![k] = NoEntry]
        \/ \E r \in rows : last' = [last EXCEPT ![k] = [seq |-> r.seq, chain |-> r.chain]]
    BY <1>2 DEF ReadLast, LastRows, RowsOf
  <2>2. \A m \in Calls : last'[m].seq = Len(last'[m].chain)
    BY <2>1 DEF VInv, IInv, TypeOK, NoEntry, NoHash
  <2> QED BY <1>2, <2>2 DEF ReadLast, VInv
<1>3. ASSUME NEW k \in Calls, Insert(k) PROVE VInv'
  <2>0. PICK n : n = NewRow(k)
    OBVIOUS
  <2>1. rows' = rows \cup {n} /\ UNCHANGED last
    BY <1>3, <2>0 DEF Insert
  <2>2. n.contentHash = n.content
    BY <2>0 DEF NewRow
  <2>3. n.seq = Len(n.chain)
    <3>1. last[k].chain \in Hash /\ ContentOf[k] \in Contents
      BY CallsAssumption DEF IInv, TypeOK, Entry
    <3>2. n.seq = last[k].seq + 1 /\ n.chain = ChainHash(last[k].chain, ContentOf[k])
      BY <2>0 DEF NewRow, NextSeq
    <3> QED BY <3>1, <3>2, HashLength DEF VInv
  <2>4. IsFiniteSet(rows')
    BY <2>1, FS_AddElement DEF VInv
  <2> QED BY <2>1, <2>2, <2>3, <2>4 DEF VInv
<1>4. ASSUME NEW k \in Calls, Abort(k) PROVE VInv'
  BY <1>4 DEF Abort, VInv
<1> QED BY <1>1, <1>2, <1>3, <1>4 DEF Next

\* An order of the rows of a company lists every one of them.
LEMMA OrderListsAll ==
    ASSUME VInv, NEW c, NEW f \in Orders(c)
    PROVE  /\ Cardinality(RowsOf(c)) \in Nat
           /\ f \in [1..Cardinality(RowsOf(c)) -> RowsOf(c)]
           /\ \A r \in RowsOf(c) : \E i \in 1..Cardinality(RowsOf(c)) : f[i] = r
<1> DEFINE n == Cardinality(RowsOf(c))
<1>1. IsFiniteSet(RowsOf(c)) /\ n \in Nat
  BY FS_Subset, FS_CardinalityType DEF VInv, RowsOf
<1>2. f \in [1..n -> RowsOf(c)] /\ \A i, k \in 1..n : i < k => f[i] # f[k]
  BY DEF Orders
<1>3. f \in Injection(1..n, RowsOf(c))
  <2>1. \A i, k \in 1..n : f[i] = f[k] => i = k
    <3> SUFFICES ASSUME NEW i \in 1..n, NEW k \in 1..n, f[i] = f[k], i # k PROVE FALSE
      OBVIOUS
    <3>1. i < k \/ k < i
      BY <1>1
    <3> QED BY <1>2, <3>1
  <2> QED BY <1>2, <2>1 DEF Injection, IsInjective
<1>4. Cardinality(1..n) = n
  <2>1. IF 1 > n THEN n = 0 ELSE n - 1 + 1 = n
    BY <1>1
  <2>2. Cardinality(1..n) = IF 1 > n THEN 0 ELSE n - 1 + 1
    BY <1>1, FS_Interval
  <2> QED BY <2>1, <2>2
<1>5. f \in Surjection(1..n, RowsOf(c))
  BY <1>1, <1>3, <1>4, FS_Injection
<1> QED BY <1>1, <1>2, <1>5 DEF Surjection

\* A verified list is numbered without repetition: each entry covers one
\* content more than the one before it.
LEMMA VerifiedHasNoFork ==
    ASSUME IInv, VInv, NEW c \in Companies, NEW f \in Orders(c), Verify(f)
    PROVE  ~Fork(c)
<1> DEFINE n == Cardinality(RowsOf(c))
<1>1. n \in Nat /\ f \in [1..n -> RowsOf(c)]
  BY OrderListsAll
<1>2. \A i \in 1..n : f[i] \in Row /\ f[i] \in rows
  BY <1>1 DEF RowsOf, IInv, TypeOK
<1>3. \A i, k \in 1..n : i < k => f[i].seq <= f[k].seq
  BY <1>1 DEF Orders
<1>4. \A k \in 1..n : 1 < k => f[k].seq = f[k - 1].seq + 1
  <2> SUFFICES ASSUME NEW k \in 1..n, 1 < k PROVE f[k].seq = f[k - 1].seq + 1
    OBVIOUS
  <2>1. k - 1 \in 1..n
    BY <1>1
  <2>2. f[k].chain = ChainHash(f[k - 1].chain, f[k].contentHash)
    BY <1>1 DEF Verify
  <2>3. f[k].seq = Len(f[k].chain) /\ f[k - 1].seq = Len(f[k - 1].chain)
    BY <1>2, <2>1 DEF VInv
  <2>4. f[k - 1].chain \in Hash /\ f[k].contentHash \in Contents
    BY <1>2, <2>1 DEF Row
  <2> QED BY <2>2, <2>3, <2>4, HashLength
<1>5. \A i, k \in 1..n : i < k => f[i].seq < f[k].seq
  <2> SUFFICES ASSUME NEW i \in 1..n, NEW k \in 1..n, i < k PROVE f[i].seq < f[k].seq
    OBVIOUS
  <2>1. k - 1 \in 1..n /\ 1 < k /\ (i = k - 1 \/ i < k - 1)
    BY <1>1
  <2>2. f[k].seq = f[k - 1].seq + 1
    BY <1>4, <2>1
  <2>3. f[i].seq <= f[k - 1].seq
    <3>1. CASE i = k - 1
      BY <1>2, <3>1 DEF Row
    <3>2. CASE i < k - 1
      BY <1>3, <2>1, <3>2
    <3> QED BY <2>1, <3>1, <3>2
  <2>4. f[i].seq \in Nat /\ f[k - 1].seq \in Nat
    BY <1>2, <2>1 DEF Row
  <2> QED BY <2>2, <2>3, <2>4
<1>6. SUFFICES ASSUME NEW r \in RowsOf(c), NEW q \in RowsOf(c), r # q, r.seq = q.seq
               PROVE  FALSE
  BY DEF Fork
<1>7. PICK i \in 1..n, k \in 1..n : f[i] = r /\ f[k] = q
  BY OrderListsAll
<1>8. i < k \/ k < i
  BY <1>1, <1>6, <1>7
<1>9. r.seq \in Nat
  BY <1>2, <1>7 DEF Row
<1> QED BY <1>5, <1>6, <1>7, <1>8, <1>9

\* Without a fork the entry before f[i] is the parent of f[i].
LEMMA NoForkIsVerified ==
    ASSUME IInv, VInv, NEW c \in Companies, NEW f \in Orders(c), ~Fork(c)
    PROVE  Verify(f)
<1> DEFINE n == Cardinality(RowsOf(c))
<1>1. n \in Nat /\ f \in [1..n -> RowsOf(c)]
  BY OrderListsAll
<1>2. \A i \in 1..n : f[i] \in rows /\ f[i].company = c /\ f[i].seq \in Nat \ {0}
  BY <1>1 DEF RowsOf, IInv, TypeOK, Row
<1>3. \A i, k \in 1..n : i < k => f[i].seq < f[k].seq
  <2> SUFFICES ASSUME NEW i \in 1..n, NEW k \in 1..n, i < k PROVE f[i].seq < f[k].seq
    OBVIOUS
  <2>1. f[i] # f[k] /\ f[i].seq <= f[k].seq
    BY <1>1 DEF Orders
  <2>2. f[i].seq # f[k].seq
    BY <1>1, <2>1 DEF Fork
  <2> QED BY <1>2, <2>1, <2>2
<1>4. \A i \in 1..n : f[i].prev = IF i = 1 THEN NoHash ELSE f[i - 1].chain
  <2> SUFFICES ASSUME NEW i \in 1..n
               PROVE  f[i].prev = IF i = 1 THEN NoHash ELSE f[i - 1].chain
    OBVIOUS
  <2>1. CASE f[i].seq = 1 /\ f[i].prev = NoHash
    <3>1. i # 1 => FALSE
      <4> SUFFICES ASSUME i # 1 PROVE FALSE
        OBVIOUS
      <4>1. 1 \in 1..n /\ 1 < i
        BY <1>1
      <4>2. f[1].seq < f[i].seq /\ f[1].seq \in Nat \ {0}
        BY <1>2, <1>3, <4>1
      <4> QED BY <2>1, <4>2
    <3> QED BY <2>1, <3>1
  <2>2. CASE \E q \in rows : /\ q.company = f[i].company
                             /\ q.seq + 1 = f[i].seq
                             /\ q.chain = f[i].prev
    <3>1. PICK q \in RowsOf(c) : q.seq + 1 = f[i].seq /\ q.chain = f[i].prev
      BY <1>2, <2>2 DEF RowsOf
    <3>2. PICK j \in 1..n : f[j] = q
      BY OrderListsAll
    <3>3. f[j].seq \in Nat /\ f[i].seq \in Nat /\ f[j].seq + 1 = f[i].seq
      BY <1>2, <3>1, <3>2
    <3>4. ~(i < j) /\ i # j
      BY <1>3, <3>3
    <3>5. j < i /\ i - 1 \in 1..n /\ i # 1 /\ (j = i - 1 \/ (j < i - 1 /\ i - 1 < i))
      BY <1>1, <3>4
    <3>6. ~(j < i - 1)
      <4> SUFFICES ASSUME j < i - 1 PROVE FALSE
        OBVIOUS
      <4>1. f[j].seq < f[i - 1].seq /\ f[i - 1].seq < f[i].seq
        BY <1>3, <3>5
      <4>2. f[i - 1].seq \in Nat
        BY <1>2, <3>5
      <4> QED BY <3>3, <4>1, <4>2
    <3> QED BY <3>1, <3>2, <3>5, <3>6
  <2> QED BY <1>2, <2>1, <2>2 DEF IInv, LinksToParent, Continues
<1>5. \A i \in 1..n : f[i].contentHash = f[i].content
  BY <1>2 DEF VInv
<1>6. \A i \in 1..n : f[i].chain = ChainHash(f[i].prev, f[i].contentHash)
  BY <1>2 DEF IInv, LinksToParent
<1> QED BY <1>1, <1>4, <1>5, <1>6 DEF Verify

\* For any number of concurrent callers, verify_audit_chain fails exactly on a
\* fork and does not depend on how the database orders equal numbers.
THEOREM VerifyFindsForksThm == Spec => []VerifyFindsForks
<1>1. IInv /\ VInv => VerifyFindsForks
  BY VerifiedHasNoFork, NoForkIsVerified DEF VerifyFindsForks
<1>2. Spec => []VInv
  BY InitVInv, NextVInv, Invariance, PTL DEF Spec
<1> QED BY <1>1, <1>2, Invariance, PTL
============================================================================
