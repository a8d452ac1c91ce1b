------------------------- MODULE AuditTrail_proofs -------------------------
(***************************************************************************)
(* Proofs about the audit log, for any number of processes, keys, values   *)
(* and rows.                                                               *)
(***************************************************************************)
EXTENDS AuditTrail, SequenceTheorems, WellFoundedInduction, TLAPS

-----------------------------------------------------------------------------
(* Lemmas about rows and sequences *)

\* A nonempty set of row ids below a bound has a greatest element.
LEMMA GreatestId ==
    ASSUME NEW n \in Nat, NEW S \in SUBSET (1..n), S # {}
    PROVE  \E m \in S : \A k \in S : k <= m
<1> DEFINE T == {d \in 0..n : n - d \in S}
           R == OpToRel(<, Nat)
<1>1. T \subseteq Nat /\ T # {}
  <2>. HIDE DEF R
  <2>1. PICK s \in S : TRUE
    OBVIOUS
  <2>2. n - s \in 0..n /\ n - (n - s) = s
    OBVIOUS
  <2>3. n - s \in T
    BY <2>1, <2>2
  <2>4. T \subseteq Nat
    OBVIOUS
  <2>. QED  BY <2>3, <2>4
<1>2. PICK x \in T : \A y \in T : <<y, x>> \notin R
  <2>. HIDE DEF T, R
  <2>. QED  BY <1>1, NatLessThanWellFounded, WFMin DEF R
<1>3. \A y \in T : ~(y < x)
  BY <1>1, <1>2 DEF OpToRel
<1>4. \A k \in S : k <= n - x
  <2>. TAKE k \in S
  <2>1. n - k \in T
    OBVIOUS
  <2>. QED  BY <2>1, <1>3
<1>. QED  BY <1>4

\* The type of a stamped row determines the type of the row inserted for it.
LEMMA DraftHash ==
    ASSUME NEW d \in Draft
    PROVE  /\ RowDataHash(d) \in Hash
           /\ \A root \in Seq(Hash) :
                 [op |-> d.op, key |-> d.key, ts |-> d.ts, before |-> d.before, after |-> d.after,
                  hash |-> RowDataHash(d), root |-> root] \in Row
BY DEF Draft, Row, Hash, PlainHash, RowDataHash, Receipt

\* Emptying a plain row takes its values and nothing else.
LEMMA EmptiedRow ==
    ASSUME NEW r \in Row, r.op # "purge"
    PROVE  LET e == WithoutValues(r)
           IN  /\ e \in Row
               /\ e.op = r.op /\ e.hash = r.hash /\ e.root = r.root
               /\ Emptied(e)
BY DEF Row, Cell, WithoutValues, Emptied

LEMMA HeadRootType ==
    ASSUME NEW rs \in Seq(Row)
    PROVE  HeadRoot(rs) \in Seq(Hash)
<1>1. \A r \in Row : r.root \in Seq(Hash)
  BY DEF Row
<1>2. CASE rs = << >>
  BY <1>2 DEF HeadRoot, Genesis
<1>3. CASE rs # << >>
  <2>1. rs[Len(rs)] \in Row
    BY <1>3, ElementOfSeq, EmptySeq
  <2>. QED  BY <2>1, <1>1, <1>3 DEF HeadRoot
<1>. QED  BY <1>2, <1>3

-----------------------------------------------------------------------------
(* Type correctness *)

\* Every reachable state is well typed: one stamped row per process, receipts
\* that list plain rows only, roots that are sequences of data hashes.
THEOREM TypeCorrect == Spec => []TypeOK
<1>1. Init => TypeOK
  BY BoundAssumption, EmptySeq DEF Init, TypeOK, Clock, Genesis
<1>2. TypeOK /\ [Next]_vars => TypeOK'
  <2>. SUFFICES ASSUME TypeOK, [Next]_vars  PROVE TypeOK'
    OBVIOUS
  <2>. USE DEF TypeOK
  <2>0. \A i \in DOMAIN rows : rows[i] \in Row
    BY ElementOfSeq, LenProperties
  <2>1. ASSUME NEW p \in Procs, NEW op \in Ops, NEW k \in Keys, NEW before \in Cell,
               NEW after \in Cell, LogStamp(p, op, k, before, after)
        PROVE  TypeOK'
    <3>1. [op |-> op, key |-> k, ts |-> clock, before |-> before, after |-> after] \in Draft
      BY DEF Draft
    <3>. QED  BY <2>1, <3>1 DEF LogStamp
  <2>2. ASSUME NEW p \in Procs, LogInsert(p)  PROVE TypeOK'
    <3>1. PICK d \in pending[p] : LogInsert(p)!(d)
      BY <2>2 DEF LogInsert
    <3>2. d \in Draft
      OBVIOUS
    <3>3. Append(PrevRoot(p), RowDataHash(d)) \in Seq(Hash)
      BY <3>2, DraftHash, HeadRootType, AppendProperties DEF PrevRoot
    <3>4. rows' \in Seq(Row) /\ Len(rows') <= MaxRows
      <4>1. [op |-> d.op, key |-> d.key, ts |-> d.ts, before |-> d.before, after |-> d.after,
             hash |-> RowDataHash(d), root |-> Append(PrevRoot(p), RowDataHash(d))] \in Row
        BY <3>2, <3>3, DraftHash
      <4>. QED  BY <4>1, <3>1, BoundAssumption, AppendProperties
    <3>5. cachedRoot' \in [Procs -> Seq(Hash)] /\ pending' \in [Procs -> SUBSET Draft]
      BY <3>1, <3>3
    <3>6. condemned' \in [Procs -> SUBSET {i \in DOMAIN rows' : rows'[i].op # "purge"}]
      <4>1. \A i \in DOMAIN rows : i \in DOMAIN rows' /\ rows'[i] = rows[i]
        BY <3>1, AppendProperties, LenProperties
      <4>. QED  BY <3>1, <4>1
    <3>. QED  BY <3>1, <3>4, <3>5, <3>6
  <2>3. ASSUME NEW p \in Procs, LogFail(p)  PROVE TypeOK'
    BY <2>3 DEF LogFail
  <2>4. ASSUME NEW p \in Procs, NEW k \in Keys, PurgeSelect(p, k)  PROVE TypeOK'
    <3>1. Purgeable(k) \subseteq 1..MaxRows
      BY BoundAssumption, LenProperties DEF Purgeable
    <3>5. Purgeable(k) \subseteq {i \in DOMAIN rows : rows[i].op # "purge"}
      BY DEF Purgeable
    <3>2. \A i \in Purgeable(k) : rows[i].hash \in PlainHash
      <4>. TAKE i \in Purgeable(k)
      <4>1. rows[i] \in Row /\ rows[i].op # "purge"
        BY ElementOfSeq, LenProperties DEF Purgeable
      <4>. QED  BY <4>1 DEF Row
    <3>3. {[id |-> i, hash |-> rows[i].hash] : i \in Purgeable(k)} \in Receipt
      BY <3>1, <3>2 DEF Receipt, Item
    <3>4. [op |-> "purge", key |-> k, ts |-> clock, before |-> None,
           after |-> {[id |-> i, hash |-> rows[i].hash] : i \in Purgeable(k)}] \in Draft
      BY <3>3 DEF Draft
    <3>. QED  BY <2>4, <3>5, <3>4 DEF PurgeSelect
  <2>5. ASSUME NEW p \in Procs, PurgeEmpty(p)  PROVE TypeOK'
    <3>1. \A i \in DOMAIN rows : rows'[i] \in Row /\ rows'[i].op = rows[i].op
      BY <2>0, <2>5, EmptiedRow DEF PurgeEmpty
    <3>2. rows' \in Seq(Row) /\ Len(rows') = Len(rows) /\ DOMAIN rows' = DOMAIN rows
      BY <2>5, <3>1, LenProperties DEF PurgeEmpty
    <3>. QED  BY <2>5, <3>1, <3>2 DEF PurgeEmpty
  <2>6. ASSUME NEW p \in Procs, RefreshRootHash(p)  PROVE TypeOK'
    BY <2>6, HeadRootType DEF RefreshRootHash
  <2>7. ASSUME NEW p \in Procs, Restart(p)  PROVE TypeOK'
    BY <2>7, HeadRootType DEF Restart
  <2>8. CASE Tick
    BY <2>8, BoundAssumption DEF Tick, Clock
  <2>9. CASE UNCHANGED vars
    BY <2>9 DEF vars
  <2>. QED  BY <2>1, <2>2, <2>3, <2>4, <2>5, <2>6, <2>7, <2>8, <2>9 DEF Next
<1>. QED  BY <1>1, <1>2, PTL DEF Spec

-----------------------------------------------------------------------------
(* The inductive invariant behind ChainVerifies *)

\* Every row is chained to the row before it.
Linked ==
    \A i \in DOMAIN rows : rows[i].root = Append(RootBefore(rows, i), rows[i].hash)

\* A list of rows, in a receipt or in one being drawn up, names rows that are
\* older than position n by the hash they really have.
TrueList(rs, list, n) ==
    \A item \in list : item.id \in DOMAIN rs /\ item.id < n /\ item.hash = rs[item.id].hash

ReceiptsTrue ==
    /\ \A j \in DOMAIN rows : rows[j].op = "purge" => TrueList(rows, rows[j].after, j)
    /\ \A p \in Procs : \A d \in pending[p] :
          d.op = "purge" => TrueList(rows, d.after, Len(rows) + 1)

NamedLater(rs, i) == \E j \in DOMAIN rs : j > i /\ Names(rs[j], i)

\* What a running purge will empty is listed in its receipt, in the log
\* already or still to be inserted.
CondemnedNamed ==
    \A p \in Procs : \A i \in condemned[p] :
        /\ pending[p] = {} => NamedLater(rows, i)
        /\ \A d \in pending[p] : Names(d, i)

\* A row that no longer hashes to its data hash was emptied by a purge.
HashesTrue ==
    \A i \in DOMAIN rows :
        \/ rows[i].hash = RowDataHash(rows[i])
        \/ Emptied(rows[i]) /\ NamedLater(rows, i)

IInv ==
    /\ TypeOK
    /\ Linked
    /\ ReceiptsTrue
    /\ CondemnedNamed
    /\ HashesTrue
    /\ CachedRootOnChain

\* A row named by true receipts alone is named by the newest of them.
LEMMA NamedIsReceipted ==
    ASSUME rows \in Seq(Row), ReceiptsTrue, NEW i \in DOMAIN rows, NamedLater(rows, i)
    PROVE  Receipted(rows, i)
<1> DEFINE S == {j \in DOMAIN rows : Names(rows[j], i)}
<1>1. S \in SUBSET (1..Len(rows)) /\ S # {} /\ Len(rows) \in Nat
  BY LenProperties DEF NamedLater
<1>2. PICK j \in S : \A k \in S : k <= j
  <2>. HIDE DEF S
  <2>. QED  BY <1>1, GreatestId
<1>3. PICK item \in rows[j].after : item.id = i
  BY DEF Names
<1>4. item.hash = rows[i].hash /\ j > i
  BY <1>2, <1>3, LenProperties DEF ReceiptsTrue, TrueList, Names
<1>5. [id |-> i, hash |-> rows[i].hash] = item
  <2>1. rows[j] \in Row /\ rows[j].op = "purge"
    BY ElementOfSeq, LenProperties DEF Names
  <2>2. rows[j].after \in Receipt
    BY <2>1, OpsAssumption DEF Row
  <2>. QED  BY <2>2, <1>3, <1>4 DEF Receipt, Item
<1>6. \A k \in DOMAIN rows : k > j => ~Names(rows[k], i)
  BY <1>2, LenProperties
<1>. QED  BY <1>3, <1>4, <1>5, <1>6 DEF Receipted, Names

\* The inductive invariant implies what the program promises.
LEMMA InvImpliesVerifies == IInv => ChainVerifies
<1>. SUFFICES ASSUME IInv, NEW i \in DOMAIN rows
             PROVE  /\ rows[i].hash = ExpectedDataHash(rows, i)
                    /\ rows[i].root = Append(RootBefore(rows, i), ExpectedDataHash(rows, i))
  BY DEF ChainVerifies, VerifyChain
<1>1. rows[i].hash = ExpectedDataHash(rows, i)
  <2>1. CASE rows[i].hash = RowDataHash(rows[i])
    BY <2>1 DEF ExpectedDataHash
  <2>2. CASE Emptied(rows[i]) /\ NamedLater(rows, i)
    <3>1. Receipted(rows, i)
      BY <2>2, NamedIsReceipted DEF IInv, TypeOK
    <3>. QED  BY <3>1, <2>2 DEF ExpectedDataHash
  <2>. QED  BY <2>1, <2>2 DEF IInv, HashesTrue
<1>. QED  BY <1>1 DEF IInv, Linked

\* The inductive invariant holds initially and no step breaks it.
LEMMA InvInit == Init => IInv
BY BoundAssumption, EmptySeq
   DEF Init, IInv, TypeOK, Clock, Genesis, Linked, ReceiptsTrue, CondemnedNamed, HashesTrue, CachedRootOnChain

\* Appending a stamped row keeps every row before it and chains the new one.
LEMMA InsertInv ==
    ASSUME IInv, TypeOK', NEW p \in Procs, LogInsert(p)
    PROVE  IInv'
<1>1. PICK d \in pending[p] : LogInsert(p)!(d)
  BY DEF LogInsert
<1> DEFINE n    == Len(rows) + 1
           root == Append(HeadRoot(rows), RowDataHash(d))
           new  == [op |-> d.op, key |-> d.key, ts |-> d.ts, before |-> d.before,
                    after |-> d.after, hash |-> RowDataHash(d), root |-> root]
<1>2. /\ Len(rows) \in Nat /\ DOMAIN rows = 1..Len(rows) /\ DOMAIN rows' = 1..n
      /\ \A i \in DOMAIN rows : rows'[i] = rows[i]
      /\ rows'[n] = new
      /\ cachedRoot' = [cachedRoot EXCEPT ![p] = root]
      /\ pending' = [pending EXCEPT ![p] = {}]
      /\ condemned' = condemned
  <2>1. rows \in Seq(Row) /\ rows' \in Seq(Row) /\ rows' = Append(rows, new)
    BY <1>1 DEF IInv, TypeOK, PrevRoot
  <2>. QED  BY <1>1, <2>1, AppendProperties, LenProperties DEF PrevRoot
<1>3. /\ RowDataHash(new) = RowDataHash(d) /\ new.hash = RowDataHash(d) /\ new.root = root
      /\ new.op = d.op /\ new.after = d.after
  BY DEF RowDataHash
<1>t. pending \in [Procs -> SUBSET Draft] /\ cachedRoot \in [Procs -> Seq(Hash)]
  BY DEF IInv, TypeOK
<1>. HIDE DEF new
<1>4. Linked'
  <2>1. \A i \in DOMAIN rows : rows'[i].root = Append(RootBefore(rows', i), rows'[i].hash)
    BY <1>2 DEF IInv, Linked, RootBefore
  <2>2. RootBefore(rows', n) = HeadRoot(rows)
    BY <1>2 DEF RootBefore, HeadRoot
  <2>. QED  BY <1>2, <1>3, <2>1, <2>2 DEF Linked
<1>5. ReceiptsTrue'
  <2>1. \A list, m : TrueList(rows, list, m) => TrueList(rows', list, m)
    BY <1>2 DEF TrueList
  <2>2. \A list : TrueList(rows, list, n) => TrueList(rows', list, n + 1)
    BY <1>2 DEF TrueList
  <2>3. \A j \in DOMAIN rows' : rows'[j].op = "purge" => TrueList(rows', rows'[j].after, j)
    <3>1. d.op = "purge" => TrueList(rows, d.after, n)
      BY DEF IInv, ReceiptsTrue
    <3>. QED  BY <1>2, <1>3, <2>1, <3>1 DEF IInv, ReceiptsTrue
  <2>4. \A q \in Procs : \A e \in pending'[q] :
           e.op = "purge" => TrueList(rows', e.after, Len(rows') + 1)
    <3>1. Len(rows') = n
      BY <1>2 DEF TypeOK
    <3>2. \A q \in Procs : pending'[q] \subseteq pending[q]
      BY <1>2, <1>t
    <3>. QED  BY <2>2, <3>1, <3>2 DEF IInv, ReceiptsTrue
  <2>. QED  BY <2>3, <2>4 DEF ReceiptsTrue
<1>6. \A i \in DOMAIN rows : NamedLater(rows, i) => NamedLater(rows', i)
  BY <1>2 DEF NamedLater, Names
<1>7. CondemnedNamed'
  <2>. SUFFICES ASSUME NEW q \in Procs, NEW i \in condemned[q]
                PROVE  /\ pending'[q] = {} => NamedLater(rows', i)
                       /\ \A e \in pending'[q] : Names(e, i)
    BY <1>2 DEF CondemnedNamed, Names
  <2>1. i \in DOMAIN rows
    BY DEF IInv, TypeOK
  <2>2. CASE q # p
    BY <1>2, <1>6, <1>t, <2>1, <2>2 DEF IInv, CondemnedNamed
  <2>3. CASE q = p
    <3>1. Names(d, i)
      BY <2>3 DEF IInv, CondemnedNamed
    <3>2. Names(rows'[n], i)
      BY <3>1, <1>2, <1>3 DEF Names
    <3>3. NamedLater(rows', i)
      BY <3>2, <2>1, <1>2 DEF NamedLater
    <3>. QED  BY <3>3, <2>3, <1>2, <1>t
  <2>. QED  BY <2>2, <2>3
<1>8. HashesTrue'
  <2>1. ASSUME NEW i \in DOMAIN rows
        PROVE  \/ rows'[i].hash = RowDataHash(rows'[i])
               \/ Emptied(rows'[i]) /\ NamedLater(rows', i)
    BY <1>2, <1>6 DEF IInv, HashesTrue
  <2>2. rows'[n].hash = RowDataHash(rows'[n])
    BY <1>2, <1>3
  <2>. QED  BY <1>2, <2>1, <2>2 DEF HashesTrue, RowDataHash, Emptied, NamedLater, Names
<1>9. CachedRootOnChain'
  <2>1. \A q \in Procs : cachedRoot'[q] = root \/ cachedRoot'[q] = cachedRoot[q]
    BY <1>2, <1>t
  <2>2. root = rows'[n].root /\ n \in DOMAIN rows'
    BY <1>2, <1>3
  <2>. QED  BY <1>2, <2>1, <2>2 DEF IInv, CachedRootOnChain
<1>. QED  BY <1>4, <1>5, <1>7, <1>8, <1>9 DEF IInv

\* Emptying the listed rows leaves hashes, roots and receipts as they were.
LEMMA EmptyInv ==
    ASSUME IInv, TypeOK', NEW p \in Procs, PurgeEmpty(p)
    PROVE  IInv'
<1>1. /\ DOMAIN rows' = DOMAIN rows /\ DOMAIN rows = 1..Len(rows) /\ Len(rows') = Len(rows)
      /\ Len(rows) \in Nat
      /\ pending' = pending /\ cachedRoot' = cachedRoot
      /\ \A q \in Procs : condemned'[q] \subseteq condemned[q]
  BY LenProperties DEF IInv, TypeOK, PurgeEmpty
<1>2. ASSUME NEW i \in DOMAIN rows
      PROVE  /\ rows'[i].op = rows[i].op
             /\ rows'[i].hash = rows[i].hash
             /\ rows'[i].root = rows[i].root
             /\ i \notin condemned[p] => rows'[i] = rows[i]
             /\ i \in condemned[p] => rows[i].op # "purge" /\ Emptied(rows'[i])
  <2>1. rows[i] \in Row
    BY ElementOfSeq, <1>1 DEF IInv, TypeOK
  <2>2. i \in condemned[p] => rows[i].op # "purge"
    BY DEF IInv, TypeOK
  <2>. QED  BY <2>1, <2>2, EmptiedRow DEF PurgeEmpty
<1>3. \A i, j \in DOMAIN rows : Names(rows'[j], i) <=> Names(rows[j], i)
  BY <1>2 DEF Names
<1>4. \A i \in DOMAIN rows : NamedLater(rows, i) => NamedLater(rows', i)
  BY <1>1, <1>3 DEF NamedLater
<1>5. Linked'
  <2>1. \A i \in DOMAIN rows : RootBefore(rows', i) = RootBefore(rows, i)
    <3>. TAKE i \in DOMAIN rows
    <3>1. i # 1 => i - 1 \in DOMAIN rows
      BY <1>1
    <3>. QED  BY <3>1, <1>2 DEF RootBefore
  <2>. QED  BY <1>1, <1>2, <2>1 DEF IInv, Linked
<1>6. ReceiptsTrue'
  <2>1. \A list, m : TrueList(rows, list, m) => TrueList(rows', list, m)
    BY <1>1, <1>2 DEF TrueList
  <2>. QED  BY <1>1, <1>2, <2>1 DEF IInv, ReceiptsTrue
<1>7. CondemnedNamed'
  <2>1. \A q \in Procs : condemned[q] \subseteq DOMAIN rows
    BY DEF IInv, TypeOK
  <2>. QED  BY <1>1, <1>4, <2>1 DEF IInv, CondemnedNamed
<1>8. HashesTrue'
  <2>. SUFFICES ASSUME NEW i \in DOMAIN rows
                PROVE  \/ rows'[i].hash = RowDataHash(rows'[i])
                       \/ Emptied(rows'[i]) /\ NamedLater(rows', i)
    BY <1>1 DEF HashesTrue
  <2>1. CASE i \in condemned[p]
    <3>1. NamedLater(rows, i)
      BY <2>1 DEF IInv, CondemnedNamed, PurgeEmpty
    <3>. QED  BY <2>1, <3>1, <1>2, <1>4
  <2>2. CASE i \notin condemned[p]
    BY <2>2, <1>2, <1>4 DEF IInv, HashesTrue
  <2>. QED  BY <2>1, <2>2
<1>9. CachedRootOnChain'
  BY <1>1, <1>2 DEF IInv, CachedRootOnChain
<1>. QED  BY <1>5, <1>6, <1>7, <1>8, <1>9 DEF IInv

\* The steps that leave the table alone keep the invariant too.
LEMMA RowsUnchangedInv ==
    ASSUME IInv, TypeOK', [Next]_vars, rows' = rows
    PROVE  IInv'
<1>. USE DEF IInv
<1>1. Linked' /\ HashesTrue'
  BY DEF Linked, HashesTrue, NamedLater
<1>t. /\ pending \in [Procs -> SUBSET Draft] /\ cachedRoot \in [Procs -> Seq(Hash)]
      /\ condemned \in [Procs -> SUBSET {i \in DOMAIN rows : rows[i].op # "purge"}]
      /\ rows \in Seq(Row)
  BY DEF TypeOK
<1>2. ASSUME NEW p \in Procs, NEW op \in Ops, NEW k \in Keys, NEW before \in Cell,
             NEW after \in Cell, LogStamp(p, op, k, before, after)
      PROVE  ReceiptsTrue' /\ CondemnedNamed' /\ CachedRootOnChain'
  <2>1. condemned[p] = {} /\ op # "purge"
    BY <1>2, OpsAssumption DEF LogStamp, Idle
  <2>2. /\ \A q \in Procs : \A d \in pending'[q] : d \in pending[q] \/ d.op # "purge"
        /\ \A q \in Procs : condemned[q] # {} => pending'[q] = pending[q]
        /\ condemned' = condemned /\ cachedRoot' = cachedRoot
    BY <1>2, <1>t, <2>1 DEF LogStamp
  <2>3. ReceiptsTrue'
    BY <2>2 DEF ReceiptsTrue, TrueList
  <2>4. CondemnedNamed'
    BY <2>2 DEF CondemnedNamed, NamedLater
  <2>. QED  BY <2>2, <2>3, <2>4 DEF CachedRootOnChain
<1>3. ASSUME NEW p \in Procs, NEW k \in Keys, PurgeSelect(p, k)
      PROVE  ReceiptsTrue' /\ CondemnedNamed' /\ CachedRootOnChain'
  <2> DEFINE items == {[id |-> i, hash |-> rows[i].hash] : i \in Purgeable(k)}
             d     == [op |-> "purge", key |-> k, ts |-> clock, before |-> None, after |-> items]
  <2>1. /\ pending' = [pending EXCEPT ![p] = {d}]
        /\ condemned' = [condemned EXCEPT ![p] = Purgeable(k)]
        /\ cachedRoot' = cachedRoot
    BY <1>3 DEF PurgeSelect
  <2>2. TrueList(rows, items, Len(rows) + 1)
    BY <1>t, LenProperties DEF TrueList, Purgeable
  <2>4. d.op = "purge" /\ d.after = items
    OBVIOUS
  <2>3. \A i \in Purgeable(k) : Names(d, i)
    <3>. TAKE i \in Purgeable(k)
    <3>1. [id |-> i, hash |-> rows[i].hash] \in items
      OBVIOUS
    <3>2. [id |-> i, hash |-> rows[i].hash].id = i
      OBVIOUS
    <3>. HIDE DEF d, items
    <3>. QED  BY <2>4, <3>1, <3>2 DEF Names
  <2>. HIDE DEF d, items
  <2>5. ReceiptsTrue'
    BY <2>1, <2>2, <2>4, <1>t DEF ReceiptsTrue, TrueList
  <2>6. CondemnedNamed'
    <3>1. \A q \in Procs : q # p => pending'[q] = pending[q] /\ condemned'[q] = condemned[q]
      BY <2>1, <1>t
    <3>2. pending'[p] = {d} /\ condemned'[p] = Purgeable(k)
      BY <2>1, <1>t
    <3>. QED  BY <3>1, <3>2, <2>3 DEF CondemnedNamed, NamedLater
  <2>. QED  BY <2>1, <2>5, <2>6 DEF CachedRootOnChain
<1>4. ASSUME NEW p \in Procs,
             LogFail(p) \/ Restart(p)
      PROVE  ReceiptsTrue' /\ CondemnedNamed'
  <2>1. /\ pending' = [pending EXCEPT ![p] = {}]
        /\ condemned' = [condemned EXCEPT ![p] = {}]
    BY <1>4 DEF LogFail, Restart
  <2>2. \A q \in Procs : (pending'[q] = {} /\ condemned'[q] = {})
                        \/ (pending'[q] = pending[q] /\ condemned'[q] = condemned[q])
    BY <2>1, <1>t
  <2>. QED  BY <2>2 DEF ReceiptsTrue, CondemnedNamed, TrueList, NamedLater
<1>5. HeadRoot(rows) = Genesis \/ \E i \in DOMAIN rows : HeadRoot(rows) = rows[i].root
  BY <1>t, LenProperties, EmptySeq DEF HeadRoot
<1>6. ASSUME NEW p \in Procs, RefreshRootHash(p) \/ Restart(p) \/ LogFail(p)
      PROVE  CachedRootOnChain'
  <2>1. cachedRoot' = cachedRoot \/ cachedRoot' = [cachedRoot EXCEPT ![p] = HeadRoot(rows)]
    BY <1>6 DEF RefreshRootHash, Restart, LogFail
  <2>. QED  BY <2>1, <1>5, <1>t DEF CachedRootOnChain
<1>7. ASSUME NEW p \in Procs, PurgeEmpty(p)  PROVE IInv'
  BY <1>7, EmptyInv
<1>8. ASSUME NEW p \in Procs, LogInsert(p)  PROVE IInv'
  BY <1>8, InsertInv
<1>9. ASSUME pending' = pending, condemned' = condemned  PROVE ReceiptsTrue' /\ CondemnedNamed'
  BY <1>9 DEF ReceiptsTrue, CondemnedNamed, TrueList, NamedLater
<1>10. CASE Tick \/ UNCHANGED vars
  BY <1>1, <1>9, <1>10 DEF Tick, vars, CachedRootOnChain
<1>11. CASE \E p \in Procs : RefreshRootHash(p)
  BY <1>1, <1>6, <1>9, <1>11 DEF RefreshRootHash
<1>. QED  BY <1>1, <1>2, <1>3, <1>4, <1>6, <1>7, <1>8, <1>10, <1>11 DEF Next

\* The inductive invariant holds in every reachable state.
THEOREM InvCorrect == Spec => []IInv
<1>1. IInv /\ TypeOK' /\ [Next]_vars => IInv'
  <2>. SUFFICES ASSUME IInv, TypeOK', [Next]_vars  PROVE IInv'
    OBVIOUS
  <2>1. CASE \E p \in Procs : LogInsert(p)
    BY <2>1, InsertInv
  <2>2. CASE \E p \in Procs : PurgeEmpty(p)
    BY <2>2, EmptyInv
  <2>3. CASE rows' = rows
    BY <2>3, RowsUnchangedInv
  <2>. QED  BY <2>1, <2>2, <2>3
            DEF Next, LogStamp, LogFail, PurgeSelect, RefreshRootHash, Restart, Tick, vars
<1>. QED  BY <1>1, InvInit, TypeCorrect, PTL DEF Spec

\* However many processes log, purge, fail and crash, the chain verifies in
\* every state, between a purge's receipt and its emptying included.
THEOREM ChainAlwaysVerifies == Spec => []ChainVerifies
BY InvCorrect, InvImpliesVerifies, PTL

\* A root a process still holds in memory is one the chain really had.
THEOREM CachedRootNeverForged == Spec => []CachedRootOnChain
<1>1. IInv => CachedRootOnChain
  BY DEF IInv
<1>. QED  BY <1>1, InvCorrect, PTL

-----------------------------------------------------------------------------
(* What the log shows of the history *)

\* A log with one row's values replaced verifies only with the values that
\* were hashed, or empty under a receipt.
LEMMA ForgeryShows == TypeOK => AlterationDetected
<1>. SUFFICES ASSUME TypeOK, NEW i \in DOMAIN rows, NEW before \in Cell, NEW after \in Cell,
                     rows[i].op # "purge",
                     VerifyChain([rows EXCEPT ![i].before = before, ![i].after = after])
              PROVE  \/ <<before, after>> = <<rows[i].hash[4], rows[i].hash[5]>>
                     \/ /\ <<before, after>> = <<None, None>>
                        /\ \E j \in i + 1 .. Len(rows) : Names(rows[j], i)
  BY DEF AlterationDetected
<1> DEFINE forged == [rows EXCEPT ![i].before = before, ![i].after = after]
<1>1. rows[i] \in Row /\ DOMAIN rows = 1..Len(rows) /\ Len(rows) \in Nat
  BY ElementOfSeq, LenProperties DEF TypeOK
<1>2. /\ DOMAIN forged = DOMAIN rows
      /\ \A j \in DOMAIN rows : j # i => forged[j] = rows[j]
      /\ forged[i] = [rows[i] EXCEPT !.before = before, !.after = after]
  BY <1>1 DEF TypeOK
<1>3. /\ forged[i].before = before /\ forged[i].after = after
      /\ forged[i].hash = rows[i].hash
  BY <1>1, <1>2 DEF Row
<1>4. forged[i].hash = ExpectedDataHash(forged, i)
  BY <1>2 DEF VerifyChain
<1>. HIDE DEF forged
<1>5. CASE Emptied(forged[i]) /\ Receipted(forged, i)
  <2>1. PICK j \in DOMAIN forged : /\ j > i /\ forged[j].op = "purge"
                                   /\ [id |-> i, hash |-> forged[i].hash] \in forged[j].after
    BY <1>5 DEF Receipted
  <2>2. Names(rows[j], i) /\ j \in i + 1 .. Len(rows)
    BY <1>1, <1>2, <2>1 DEF Names
  <2>. QED  BY <1>3, <1>5, <2>2 DEF Emptied
<1>6. CASE ~(Emptied(forged[i]) /\ Receipted(forged, i))
  <2>1. rows[i].hash = RowDataHash(forged[i])
    BY <1>3, <1>4, <1>6 DEF ExpectedDataHash
  <2>2. rows[i].hash[4] = before /\ rows[i].hash[5] = after
    BY <1>3, <2>1 DEF RowDataHash
  <2>. QED  BY <2>2
<1>. QED  BY <1>5, <1>6

\* A log that verifies shows the values that were written, or none where a
\* receipt says so (verify_chain).
THEOREM AlterationAlwaysDetected == Spec => []AlterationDetected
BY TypeCorrect, ForgeryShows, PTL

\* Two logs replay a moment alike when they have the same rows for it, some of
\* them emptied.
LEMMA SameReplay ==
    ASSUME NEW rs, NEW new, NEW t,
           \A k \in Keys : Replayed(new, t, k) = Replayed(rs, t, k),
           \A k \in Keys : \A i \in Replayed(rs, t, k) :
               new[i].op = rs[i].op /\ new[i].after \in {rs[i].after, None}
    PROVE  /\ DOMAIN GetStateAt(new, t) = DOMAIN GetStateAt(rs, t)
           /\ \A k \in DOMAIN GetStateAt(rs, t) :
                 GetStateAt(new, t)[k] \in {GetStateAt(rs, t)[k], None}
<1> DEFINE last(k) == CHOOSE i \in LastReplayed(rs, t, k) : TRUE
<1>1. \A k \in Keys : /\ LastReplayed(new, t, k) = LastReplayed(rs, t, k)
                      /\ LastReplayed(rs, t, k) \subseteq Replayed(rs, t, k)
  BY DEF LastReplayed
<1>2. {k \in Keys : \E i \in LastReplayed(new, t, k) : new[i].op \notin {"delete", "forget"}}
        = {k \in Keys : \E i \in LastReplayed(rs, t, k) : rs[i].op \notin {"delete", "forget"}}
  BY <1>1
<1>3. ASSUME NEW k \in Keys, LastReplayed(rs, t, k) # {}
      PROVE  new[last(k)].after \in {rs[last(k)].after, None}
  <2>1. last(k) \in LastReplayed(rs, t, k)
    BY <1>3
  <2>. QED  BY <1>1, <2>1
<1>4. \A k \in Keys : (CHOOSE i \in LastReplayed(new, t, k) : TRUE) = last(k)
  BY <1>1
<1>5. DOMAIN GetStateAt(new, t) = DOMAIN GetStateAt(rs, t)
  BY <1>2 DEF GetStateAt
<1>6. ASSUME NEW k \in DOMAIN GetStateAt(rs, t)
      PROVE  GetStateAt(new, t)[k] \in {GetStateAt(rs, t)[k], None}
  <2>1. k \in Keys /\ LastReplayed(rs, t, k) # {}
    BY DEF GetStateAt
  <2>2. GetStateAt(rs, t)[k] = rs[last(k)].after
    BY DEF GetStateAt
  <2>3. GetStateAt(new, t)[k] = new[last(k)].after
    BY <1>4, <1>5, <2>1 DEF GetStateAt
  <2>. QED  BY <1>3, <2>1, <2>2, <2>3
<1>. QED  BY <1>5, <1>6

\* No step moves a past moment: a row is inserted with the stamp it waited
\* with, and a purge takes values only.
LEMMA StepKeepsThePast == TypeOK /\ [Next]_vars => [KeepsThePast]_vars
<1>. SUFFICES ASSUME TypeOK, Next, NEW t \in 0 .. clock - 1,
                     \A p \in Procs : \A d \in pending[p] : d.ts > t
              PROVE  /\ DOMAIN GetStateAt(rows', t) = DOMAIN GetStateAt(rows, t)
                     /\ \A k \in DOMAIN GetStateAt(rows, t) :
                           GetStateAt(rows', t)[k] \in {GetStateAt(rows, t)[k], None}
  BY DEF KeepsThePast
<1>1. /\ DOMAIN rows = 1..Len(rows) /\ Len(rows) \in Nat
      /\ \A i \in DOMAIN rows : rows[i] \in Row
  BY ElementOfSeq, LenProperties DEF TypeOK
<1>2. CASE rows' = rows
  BY <1>2
<1>3. ASSUME NEW p \in Procs, LogInsert(p)
      PROVE  /\ \A k \in Keys : Replayed(rows', t, k) = Replayed(rows, t, k)
             /\ \A i \in DOMAIN rows : rows'[i] = rows[i]
  <2>1. PICK d \in pending[p] : LogInsert(p)!(d)
    BY <1>3 DEF LogInsert
  <2> DEFINE new == [op |-> d.op, key |-> d.key, ts |-> d.ts, before |-> d.before,
                     after |-> d.after, hash |-> RowDataHash(d),
                     root |-> Append(PrevRoot(p), RowDataHash(d))]
  <2>2. rows' = Append(rows, new) /\ new.ts = d.ts
    BY <2>1
  <2>3. d.ts \in Int /\ d.ts > t /\ t \in Int
    BY BoundAssumption DEF TypeOK, Draft, Clock
  <2>. HIDE DEF new
  <2>4. /\ DOMAIN rows' = 1..Len(rows) + 1
        /\ \A i \in DOMAIN rows : rows'[i] = rows[i]
        /\ rows'[Len(rows) + 1] = new
    BY <1>1, <2>2 DEF TypeOK
  <2>5. \A i \in DOMAIN rows' : i \in DOMAIN rows \/ ~(rows'[i].ts <= t)
    BY <1>1, <2>2, <2>3, <2>4
  <2>6. DOMAIN rows \subseteq DOMAIN rows'
    BY <1>1, <2>4
  <2>. QED  BY <2>4, <2>5, <2>6 DEF Replayed
<1>4. ASSUME NEW p \in Procs, PurgeEmpty(p)
      PROVE  /\ \A k \in Keys : Replayed(rows', t, k) = Replayed(rows, t, k)
             /\ \A i \in DOMAIN rows : /\ rows'[i].op = rows[i].op
                                       /\ rows'[i].after \in {rows[i].after, None}
  <2>1. DOMAIN rows' = DOMAIN rows
    BY <1>4 DEF PurgeEmpty
  <2>2. \A i \in DOMAIN rows : rows'[i] = IF i \in condemned[p] THEN WithoutValues(rows[i]) ELSE rows[i]
    BY <1>4 DEF PurgeEmpty
  <2>3. \A r \in Row : LET e == WithoutValues(r)
                       IN  e.op = r.op /\ e.key = r.key /\ e.ts = r.ts /\ e.after = None
    BY DEF Row, WithoutValues
  <2>4. \A i \in DOMAIN rows : /\ rows'[i].op = rows[i].op /\ rows'[i].key = rows[i].key
                               /\ rows'[i].ts = rows[i].ts
                               /\ rows'[i].after \in {rows[i].after, None}
    BY <1>1, <2>2, <2>3
  <2>. QED  BY <2>1, <2>4 DEF Replayed
<1>5. \A k \in Keys : Replayed(rows, t, k) \subseteq DOMAIN rows
  BY DEF Replayed
<1>6. CASE \E p \in Procs : LogInsert(p) \/ PurgeEmpty(p)
  BY <1>3, <1>4, <1>5, <1>6, SameReplay
<1>. QED  BY <1>2, <1>6 DEF Next, LogStamp, LogFail, PurgeSelect, RefreshRootHash, Restart, Tick

\* What the log says of a past moment does not change once nobody holds a row
\* stamped at or before it, but for values a purge removes (get_state_at).
THEOREM PastStaysSettled == Spec => PastIsSettled
<1>1. TypeOK /\ [Next]_vars => [KeepsThePast]_vars
  BY StepKeepsThePast
<1>. QED  BY <1>1, TypeCorrect, PTL DEF Spec, PastIsSettled
=============================================================================
