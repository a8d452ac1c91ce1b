--------------------------- MODULE Upkeep_proofs ---------------------------
(***************************************************************************)
(* Proofs about what goes on beside the calls: the ledger of memory events *)
(* for any number of writers, keys and events and for clocks that say      *)
(* anything, the hosted indexer, the embedding daemon with the recalls     *)
(* that keep its vectors, and the scheduler.                               *)
(***************************************************************************)
EXTENDS MCUpkeep, FiniteSetTheorems, SequenceTheorems, WellFoundedInduction, TLAPS

-----------------------------------------------------------------------------
(* The inductive invariant *)

\* All of the events, one after the other, in the order they are read in.
Enumerates(s, events) ==
    /\ s \in [1..Cardinality(events) -> events]
    /\ \A e \in events : \E i \in DOMAIN s : s[i] = e
    /\ \A i, j \in DOMAIN s : i < j => s[i].time < s[j].time

\* Each names the one before it.
Linked(s) == \A i \in DOMAIN s : s[i].prev = IF i = 1 THEN NoOne ELSE s[i - 1].id

\* There is such an order, and no two events share an id.
TableIsChain ==
    /\ IsFiniteSet(table)
    /\ \E s \in [1..Cardinality(table) -> table] : Enumerates(s, table) /\ Linked(s)
    /\ \A a, b \in table : a.id = b.id => a = b

\* What a writer has stamped still goes at the end.
StampsAreLatest ==
    \A w \in Writers : tx[w].at = "stamped" =>
        /\ \A e \in table : e.time < tx[w].time
        /\ table = {} => tx[w].prev = NoOne
        /\ \A e \in table : (\A o \in table : o.time <= e.time) => tx[w].prev = e.id

\* For a key that is beyond doubt, at most one append is under way, and it will
\* say what the store says already; without one the ledger does.
AppendsFollowStore ==
    \A k \in MemKeys \ doubtful :
        /\ \A v, w \in Writers : tx[v].key = k /\ tx[w].key = k => v = w
        /\ \A w \in Writers : tx[w].key = k => (tx[w].op # "forget" <=> k \in stored)
        /\ (\A w \in Writers : tx[w].key # k) => (k \in ActiveKeys <=> k \in stored)

IInv == TypeOK /\ TableIsChain /\ StampsAreLatest /\ AppendsFollowStore

-----------------------------------------------------------------------------
(* The order of the events *)

\* Every time is given once, so an event is earlier if its time is.
LEMMA EarlierByTime ==
    ASSUME TypeOK, TableIsChain
    PROVE  /\ \A a, b \in table : a # b => a.time # b.time
           /\ \A a, b \in table : Earlier(a, b) <=> a.time < b.time
<1>1. PICK s \in [1..Cardinality(table) -> table] : Enumerates(s, table)
  BY DEF TableIsChain
<1>2. Cardinality(table) \in Nat
  BY FS_CardinalityType DEF TableIsChain
<1>3. \A e \in table : e.time \in Nat /\ e.id \in Nat
  BY DEF TypeOK, Event
<1>4. ASSUME NEW a \in table, NEW b \in table, a # b  PROVE a.time # b.time
  <2>1. PICK i \in 1..Cardinality(table), j \in 1..Cardinality(table) : s[i] = a /\ s[j] = b
    BY <1>1 DEF Enumerates
  <2>2. i < j \/ j < i
    BY <2>1, <1>2, <1>4
  <2>. QED  BY <2>1, <2>2, <1>1, <1>3 DEF Enumerates
<1>. QED  BY <1>3, <1>4 DEF Earlier

\* The events can be put in order in one way only.
LEMMA OneOrder ==
    ASSUME TypeOK, TableIsChain, NEW s, Enumerates(s, table), NEW t, Enumerates(t, table)
    PROVE  s = t
<1> DEFINE n == Cardinality(table)
           D == {i \in 1..n : s[i] # t[i]}
           R == OpToRel(<, Nat)
<1>1. n \in Nat
  BY FS_CardinalityType DEF TableIsChain
<1>2. \A e \in table : e.time \in Nat
  BY DEF TypeOK, Event
<1>. HIDE DEF n, R
<1>3. /\ s \in [1..n -> table] /\ t \in [1..n -> table]
      /\ \A e \in table : (\E i \in 1..n : s[i] = e) /\ (\E i \in 1..n : t[i] = e)
      /\ \A i, j \in 1..n : i < j => s[i].time < s[j].time /\ t[i].time < t[j].time
  BY DEF Enumerates, n
<1>4. SUFFICES ASSUME D # {}  PROVE FALSE
  <2>1. (\A i \in 1..n : s[i] = t[i]) => s = t
    <3>. HIDE DEF D
    <3>1. s = [i \in 1..n |-> s[i]] /\ t = [i \in 1..n |-> t[i]]
      BY <1>3
    <3>. QED  BY <3>1
  <2>. QED  BY <2>1
<1>5. PICK i \in D : \A j \in D : ~(j < i)
  <2>1. D \subseteq Nat
    BY <1>1
  <2>2. PICK i \in D : \A j \in D : <<j, i>> \notin R
    <3>. HIDE DEF D
    <3>. QED  BY <1>4, <2>1, NatLessThanWellFounded, WFMin DEF R
  <2>. QED  BY <2>1, <2>2 DEF OpToRel, R
<1>6. \A j \in 1..n : j < i => s[j] = t[j]
  BY <1>5
<1>7. PICK j \in 1..n, k \in 1..n : t[j] = s[i] /\ s[k] = t[i]
  BY <1>3
<1>8. i < j /\ i < k
  <2>1. ~(j < i)
    <3>. SUFFICES ASSUME j < i  PROVE FALSE
      OBVIOUS
    <3>1. s[j] = s[i] /\ s[j].time < s[i].time
      BY <1>3, <1>6, <1>7
    <3>. QED  BY <3>1, <1>2, <1>3
  <2>2. ~(k < i)
    <3>. SUFFICES ASSUME k < i  PROVE FALSE
      OBVIOUS
    <3>1. t[k] = t[i] /\ t[k].time < t[i].time
      BY <1>3, <1>6, <1>7
    <3>. QED  BY <3>1, <1>2, <1>3
  <2>. QED  BY <2>1, <2>2, <1>1, <1>5, <1>7
<1>9. t[i].time < t[j].time /\ s[i].time < s[k].time
  BY <1>3, <1>8
<1>. QED  BY <1>9, <1>7, <1>2, <1>3

\* So it is the one InOrder chooses.
LEMMA InOrderIsIt ==
    ASSUME TypeOK, TableIsChain, NEW s, Enumerates(s, table)
    PROVE  InOrder = s
<1> DEFINE Ordered(q) == /\ \A e \in table : \E i \in DOMAIN q : q[i] = e
                         /\ \A i, j \in DOMAIN q : i < j => Earlier(q[i], q[j])
<1>1. \A q \in [1..Cardinality(table) -> table] : Ordered(q) <=> Enumerates(q, table)
  BY EarlierByTime DEF Enumerates
<1>2. s \in [1..Cardinality(table) -> table] /\ Ordered(s)
  BY <1>1 DEF Enumerates
<1>3. InOrder = CHOOSE q \in [1..Cardinality(table) -> table] : Ordered(q)
  BY DEF InOrder
<1>. HIDE DEF Ordered
<1>4. InOrder \in [1..Cardinality(table) -> table] /\ Ordered(InOrder)
  BY <1>2, <1>3
<1>. QED  BY <1>1, <1>4, OneOrder

LEMMA OneInOrder ==
    TypeOK /\ TableIsChain => \A s : Enumerates(s, table) => InOrder = s
BY InOrderIsIt

\* The head of the chain is the latest event.
LEMMA HeadIsLatest ==
    ASSUME TypeOK, TableIsChain, table # {}
    PROVE  ChainHead \in table /\ \A o \in table : o.time <= ChainHead.time
<1>1. PICK s \in [1..Cardinality(table) -> table] : Enumerates(s, table)
  BY DEF TableIsChain
<1> DEFINE n == Cardinality(table)
           Last(e) == \A o \in table \ {e} : Earlier(o, e)
<1>2. n \in Nat /\ \A e \in table : e.time \in Nat
  BY FS_CardinalityType DEF TableIsChain, TypeOK, Event
<1>3. n > 0
  BY <1>1, <1>2 DEF Enumerates
<1>4. s[n] \in table /\ Last(s[n])
  BY <1>1, <1>2, <1>3, EarlierByTime DEF Enumerates
<1>5. ChainHead = CHOOSE e \in table : Last(e)
  BY DEF ChainHead
<1>. HIDE DEF Last
<1>6. ChainHead \in table /\ Last(ChainHead)
  BY <1>4, <1>5
<1>. QED  BY <1>6, <1>2, EarlierByTime DEF Last

-----------------------------------------------------------------------------
(* What an append does to the order *)

\* An event that is later than all others goes at the end.
LEMMA AppendAtEnd ==
    ASSUME TypeOK, TableIsChain, NEW e, e.time \in Nat, \A o \in table : o.time < e.time,
           table' = table \cup {e}, NEW s, Enumerates(s, table)
    PROVE  LET r == [i \in 1..Cardinality(table) + 1 |-> IF i <= Cardinality(table) THEN s[i] ELSE e]
           IN  /\ Cardinality(table') = Cardinality(table) + 1
               /\ Enumerates(r, table')
               /\ IsFiniteSet(table')
<1> DEFINE n == Cardinality(table)
           r == [i \in 1..n + 1 |-> IF i <= n THEN s[i] ELSE e]
<1>1. \A o \in table : o.time \in Nat
  BY DEF TypeOK, Event
<1>2. e \notin table
  BY <1>1
<1>3. n \in Nat /\ Cardinality(table') = n + 1 /\ IsFiniteSet(table')
  BY <1>2, FS_CardinalityType, FS_AddElement DEF TableIsChain
<1>4. s \in [1..n -> table] /\ (\A o \in table : \E i \in 1..n : s[i] = o)
      /\ (\A i, j \in 1..n : i < j => s[i].time < s[j].time)
  BY DEF Enumerates
<1>. HIDE DEF n
<1>5. r \in [1..n + 1 -> table']
  BY <1>3, <1>4
<1>6. \A o \in table' : \E i \in 1..n + 1 : r[i] = o
  <2>1. r[n + 1] = e /\ n + 1 \in 1..n + 1
    BY <1>3
  <2>2. \A i \in 1..n : i \in 1..n + 1 /\ r[i] = s[i]
    BY <1>3
  <2>. QED  BY <2>1, <2>2, <1>4
<1>7. \A i, j \in 1..n + 1 : i < j => r[i].time < r[j].time
  BY <1>3, <1>4
<1>. QED  BY <1>3, <1>5, <1>6, <1>7 DEF Enumerates, n

\* The event a writer has stamped is such an event, and it names the one before it.
LEMMA StampedIsNext ==
    ASSUME IInv, NEW w \in Writers, CommitEvent(w)
    PROVE  \E e : /\ table' = table \cup {e} /\ e \notin table
                  /\ e \in Event
                  /\ e.key = tx[w].key /\ e.op = tx[w].op
                  /\ \A o \in table : o.id # e.id /\ o.time < e.time
                  /\ \A s : Enumerates(s, table) =>
                        e.prev = IF Cardinality(table) = 0 THEN NoOne ELSE s[Cardinality(table)].id
<1>1. PICK id \in 1..MaxEvents \ {o.id : o \in table} :
         table' = table \cup {[id |-> id, prev |-> tx[w].prev, time |-> tx[w].time,
                               key |-> tx[w].key, op |-> tx[w].op]}
  BY DEF CommitEvent
<1> DEFINE e == [id |-> id, prev |-> tx[w].prev, time |-> tx[w].time, key |-> tx[w].key, op |-> tx[w].op]
<1>2. tx[w].at = "stamped"
  BY DEF CommitEvent
<1>3. tx[w].prev \in 1..MaxEvents \cup {NoOne} /\ tx[w].time \in Nat
      /\ tx[w].key \in MemKeys /\ tx[w].op \in {"commit", "forget"}
  BY <1>2 DEF IInv, TypeOK, AppendState
<1>4. \A o \in table : o.id # e.id /\ o.time < e.time /\ o.time \in Nat
  BY <1>1, <1>2 DEF IInv, StampsAreLatest, TypeOK, Event
<1>5. ASSUME NEW s, Enumerates(s, table)
      PROVE  e.prev = IF Cardinality(table) = 0 THEN NoOne ELSE s[Cardinality(table)].id
  <2>1. Cardinality(table) \in Nat /\ (Cardinality(table) = 0 <=> table = {})
    BY FS_CardinalityType, FS_EmptySet DEF IInv, TableIsChain
  <2>2. CASE table = {}
    BY <2>1, <2>2, <1>2 DEF IInv, StampsAreLatest
  <2>3. CASE table # {}
    <3>1. Cardinality(table) \in 1..Cardinality(table)
      BY <2>1, <2>3
    <3>2. s[Cardinality(table)] \in table
      BY <3>1, <1>5 DEF Enumerates
    <3>3. \A o \in table : o.time <= s[Cardinality(table)].time
      <4>. TAKE o \in table
      <4>1. PICK i \in 1..Cardinality(table) : s[i] = o
        BY <1>5 DEF Enumerates
      <4>2. i = Cardinality(table) \/ i < Cardinality(table)
        BY <2>1
      <4>. QED  BY <4>1, <4>2, <3>1, <3>2, <1>4, <1>5 DEF Enumerates
    <3>. QED  BY <3>2, <3>3, <2>1, <2>3, <1>2 DEF IInv, StampsAreLatest
  <2>. QED  BY <2>2, <2>3
<1>. QED  BY <1>1, <1>3, <1>4, <1>5 DEF Event

-----------------------------------------------------------------------------
(* The invariant is inductive *)

LEMMA InitIInv == Init => IInv
<1>. SUFFICES ASSUME Init  PROVE IInv
  OBVIOUS
<1>1. TypeOK
  BY BoundsAssumption, NoOneAssumption DEF Init, TypeOK, Idle, AppendState
<1>2. TableIsChain
  <2>1. IsFiniteSet(table) /\ Cardinality(table) = 0 /\ table = {}
    BY FS_EmptySet DEF Init
  <2> DEFINE s == [i \in 1..0 |-> NoOne]
  <2>2. s \in [1..Cardinality(table) -> table] /\ Enumerates(s, table) /\ Linked(s)
    BY <2>1 DEF Enumerates, Linked
  <2>. QED  BY <2>1, <2>2 DEF TableIsChain
<1>3. StampsAreLatest
  BY DEF Init, StampsAreLatest, Idle
<1>4. AppendsFollowStore
  BY NoOneAssumption DEF Init, AppendsFollowStore, Idle, ActiveKeys
<1>. QED  BY <1>1, <1>2, <1>3, <1>4 DEF IInv

LEMMA NextTypeOK == IInv /\ [Next]_vars => TypeOK'
<1>. SUFFICES ASSUME IInv, [Next]_vars  PROVE TypeOK'
  OBVIOUS
<1>0. TypeOK /\ TableIsChain
  BY DEF IInv
<1>. USE NoOneAssumption DEF TypeOK
<1>1. ASSUME NEW w \in Writers, NEW k \in MemKeys, NEW op \in {"commit", "forget"}, Write(w, k, op)
      PROVE  TypeOK'
  <2> DEFINE begun == [Idle EXCEPT !.at = "waiting", !.key = k, !.op = op]
  <2>1. stored' \subseteq MemKeys /\ doubtful' \subseteq MemKeys
    BY <1>0, <1>1 DEF Write
  <2>2. tx' = [tx EXCEPT ![w] = begun]
    BY <1>1 DEF Write
  <2>3. tx[w].at = "idle" /\ holder' = holder /\ table' = table /\ clock' = clock /\ failed' = failed
    BY <1>1 DEF Write
  <2>4. begun \in AppendState /\ begun.at = "waiting" /\ begun.key = k /\ begun.op = op
    BY DEF AppendState, Idle
  <2>. HIDE DEF begun
  <2>5. /\ tx' \in [Writers -> AppendState]
        /\ \A v \in Writers : tx'[v] = IF v = w THEN begun ELSE tx[v]
    BY <1>0, <2>2, <2>4
  <2>. QED  BY <1>0, <2>1, <2>3, <2>4, <2>5
<1>2. ASSUME NEW w \in Writers, TakeLock(w)  PROVE TypeOK'
  BY <1>0, <1>2 DEF TakeLock, AppendState
<1>3. ASSUME NEW w \in Writers, LockTimeout(w)  PROVE TypeOK'
  BY <1>0, <1>3 DEF LockTimeout, Lose, Idle, AppendState
<1>4. ASSUME NEW w \in Writers, Stamp(w)  PROVE TypeOK'
  <2> DEFINE prev == IF table = {} THEN NoOne ELSE ChainHead.id
             time == IF table # {} /\ ChainHead.time >= clock[w] THEN ChainHead.time + 1 ELSE clock[w]
             begun  == [tx[w] EXCEPT !.at = "stamped", !.prev = prev, !.time = time]
  <2>1. prev \in 1..MaxEvents \cup {NoOne} /\ time \in Nat
    BY <1>0, HeadIsLatest, BoundsAssumption DEF Event
  <2>2. tx' = [tx EXCEPT ![w].at = "stamped", ![w].prev = prev, ![w].time = time] /\ tx[w].at = "locked"
        /\ UNCHANGED <<stored, table, holder, clock, failed, doubtful>>
    BY <1>4 DEF Stamp
  <2>. HIDE DEF prev, time
  <2>3. begun \in AppendState /\ begun.at = "stamped" /\ begun.key = tx[w].key /\ begun.op = tx[w].op
    <3>1. tx[w] \in AppendState
      BY <1>0
    <3>. QED  BY <3>1, <2>1 DEF AppendState
  <2>4. tx' = [tx EXCEPT ![w] = begun]
    BY <1>0, <2>2
  <2>. HIDE DEF begun
  <2>5. /\ tx' \in [Writers -> AppendState]
        /\ \A v \in Writers : tx'[v] = IF v = w THEN begun ELSE tx[v]
    BY <1>0, <2>3, <2>4
  <2>. QED  BY <1>0, <2>2, <2>3, <2>5
<1>5. ASSUME NEW w \in Writers, CommitEvent(w)  PROVE TypeOK'
  <2>1. table' \subseteq Event
    BY <1>0, <1>5, StampedIsNext
  <2>. QED  BY <1>0, <1>5, <2>1 DEF CommitEvent, Idle, AppendState
<1>6. ASSUME NEW w \in Writers, Abort(w)  PROVE TypeOK'
  BY <1>0, <1>6, BoundsAssumption DEF Abort, Lose, Idle, AppendState
<1>7. ASSUME NEW w \in Writers, SetClock(w)  PROVE TypeOK'
  BY <1>0, <1>7 DEF SetClock
<1>8. ASSUME NEW k \in MemKeys, RollBack(k) \/ Promote(k) \/ Prune(k)  PROVE TypeOK'
  BY <1>0, <1>8 DEF RollBack, Promote, Prune, Unrecorded
<1>9. CASE UNCHANGED vars
  BY <1>0, <1>9 DEF vars
<1>. QED  BY <1>1, <1>2, <1>3, <1>4, <1>5, <1>6, <1>7, <1>8, <1>9 DEF Next

\* Only a commit adds an event, and it goes at the end of the chain.
LEMMA NextTableIsChain == IInv /\ [Next]_vars => TableIsChain'
<1>. SUFFICES ASSUME IInv, [Next]_vars  PROVE TableIsChain'
  OBVIOUS
<1>1. CASE table' = table
  BY <1>1 DEF IInv, TableIsChain, Enumerates, Linked
<1>2. ASSUME NEW w \in Writers, CommitEvent(w)  PROVE TableIsChain'
  <2> DEFINE n == Cardinality(table)
  <2>1. PICK s \in [1..n -> table] : Enumerates(s, table) /\ Linked(s)
    BY DEF IInv, TableIsChain
  <2>2. PICK e : /\ table' = table \cup {e}
                 /\ e.time \in Nat /\ \A o \in table : o.id # e.id /\ o.time < e.time
                 /\ e.prev = IF n = 0 THEN NoOne ELSE s[n].id
    BY <1>2, <2>1, StampedIsNext DEF Event
  <2> DEFINE r == [i \in 1..n + 1 |-> IF i <= n THEN s[i] ELSE e]
  <2>3. Cardinality(table') = n + 1 /\ Enumerates(r, table') /\ IsFiniteSet(table')
    BY <2>1, <2>2, AppendAtEnd DEF IInv
  <2>4. n \in Nat
    BY FS_CardinalityType DEF IInv, TableIsChain
  <2>5. Linked(r)
    <3>. SUFFICES ASSUME NEW i \in 1..n + 1
                  PROVE  r[i].prev = IF i = 1 THEN NoOne ELSE r[i - 1].id
      BY DEF Linked
    <3>1. CASE i <= n
      <4>1. r[i] = s[i] /\ i \in DOMAIN s /\ (i # 1 => r[i - 1] = s[i - 1])
        BY <3>1, <2>1, <2>4
      <4>. QED  BY <4>1, <2>1 DEF Linked
    <3>2. CASE i = n + 1
      <4>1. r[i] = e /\ (i # 1 => r[i - 1] = s[n]) /\ (i = 1 <=> n = 0)
        BY <3>2, <2>4
      <4>. QED  BY <4>1, <2>2
    <3>. QED  BY <3>1, <3>2, <2>4
  <2>6. r \in [1..Cardinality(table') -> table']
    BY <2>3 DEF Enumerates
  <2>7. \A a, b \in table' : a.id = b.id => a = b
    BY <2>2 DEF IInv, TableIsChain
  <2>. QED  BY <2>3, <2>6, <2>5, <2>7 DEF TableIsChain
<1>. QED
  BY <1>1, <1>2 DEF Next, vars, Write, TakeLock, LockTimeout, Lose, Stamp, Abort, SetClock,
                    RollBack, Promote, Prune, Unrecorded

\* A new stamp is later than the head, and the lock keeps other stamps away.
LEMMA NextStampsAreLatest == IInv /\ [Next]_vars => StampsAreLatest'
<1>. SUFFICES ASSUME IInv, [Next]_vars  PROVE StampsAreLatest'
  OBVIOUS
<1>0. TypeOK /\ TableIsChain /\ StampsAreLatest /\ tx \in [Writers -> AppendState]
  BY DEF IInv, TypeOK
<1>1. ASSUME UNCHANGED table, \A w \in Writers : tx'[w] = tx[w] \/ tx'[w].at # "stamped"
      PROVE  StampsAreLatest'
  BY <1>0, <1>1 DEF StampsAreLatest
<1>2. ASSUME NEW w \in Writers, Stamp(w)  PROVE StampsAreLatest'
  <2>1. /\ table' = table
        /\ \A v \in Writers \ {w} : tx'[v] = tx[v]
        /\ tx'[w].prev = IF table = {} THEN NoOne ELSE ChainHead.id
        /\ tx'[w].time = IF table # {} /\ ChainHead.time >= clock[w] THEN ChainHead.time + 1 ELSE clock[w]
    BY <1>0, <1>2 DEF Stamp, AppendState
  <2>2. clock[w] \in Nat /\ \A e \in table : e.time \in Nat
    BY <1>0, BoundsAssumption DEF TypeOK, Event
  <2>3. CASE table = {}
    BY <2>1, <2>3, <1>0 DEF StampsAreLatest
  <2>4. CASE table # {}
    <3>1. ChainHead \in table /\ \A e \in table : e.time <= ChainHead.time
      BY <1>0, <2>4, HeadIsLatest
    <3>2. \A e \in table : e.time < tx'[w].time
      BY <2>1, <2>2, <3>1
    <3>3. ASSUME NEW e \in table, \A o \in table : o.time <= e.time  PROVE e = ChainHead
      <4>1. e.time = ChainHead.time
        BY <3>1, <3>3, <2>2
      <4>2. \A a, b \in table : a # b => a.time # b.time
        BY <1>0, EarlierByTime
      <4>. QED  BY <4>1, <4>2, <3>1
    <3>. QED  BY <2>1, <2>4, <3>2, <3>3, <1>0 DEF StampsAreLatest
  <2>. QED  BY <2>3, <2>4
<1>3. ASSUME NEW w \in Writers, CommitEvent(w)  PROVE StampsAreLatest'
  <2>1. \A v \in Writers : tx'[v].at # "stamped"
    BY <1>0, <1>3 DEF CommitEvent, TypeOK, Idle
  <2>. QED  BY <2>1 DEF StampsAreLatest
<1>4. ASSUME NEW w \in Writers, NEW k \in MemKeys, NEW op \in {"commit", "forget"}, Write(w, k, op)
      PROVE  StampsAreLatest'
  BY <1>0, <1>4, <1>1 DEF Write, Idle
<1>5. ASSUME NEW w \in Writers, TakeLock(w) \/ LockTimeout(w) \/ Abort(w) \/ SetClock(w)
      PROVE  StampsAreLatest'
  BY <1>0, <1>5, <1>1 DEF TakeLock, LockTimeout, Abort, Lose, SetClock, Idle, AppendState
<1>6. CASE UNCHANGED vars \/ \E k \in MemKeys : RollBack(k) \/ Promote(k) \/ Prune(k)
  BY <1>0, <1>6, <1>1 DEF vars, RollBack, Promote, Prune, Unrecorded
<1>. QED  BY <1>2, <1>3, <1>4, <1>5, <1>6 DEF Next

\* The append of a write says what the write did, and becomes the last of its key.
LEMMA NextAppendsFollowStore == IInv /\ [Next]_vars => AppendsFollowStore'
<1>. SUFFICES ASSUME IInv, [Next]_vars  PROVE AppendsFollowStore'
  OBVIOUS
<1>0. TypeOK /\ TableIsChain /\ AppendsFollowStore /\ tx \in [Writers -> AppendState]
  BY DEF IInv, TypeOK
<1>1. table' = table => ActiveKeys' = ActiveKeys
  BY DEF ActiveKeys, Earlier
<1>2. ASSUME NEW w \in Writers, NEW k \in MemKeys, NEW op \in {"commit", "forget"}, Write(w, k, op)
      PROVE  AppendsFollowStore'
  <2>1. /\ table' = table /\ tx[w].key = NoOne
        /\ \A v \in Writers \ {w} : tx'[v] = tx[v]
        /\ tx'[w].key = k /\ tx'[w].op = op
        /\ doubtful \ {k} \subseteq doubtful'
        /\ k \in doubtful' \/ \A v \in Writers : tx[v].key # k
        /\ stored' \ {k} = stored \ {k} /\ (op # "forget" <=> k \in stored')
    BY <1>0, <1>2 DEF Write, Idle, TypeOK
  <2>. QED  BY <1>0, <1>1, <2>1, NoOneAssumption DEF AppendsFollowStore
<1>3. ASSUME NEW w \in Writers, Lose(w)  PROVE AppendsFollowStore'
  <2>1. /\ table' = table /\ stored' = stored
        /\ \A v \in Writers \ {w} : tx'[v] = tx[v]
        /\ tx'[w].key = NoOne /\ doubtful' = doubtful \cup {tx[w].key}
    BY <1>0, <1>3 DEF Lose, Idle
  <2>. QED  BY <1>0, <1>1, <2>1, NoOneAssumption DEF AppendsFollowStore
<1>4. ASSUME NEW w \in Writers, TakeLock(w) \/ Stamp(w)  PROVE AppendsFollowStore'
  <2>1. /\ table' = table /\ stored' = stored /\ doubtful' = doubtful
        /\ \A v \in Writers : tx'[v].key = tx[v].key /\ tx'[v].op = tx[v].op
    <3> DEFINE prev == IF table = {} THEN NoOne ELSE ChainHead.id
               time == IF table # {} /\ ChainHead.time >= clock[w] THEN ChainHead.time + 1 ELSE clock[w]
    <3>1. /\ table' = table /\ stored' = stored /\ doubtful' = doubtful
          /\ \/ tx' = [tx EXCEPT ![w].at = "locked"]
             \/ tx' = [tx EXCEPT ![w].at = "stamped", ![w].prev = prev, ![w].time = time]
      BY <1>4 DEF TakeLock, Stamp
    <3>. HIDE DEF prev, time
    <3>. QED  BY <1>0, <3>1 DEF AppendState
  <2>. QED  BY <1>0, <1>1, <2>1 DEF AppendsFollowStore
<1>5. ASSUME NEW w \in Writers, CommitEvent(w)  PROVE AppendsFollowStore'
  <2>1. PICK e : /\ table' = table \cup {e} /\ e \notin table
                 /\ e.key = tx[w].key /\ e.op = tx[w].op
                 /\ e \in Event /\ \A o \in table : o.time < e.time
    BY <1>5, StampedIsNext
  <2>2. /\ \A v \in Writers \ {w} : tx'[v] = tx[v]
        /\ tx'[w].key = NoOne /\ stored' = stored /\ doubtful' = doubtful
    BY <1>0, <1>5 DEF CommitEvent, Idle
  <2>3. \A o \in table : Earlier(o, e) /\ ~Earlier(e, o)
    BY <1>0, <2>1 DEF Earlier, Event, TypeOK
  <2>4. \A k \in MemKeys \ {e.key} : k \in ActiveKeys' <=> k \in ActiveKeys
    BY <2>1 DEF ActiveKeys, Earlier
  <2>5. e.key \in ActiveKeys' <=> e.op # "forget"
    <3>1. e.key \in MemKeys
      BY <2>1 DEF Event
    <3>2. e.op # "forget" => e.key \in ActiveKeys'
      BY <2>1, <2>3, <3>1 DEF ActiveKeys, Earlier
    <3>3. ASSUME e.key \in ActiveKeys'  PROVE e.op # "forget"
      <4>1. PICK d \in table' : /\ d.key = e.key /\ d.op # "forget"
                                /\ \A o \in table' \ {d} : o.key = e.key => Earlier(o, d)
        BY <3>3 DEF ActiveKeys, Earlier
      <4>. QED  BY <4>1, <2>1, <2>3
    <3>. QED  BY <3>2, <3>3
  <2>. QED  BY <1>0, <2>1, <2>2, <2>4, <2>5, NoOneAssumption DEF AppendsFollowStore
<1>6. ASSUME NEW w \in Writers, LockTimeout(w) \/ Abort(w)  PROVE AppendsFollowStore'
  BY <1>3, <1>6 DEF LockTimeout, Abort
<1>7. CASE UNCHANGED vars \/ \E w \in Writers : SetClock(w)
  BY <1>0, <1>1, <1>7 DEF vars, SetClock, AppendsFollowStore
<1>8. ASSUME NEW k \in MemKeys, RollBack(k) \/ Promote(k) \/ Prune(k)  PROVE AppendsFollowStore'
  <2>1. /\ table' = table /\ tx' = tx /\ doubtful' = doubtful \cup {k}
        /\ \A j \in MemKeys \ {k} : j \in stored' <=> j \in stored
    BY <1>8 DEF RollBack, Promote, Prune, Unrecorded
  <2>. QED  BY <1>0, <1>1, <2>1 DEF AppendsFollowStore
<1>. QED  BY <1>2, <1>4, <1>5, <1>6, <1>7, <1>8 DEF Next

LEMMA Invariance == Spec => []IInv
<1>1. IInv /\ [Next]_vars => IInv'
  BY NextTypeOK, NextTableIsChain, NextStampsAreLatest, NextAppendsFollowStore DEF IInv
<1>. QED  BY <1>1, InitIInv, PTL DEF Spec

-----------------------------------------------------------------------------
(* The theorems *)

\* Every reachable state is well typed, and the lock is held by the writer that
\* is past it and by no other.
THEOREM TypeCorrect == Spec => []TypeOK
BY Invariance, PTL DEF IInv

\* Read in the order of its times the ledger is one chain, whatever the clocks
\* say and whichever appends are lost; and between the appends it says of every key
\* what the store does, unless the last change of its row left no event, lost it or
\* was one of two at once.  A write of the key that nothing disturbs ends the doubt.
THEOREM LedgerStaysWhole == Spec => []LedgerIsWhole
<1>1. IInv => OneChain
  <2>. SUFFICES ASSUME IInv  PROVE OneChain
    OBVIOUS
  <2>1. PICK s \in [1..Cardinality(table) -> table] : Enumerates(s, table) /\ Linked(s)
    BY DEF IInv, TableIsChain
  <2>2. InOrder = s
    BY <2>1, InOrderIsIt DEF IInv
  <2>. QED  BY <2>1, <2>2 DEF Linked, OneChain
<1>2. IInv => LedgerFollowsStore
  BY NoOneAssumption DEF IInv, AppendsFollowStore, LedgerFollowsStore, TypeOK, AllIdle
<1>. QED  BY <1>1, <1>2, Invariance, PTL DEF LedgerIsWhole

\* The ledger implements an append-only log: its events have one order, and all
\* that ever happens to it is that another one is added at the end.
THEOREM Implements == Spec => IsAppendOnly
<1> DEFINE ids == [i \in 1..Cardinality(table) |-> InOrder[i].id]
<1>1. Init => Log!Init
  <2>. SUFFICES ASSUME Init  PROVE Log!Init
    OBVIOUS
  <2>1. Cardinality(table) = 0
    BY FS_EmptySet DEF Init
  <2>2. ids = << >>
    BY <2>1
  <2>. QED  BY <2>2 DEF Log!Init
<1>2. (TypeOK /\ TableIsChain => \A s : Enumerates(s, table) => InOrder = s)'
  BY OneInOrder, PTL
<1>3. IInv /\ [Next]_vars => [Log!Next]_ids
  <2>. SUFFICES ASSUME IInv, [Next]_vars  PROVE [Log!Next]_ids
    OBVIOUS
  <2>1. CASE table' = table
    <3>1. InOrder' = InOrder
      BY <2>1 DEF InOrder, Earlier
    <3>. QED  BY <2>1, <3>1
  <2>2. ASSUME NEW w \in Writers, CommitEvent(w)  PROVE Log!Next
    <3> DEFINE n == Cardinality(table)
    <3>1. PICK s \in [1..n -> table] : Enumerates(s, table)
      BY DEF IInv, TableIsChain
    <3>2. PICK e : table' = table \cup {e} /\ e \in Event /\ \A o \in table : o.time < e.time
      BY <2>2, StampedIsNext
    <3> DEFINE r == [i \in 1..n + 1 |-> IF i <= n THEN s[i] ELSE e]
    <3>3. Cardinality(table') = n + 1 /\ Enumerates(r, table')
      BY <3>1, <3>2, AppendAtEnd DEF IInv, Event
    <3>4. InOrder = s
      BY <3>1, InOrderIsIt DEF IInv
    <3>5. InOrder' = r
      <4>1. TypeOK' /\ TableIsChain'
        BY NextTypeOK, NextTableIsChain
      <4>. QED  BY <4>1, <3>3, <1>2
    <3>6. n \in Nat
      BY FS_CardinalityType DEF IInv, TableIsChain
    <3> DEFINE Ids == 1..MaxEvents
               old == [i \in 1..n |-> s[i].id]
               new == [i \in 1..n + 1 |-> r[i].id]
    <3>7. ids = old /\ ids' = new
      BY <3>3, <3>4, <3>5
    <3>8. new = Append(old, e.id)
      <4>1. \A i \in 1..n : s[i].id \in Ids /\ r[i] = s[i]
        BY <3>1, <3>6 DEF Enumerates, IInv, TypeOK, Event
      <4>2. e.id \in Ids /\ r[n + 1] = e
        BY <3>2, <3>6 DEF Event
      <4>. HIDE DEF n, r, Ids, ids
      <4>3. old \in Seq(Ids) /\ Len(old) = n /\ \A i \in 1..n : old[i] = s[i].id
        BY <4>1, <3>6
      <4>4. new \in Seq(Ids) /\ Len(new) = n + 1 /\ \A i \in 1..n + 1 : new[i] = r[i].id
        BY <4>1, <4>2, <3>6
      <4>. HIDE DEF old, new
      <4>5. /\ Append(old, e.id) \in Seq(Ids) /\ Len(Append(old, e.id)) = n + 1
            /\ \A i \in 1..n + 1 : Append(old, e.id)[i] = IF i <= n THEN old[i] ELSE e.id
        BY <4>2, <4>3, <3>6, AppendProperties
      <4>6. \A i \in 1..n + 1 : new[i] = Append(old, e.id)[i]
        BY <4>1, <4>2, <4>3, <4>4, <4>5, <3>6
      <4>. QED  BY <4>4, <4>5, <4>6, SeqEqual
    <3>. QED  BY <3>2, <3>7, <3>8 DEF Log!Next, Log!Add, Event
  <2>. QED
    BY <2>1, <2>2 DEF Next, vars, Write, TakeLock, LockTimeout, Lose, Stamp, Abort, SetClock,
                            RollBack, Promote, Prune, Unrecorded
<1>. QED  BY <1>1, <1>3, Invariance, PTL DEF Spec, IsAppendOnly, Log!Spec

-----------------------------------------------------------------------------
(* Places in an order *)

\* R orders S strictly and totally.
Orders(R, S) ==
    /\ \A a \in S : <<a, a>> \notin R
    /\ \A a, b \in S : a # b => <<a, b>> \in R \/ <<b, a>> \in R
    /\ \A a, b, c \in S : <<a, b>> \in R /\ <<b, c>> \in R => <<a, c>> \in R

Before(R, S, x) == {y \in S : <<y, x>> \in R}

\* The number of elements before it is the place of an element, and no two have
\* the same.
LEMMA PlacesDiffer ==
    ASSUME NEW S, IsFiniteSet(S), NEW R, Orders(R, S)
    PROVE  [x \in S |-> Cardinality(Before(R, S, x))] \in Injection(S, 0..Cardinality(S) - 1)
<1> DEFINE f == [x \in S |-> Cardinality(Before(R, S, x))]
<1>1. \A x \in S : IsFiniteSet(Before(R, S, x)) /\ Cardinality(Before(R, S, x)) \in Nat
  BY FS_Subset, FS_CardinalityType DEF Before
<1>2. ASSUME NEW x \in S, NEW T, x \in T, T \subseteq S, Before(R, S, x) \subseteq T
      PROVE  Cardinality(Before(R, S, x)) < Cardinality(T)
  <2>1. IsFiniteSet(T) /\ Cardinality(T) \in Nat
    BY <1>2, FS_Subset, FS_CardinalityType
  <2>2. x \notin Before(R, S, x)
    BY DEF Orders, Before
  <2>. QED  BY <1>1, <1>2, <2>1, <2>2, FS_Subset
<1>3. \A x \in S : f[x] \in 0..Cardinality(S) - 1
  <2>1. Cardinality(S) \in Nat
    BY FS_CardinalityType
  <2>2. ASSUME NEW x \in S PROVE Cardinality(Before(R, S, x)) < Cardinality(S)
    BY <1>2 DEF Before
  <2>. QED  BY <1>1, <2>1, <2>2
<1>4. ASSUME NEW x \in S, NEW y \in S, <<x, y>> \in R PROVE f[x] < f[y]
  <2>1. Before(R, S, x) \subseteq Before(R, S, y) /\ x \in Before(R, S, y) /\ Before(R, S, y) \subseteq S
    BY <1>4 DEF Orders, Before
  <2>. QED  BY <1>2, <2>1
<1>5. \A x, y \in S : f[x] = f[y] => x = y
  <2>. SUFFICES ASSUME NEW x \in S, NEW y \in S, x # y PROVE f[x] # f[y]
    OBVIOUS
  <2>1. <<x, y>> \in R \/ <<y, x>> \in R
    BY DEF Orders
  <2>2. f[x] \in Nat /\ f[y] \in Nat
    BY <1>1
  <2>. HIDE DEF f
  <2>3. f[x] < f[y] \/ f[y] < f[x]
    BY <1>4, <2>1
  <2>. QED  BY <2>2, <2>3
<1>6. f \in [S -> 0..Cardinality(S) - 1]
  BY <1>3
<1>. QED  BY <1>5, <1>6 DEF Injection, IsInjective

\* Every place is taken, and no more than n are among the first n.
LEMMA Places ==
    ASSUME NEW S, IsFiniteSet(S), NEW R, Orders(R, S)
    PROVE  /\ \A i \in 1..Cardinality(S) : \E x \in S : Cardinality(Before(R, S, x)) = i - 1
           /\ \A n \in Nat : LET first == {x \in S : Cardinality(Before(R, S, x)) < n}
                             IN  IsFiniteSet(first) /\ Cardinality(first) <= n
<1> DEFINE f == [x \in S |-> Cardinality(Before(R, S, x))]
           c == Cardinality(S)
<1>1. f \in Injection(S, 0..c - 1)
  BY PlacesDiffer
<1>2. c \in Nat
  BY FS_CardinalityType
<1>3. IsFiniteSet(0..c - 1) /\ Cardinality(0..c - 1) = c
  BY <1>2, FS_Interval
<1>4. f \in Surjection(S, 0..c - 1)
  BY <1>1, <1>3, FS_Injection
<1>5. ASSUME NEW i \in 1..c PROVE \E x \in S : Cardinality(Before(R, S, x)) = i - 1
  <2>1. i - 1 \in 0..c - 1
    BY <1>2
  <2>2. PICK x \in S : f[x] = i - 1
    BY <1>4, <2>1 DEF Surjection
  <2>. QED  BY <2>2
<1>6. ASSUME NEW n \in Nat
      PROVE  LET first == {x \in S : Cardinality(Before(R, S, x)) < n}
             IN  IsFiniteSet(first) /\ Cardinality(first) <= n
  <2> DEFINE first == {x \in S : Cardinality(Before(R, S, x)) < n}
             g == [x \in first |-> f[x]]
  <2>1. IsFiniteSet(first) /\ Cardinality(first) \in Nat
    BY FS_Subset, FS_CardinalityType
  <2>2. \A x \in first : f[x] \in 0..n - 1
    BY <1>1, <1>2 DEF Injection
  <2>3. \A x, y \in first : f[x] = f[y] => x = y
    BY <1>1 DEF Injection, IsInjective
  <2>. HIDE DEF f, first
  <2>4. g \in Injection(first, 0..n - 1)
    BY <2>2, <2>3 DEF Injection, IsInjective
  <2>5. IsFiniteSet(0..n - 1) /\ Cardinality(0..n - 1) = n
    BY FS_Interval
  <2>6. Cardinality(first) <= n
    BY <2>4, <2>5, FS_Injection
  <2>. QED  BY <2>1, <2>6 DEF first
<1>. QED  BY <1>5, <1>6

-----------------------------------------------------------------------------
(* The hosted indexer *)

Texts    == [word : Words, stamp : 1..MaxStamp]
BackOffs == [word : Words, left : 0..MaxDelay, delay : 1..MaxDelay]
Items    == [key : EntryKeys, word : Words, stamp : 1..MaxStamp, known : Words \cup {Nothing}]

IndexerTypes ==
    /\ entry \in [EntryKeys -> Texts \cup {Nothing}]
    /\ past \in [EntryKeys -> SUBSET Texts]
    /\ vector \in [EntryKeys -> Texts \cup {Nothing}]
    /\ stamp \in 0..MaxStamp
    /\ backoff \in [EntryKeys -> BackOffs \cup {Nothing}]
    /\ queue \in Seq(Items) /\ Len(queue) <= PerPass
    /\ working \in BOOLEAN
    /\ result \in Items \cup {Nothing}

\* What a pass works on: the entries it fetched, the first one embedded or not.
PassInv ==
    /\ ~working => queue = << >>
    /\ result # Nothing => queue # << >> /\ result = Head(queue) /\ result.known # result.word
    /\ \A i, j \in DOMAIN queue : queue[i].key = queue[j].key => queue[i] = queue[j]

\* A text that was there already is still the one of the vector.
KnownIsTheVectors ==
    \A i \in DOMAIN queue :
        queue[i].known = queue[i].word =>
            \/ vector[queue[i].key] = Nothing
            \/ vector[queue[i].key].word = queue[i].word

\* A history of saves that explains all that is around: the key and the text of
\* every stamp.
Says(h, k, e) == e.stamp \in DOMAIN h /\ h[e.stamp].key = k /\ h[e.stamp].word = e.word

Explains(h) ==
    /\ \A k \in EntryKeys :
        /\ entry[k] # Nothing => Says(h, k, entry[k])
        /\ \A e \in past[k] : Says(h, k, e)
        /\ vector[k] # Nothing => Says(h, k, vector[k])
    /\ \A i \in DOMAIN queue : Says(h, queue[i].key, queue[i])

Histories == [1..stamp -> [key : EntryKeys, word : Words]]

IndexerInv ==
    /\ IndexerTypes /\ PassInv /\ KnownIsTheVectors
    /\ \E h \in Histories : Explains(h)
    /\ HI!ForgottenHasNoVector

LEMMA IndexerConstants ==
    /\ IsFiniteSet(EntryKeys) /\ PerPass \in Nat /\ MaxDelay \in Nat \ {0}
    /\ MaxStamp \in Nat /\ MaxTrouble \in Nat
    /\ Nothing \notin Words /\ Nothing \notin Texts /\ Nothing \notin BackOffs /\ Nothing \notin Items
<1>1. HI!ConstantsFit
  BY UpkeepConstants
<1>2. IsFiniteSet(EntryKeys)
  BY <1>1 DEF HI!ConstantsFit, HI!IsFiniteSet, IsFiniteSet
<1>3. MaxStamp \in Nat /\ MaxDelay \in Nat
  BY <1>1 DEF HI!ConstantsFit
<1>4. /\ Texts \subseteq [word : Words, stamp : Nat]
      /\ BackOffs \subseteq [word : Words, left : Nat, delay : Nat]
      /\ Items \subseteq [key : EntryKeys, word : Words, stamp : Nat, known : Words \cup {Nothing}]
  BY <1>3 DEF Texts, BackOffs, Items
<1>. QED  BY <1>1, <1>2, <1>4 DEF HI!ConstantsFit

LEMMA IndexerSets == ASSUME NEW S PROVE HI!Cardinality(S) = Cardinality(S)
BY DEF HI!Cardinality, Cardinality

LEMMA QueueOfItems == ASSUME IndexerInv, NEW i \in DOMAIN queue PROVE queue[i] \in Items /\ queue[i].key \in EntryKeys
<1>1. queue \in Seq(Items)
  BY DEF IndexerInv, IndexerTypes
<1>2. queue[i] \in Items
  BY <1>1
<1>. QED  BY <1>2 DEF Items

LEMMA IndexerStarts == ASSUME HI!Init PROVE IndexerInv
<1>. USE IndexerConstants DEF HI!Init
<1>1. IndexerTypes
  <2>1. << >> \in Seq(Items) /\ Len(<< >>) <= PerPass /\ 0 \in 0..MaxStamp
    OBVIOUS
  <2>2. /\ [k \in EntryKeys |-> Nothing] \in [EntryKeys -> Texts \cup {Nothing}]
        /\ [k \in EntryKeys |-> Nothing] \in [EntryKeys -> BackOffs \cup {Nothing}]
        /\ [k \in EntryKeys |-> {}] \in [EntryKeys -> SUBSET Texts]
    OBVIOUS
  <2>. QED  BY <2>1, <2>2 DEF IndexerTypes
<1>2. PassInv /\ KnownIsTheVectors /\ HI!ForgottenHasNoVector
  BY DEF PassInv, KnownIsTheVectors, HI!ForgottenHasNoVector
<1>3. \E h \in Histories : Explains(h)
  <2>1. \A h : Explains(h)
    BY DEF Explains
  <2>2. [t \in 1..0 |-> [key |-> Nothing, word |-> Nothing]] \in Histories
    BY DEF Histories
  <2>. QED  BY <2>1, <2>2
<1>. QED  BY <1>1, <1>2, <1>3 DEF IndexerInv

\* No two entries have the same updated_at.
LEMMA NewestOrders ==
    ASSUME IndexerInv, NEW S \in SUBSET HI!Stored
    PROVE  LET R == {p \in S \X S : entry[p[1]].stamp > entry[p[2]].stamp}
           IN  Orders(R, S) /\ \A k \in S : HI!Newer(S, k) = Before(R, S, k)
<1> DEFINE R == {p \in S \X S : entry[p[1]].stamp > entry[p[2]].stamp}
<1>1. PICK h \in Histories : Explains(h)
  BY DEF IndexerInv
<1>2. \A k \in S : k \in EntryKeys /\ entry[k] # Nothing /\ entry[k].stamp \in Nat /\ Says(h, k, entry[k])
  BY <1>1 DEF HI!Stored, Explains, IndexerInv, IndexerTypes, Texts
<1>3. ASSUME NEW a \in S, NEW b \in S, a # b PROVE entry[a].stamp # entry[b].stamp
  <2>1. h[entry[a].stamp].key = a /\ h[entry[b].stamp].key = b
    BY <1>2 DEF Says
  <2>. QED  BY <1>3, <2>1
<1>4. \A a, b \in S : <<a, b>> \in R <=> entry[a].stamp > entry[b].stamp
  OBVIOUS
<1>5. \A k \in S : HI!Newer(S, k) = Before(R, S, k)
  BY <1>4 DEF HI!Newer, Before
<1>. HIDE DEF R
<1>6. Orders(R, S)
  BY <1>2, <1>3, <1>4 DEF Orders
<1>. QED  BY <1>5, <1>6 DEF R

LEMMA NewestFew ==
    ASSUME IndexerInv, NEW S \in SUBSET HI!Stored, NEW n \in Nat
    PROVE  /\ HI!Newest(S, n) \subseteq S
           /\ IsFiniteSet(HI!Newest(S, n)) /\ Cardinality(HI!Newest(S, n)) <= n
<1> DEFINE R == {p \in S \X S : entry[p[1]].stamp > entry[p[2]].stamp}
<1>1. Orders(R, S) /\ \A k \in S : HI!Newer(S, k) = Before(R, S, k)
  BY NewestOrders
<1>2. IsFiniteSet(S)
  BY IndexerConstants, FS_Subset DEF HI!Stored
<1>. HIDE DEF R
<1>3. HI!Newest(S, n) = {x \in S : Cardinality(Before(R, S, x)) < n}
  BY <1>1, IndexerSets DEF HI!Newest
<1>. QED  BY <1>1, <1>2, <1>3, Places

LEMMA NewestFirstIsOf ==
    ASSUME IndexerInv, NEW S \in SUBSET HI!Stored
    PROVE  /\ HI!NewestFirst(S) = [i \in 1..Cardinality(S) |-> HI!NewestFirst(S)[i]]
           /\ \A i \in 1..Cardinality(S) : HI!NewestFirst(S)[i] \in S
<1> DEFINE R == {p \in S \X S : entry[p[1]].stamp > entry[p[2]].stamp}
<1>1. Orders(R, S) /\ \A k \in S : HI!Newer(S, k) = Before(R, S, k)
  BY NewestOrders
<1>2. IsFiniteSet(S)
  BY IndexerConstants, FS_Subset DEF HI!Stored
<1>. HIDE DEF R
<1>3. ASSUME NEW i \in 1..Cardinality(S)
      PROVE  \E x \in S : Cardinality(HI!Newer(S, x)) = i - 1
  BY <1>1, <1>2, Places
<1>. QED  BY <1>3, IndexerSets DEF HI!NewestFirst

\* What a pass fetches: entries that have no vector of their own, a bounded number.
LEMMA Fetched ==
    ASSUME IndexerInv, HI!Fetch
    PROVE  /\ queue' \in Seq(Items) /\ Len(queue') <= PerPass
           /\ \A i \in DOMAIN queue' : \E k \in HI!Candidate : queue'[i] = HI!Item(k)
<1>. USE IndexerConstants
<1> DEFINE limit == PerPass + HI!Cardinality(HI!Waiting) + 1
           seen == HI!Newest(HI!Candidate, limit)
           few == HI!Newest(seen \ HI!Waiting, PerPass)
           due == HI!NewestFirst(few)
<1>1. queue' = [i \in DOMAIN due |-> HI!Item(due[i])]
  BY DEF HI!Fetch
<1>2. limit \in Nat
  <2>1. IsFiniteSet(HI!Waiting)
    BY FS_Subset DEF HI!Waiting
  <2>. QED  BY <2>1, FS_CardinalityType, IndexerSets
<1>3. HI!Candidate \subseteq HI!Stored
  BY DEF HI!Candidate
<1>. HIDE DEF limit
<1>4. seen \subseteq HI!Candidate
  BY <1>2, <1>3, NewestFew
<1>. HIDE DEF seen
<1>5. few \subseteq HI!Candidate /\ IsFiniteSet(few) /\ Cardinality(few) <= PerPass
  BY <1>3, <1>4, NewestFew
<1>. HIDE DEF few
<1>6. DOMAIN due = 1..Cardinality(few) /\ \A i \in 1..Cardinality(few) : due[i] \in HI!Candidate
  BY <1>3, <1>5, NewestFirstIsOf
<1>. HIDE DEF due
<1>7. Cardinality(few) \in Nat
  BY <1>5, FS_CardinalityType
<1>8. ASSUME NEW k \in HI!Candidate PROVE HI!Item(k) \in Items
  <2>1. k \in EntryKeys /\ entry[k] \in Texts /\ vector[k] \in Texts \cup {Nothing}
    BY DEF HI!Candidate, HI!Stored, IndexerInv, IndexerTypes
  <2>. QED  BY <2>1 DEF HI!Item, Items, Texts
<1>9. queue' = [i \in 1..Cardinality(few) |-> HI!Item(due[i])]
  BY <1>1, <1>6
<1>10. queue' \in Seq(Items) /\ Len(queue') = Cardinality(few)
  BY <1>6, <1>7, <1>8, <1>9
<1>. QED  BY <1>5, <1>6, <1>7, <1>9, <1>10

LEMMA SaveKeeps ==
    ASSUME IndexerInv, NEW k \in EntryKeys, NEW w \in Words, HI!Save(k, w)  PROVE IndexerInv'
<1>. USE IndexerConstants
<1>0. IndexerTypes
  BY DEF IndexerInv
<1>1. PICK e \in Texts : e = [word |-> w, stamp |-> stamp + 1] /\ e.word = w /\ e.stamp = stamp + 1
  BY <1>0 DEF HI!Save, IndexerTypes, Texts
<1>2. /\ entry' = [entry EXCEPT ![k] = e] /\ past' = [past EXCEPT ![k] = @ \cup {e}]
      /\ stamp' = stamp + 1 /\ stamp' \in 1..MaxStamp /\ vector' = vector
      /\ UNCHANGED <<backoff, queue, working, result, trouble>>
  BY <1>0, <1>1 DEF HI!Save, HI!UNCHANGED_index, IndexerTypes
<1>3. IndexerTypes'
  BY <1>0, <1>1, <1>2 DEF IndexerTypes
<1>4. PassInv' /\ KnownIsTheVectors'
  BY <1>2 DEF IndexerInv, PassInv, KnownIsTheVectors
<1>5. HI!ForgottenHasNoVector'
  BY <1>0, <1>1, <1>2 DEF IndexerInv, HI!ForgottenHasNoVector, IndexerTypes
<1>6. \E h \in Histories' : Explains(h)'
  <2>1. PICK h \in Histories : Explains(h)
    BY DEF IndexerInv
  <2>0. PICK g : g = [t \in 1..stamp' |-> IF t = stamp' THEN [key |-> k, word |-> w] ELSE h[t]]
    OBVIOUS
  <2>2. g \in Histories'
    BY <1>0, <1>2, <2>0, <2>1 DEF Histories, IndexerTypes
  <2>3. \A j \in EntryKeys : \A d : Says(h, j, d) => Says(g, j, d)
    BY <1>0, <1>2, <2>0, <2>1 DEF Histories, Says, IndexerTypes
  <2>4. Says(g, k, e)
    BY <1>0, <1>1, <1>2, <2>0 DEF Says, IndexerTypes
  <2>5. \A i \in DOMAIN queue : queue[i].key \in EntryKeys
    BY QueueOfItems
  <2>6. Explains(g)'
    <3>1. ASSUME NEW j \in EntryKeys
          PROVE  /\ entry'[j] # Nothing => Says(g, j, entry'[j])
                 /\ \A d \in past'[j] : Says(g, j, d)
                 /\ vector'[j] # Nothing => Says(g, j, vector'[j])
      BY <1>0, <1>2, <2>1, <2>3, <2>4 DEF Explains, IndexerTypes
    <3>2. \A i \in DOMAIN queue' : Says(g, queue'[i].key, queue'[i])
      BY <1>2, <2>1, <2>3, <2>5 DEF Explains
    <3>. QED  BY <3>1, <3>2 DEF Explains, Says
  <2>. QED  BY <2>2, <2>6
<1>. QED  BY <1>3, <1>4, <1>5, <1>6 DEF IndexerInv

\* A step that saves nothing keeps the history if what it leaves was there.
LEMMA HistoryStays ==
    ASSUME IndexerInv, stamp' = stamp,
           \A k \in EntryKeys :
              /\ entry'[k] # Nothing => entry'[k] = entry[k] \/ entry'[k] \in past[k]
              /\ past'[k] \subseteq past[k]
              /\ vector'[k] # Nothing =>
                    \/ vector'[k] = vector[k]
                    \/ \E i \in DOMAIN queue : /\ queue[i].key = k /\ queue[i].word = vector'[k].word
                                               /\ queue[i].stamp = vector'[k].stamp,
           \A i \in DOMAIN queue' :
              \/ \E j \in DOMAIN queue : queue'[i] = queue[j]
              \/ \E k \in HI!Stored : queue'[i] = HI!Item(k)
    PROVE  \E h \in Histories' : Explains(h)'
<1>1. PICK h \in Histories : Explains(h)
  BY DEF IndexerInv
<1>2. h \in Histories'
  BY <1>1 DEF Histories
<1>3. ASSUME NEW k \in EntryKeys
      PROVE  /\ entry'[k] # Nothing => Says(h, k, entry'[k])
             /\ \A e \in past'[k] : Says(h, k, e)
             /\ vector'[k] # Nothing => Says(h, k, vector'[k])
  <2>1. entry'[k] # Nothing => Says(h, k, entry'[k])
    BY <1>1 DEF Explains
  <2>2. \A e \in past'[k] : Says(h, k, e)
    BY <1>1 DEF Explains
  <2>3. vector'[k] # Nothing => Says(h, k, vector'[k])
    BY <1>1 DEF Explains, Says
  <2>. QED  BY <2>1, <2>2, <2>3
<1>4. ASSUME NEW i \in DOMAIN queue' PROVE Says(h, queue'[i].key, queue'[i])
  BY <1>1 DEF Explains, Says, HI!Stored, HI!Item
<1>5. Explains(h)'
  BY <1>3, <1>4 DEF Explains, Says
<1>. QED  BY <1>2, <1>5

LEMMA RestoreKeeps ==
    ASSUME IndexerInv, NEW k \in EntryKeys, HI!Restore(k) \/ HI!Forget(k)  PROVE IndexerInv'
<1>. USE IndexerConstants
<1>0. IndexerTypes
  BY DEF IndexerInv
<1>1. /\ UNCHANGED <<backoff, queue, working, result, trouble, stamp>>
      /\ entry' = [j \in EntryKeys |-> entry'[j]]
      /\ \A j \in EntryKeys : /\ entry'[j] = entry[j] \/ entry'[j] = Nothing \/ entry'[j] \in past[j]
                              /\ past'[j] \subseteq past[j]
                              /\ vector'[j] \in {vector[j], Nothing}
                              /\ entry'[j] = Nothing => vector'[j] = Nothing
  BY <1>0 DEF HI!Restore, HI!Forget, HI!UNCHANGED_index, IndexerTypes, IndexerInv, HI!ForgottenHasNoVector
<1>2. past' \in [EntryKeys -> SUBSET Texts] /\ vector' \in [EntryKeys -> Texts \cup {Nothing}]
  BY <1>0 DEF HI!Restore, HI!Forget, IndexerTypes
<1>3. entry' \in [EntryKeys -> Texts \cup {Nothing}]
  BY <1>0, <1>1 DEF IndexerTypes
<1>4. IndexerTypes'
  BY <1>0, <1>1, <1>2, <1>3 DEF IndexerTypes
<1>5. PassInv' /\ KnownIsTheVectors'
  <2>1. \A i \in DOMAIN queue : queue[i].key \in EntryKeys
    BY QueueOfItems
  <2>. QED  BY <1>1, <2>1 DEF IndexerInv, PassInv, KnownIsTheVectors
<1>6. \E h \in Histories' : Explains(h)'
  BY <1>1, HistoryStays
<1>. QED  BY <1>1, <1>4, <1>5, <1>6 DEF IndexerInv, HI!ForgottenHasNoVector

LEMMA FetchKeeps == ASSUME IndexerInv, HI!Fetch PROVE IndexerInv'
<1>. USE IndexerConstants
<1>0. IndexerTypes
  BY DEF IndexerInv
<1>1. /\ UNCHANGED <<entry, past, vector, stamp, result, trouble>>
      /\ working' = TRUE /\ ~working /\ queue = << >> /\ result = Nothing
  BY DEF HI!Fetch, IndexerInv, PassInv
<1>2. backoff' \in [EntryKeys -> BackOffs \cup {Nothing}]
  <2>1. ASSUME NEW k \in HI!Waiting PROVE [backoff[k] EXCEPT !.left = @ - 1] \in BackOffs
    <3>1. backoff[k] \in BackOffs /\ backoff[k].left > 0
      BY <1>0 DEF HI!Waiting, IndexerTypes
    <3>. QED  BY <3>1 DEF BackOffs
  <2>2. \A k \in EntryKeys : backoff'[k] \in {Nothing, backoff[k]} \/ (k \in HI!Waiting /\ backoff'[k] = [backoff[k] EXCEPT !.left = @ - 1])
    BY DEF HI!Fetch
  <2>3. backoff' = [k \in EntryKeys |-> backoff'[k]]
    BY DEF HI!Fetch
  <2>4. ASSUME NEW k \in EntryKeys PROVE backoff'[k] \in BackOffs \cup {Nothing}
    <3>1. backoff[k] \in BackOffs \cup {Nothing}
      BY <1>0 DEF IndexerTypes
    <3>. QED  BY <3>1, <2>1, <2>2
  <2>. QED  BY <2>3, <2>4
<1>3. /\ queue' \in Seq(Items) /\ Len(queue') <= PerPass
      /\ \A i \in DOMAIN queue' : \E k \in HI!Candidate : queue'[i] = HI!Item(k)
  BY Fetched
<1>4. IndexerTypes'
  BY <1>0, <1>1, <1>2, <1>3 DEF IndexerTypes
<1>5. ASSUME NEW k PROVE HI!Item(k).key = k /\ HI!Item(k).word = entry[k].word
                         /\ HI!Item(k).known = IF vector[k] = Nothing THEN Nothing ELSE vector[k].word
  BY DEF HI!Item
<1>6. PassInv'
  BY <1>1, <1>3, <1>5 DEF PassInv
<1>7. KnownIsTheVectors'
  <2>1. ASSUME NEW k \in HI!Candidate, HI!Item(k).known = HI!Item(k).word
        PROVE  vector[k] = Nothing \/ vector[k].word = HI!Item(k).word
    BY <2>1, <1>5
  <2>. QED  BY <1>1, <1>3, <1>5, <2>1 DEF KnownIsTheVectors
<1>8. \E h \in Histories' : Explains(h)'
  BY <1>1, <1>3, HistoryStays DEF HI!Candidate
<1>. QED  BY <1>1, <1>4, <1>6, <1>7, <1>8 DEF IndexerInv, HI!ForgottenHasNoVector

\* The first item of a pass is done, and what is left of it.
LEMMA TailOfPass ==
    ASSUME IndexerInv, queue # << >>
    PROVE  /\ HI!Now \in Items /\ HI!Now = queue[1] /\ 1 \in DOMAIN queue
           /\ Tail(queue) \in Seq(Items) /\ Len(Tail(queue)) <= PerPass
           /\ \A i \in DOMAIN Tail(queue) : \E j \in DOMAIN queue : Tail(queue)[i] = queue[j]
           /\ working
<1>. USE IndexerConstants
<1>1. queue \in Seq(Items) /\ Len(queue) <= PerPass
  BY DEF IndexerInv, IndexerTypes
<1>2. \A i \in DOMAIN Tail(queue) : i + 1 \in DOMAIN queue /\ Tail(queue)[i] = queue[i + 1]
  BY <1>1
<1>3. working
  BY DEF IndexerInv, IndexerTypes, PassInv
<1>4. Len(Tail(queue)) <= PerPass
  BY <1>1
<1>. QED  BY <1>1, <1>2, <1>3, <1>4 DEF HI!Now

\* A step that ends the work on the first item, and writes no vector but its own.
LEMMA ItemDone ==
    ASSUME IndexerInv, queue # << >>, queue' = Tail(queue), result' = Nothing,
           UNCHANGED <<entry, past, stamp, working>>,
           backoff' \in [EntryKeys -> BackOffs \cup {Nothing}],
           vector' \in [EntryKeys -> Texts \cup {Nothing}],
           \A k \in EntryKeys :
              \/ vector'[k] = vector[k]
              \/ /\ k = HI!Now.key /\ entry[k] # Nothing
                 /\ vector'[k] = [word |-> HI!Now.word, stamp |-> HI!Now.stamp]
                 /\ HI!Now.known = HI!Now.word => vector[k].word = HI!Now.word
    PROVE  IndexerInv'
<1>. USE IndexerConstants, TailOfPass
<1>0. IndexerTypes
  BY DEF IndexerInv
<1>1. IndexerTypes'
  BY <1>0 DEF IndexerTypes
<1>2. PassInv'
  <2>1. \A i, j \in DOMAIN Tail(queue) : Tail(queue)[i].key = Tail(queue)[j].key => Tail(queue)[i] = Tail(queue)[j]
    <3>. SUFFICES ASSUME NEW i \in DOMAIN Tail(queue), NEW j \in DOMAIN Tail(queue),
                         Tail(queue)[i].key = Tail(queue)[j].key
                  PROVE  Tail(queue)[i] = Tail(queue)[j]
      OBVIOUS
    <3>1. PICK a \in DOMAIN queue : Tail(queue)[i] = queue[a]
      OBVIOUS
    <3>2. PICK b \in DOMAIN queue : Tail(queue)[j] = queue[b]
      OBVIOUS
    <3>. QED  BY <3>1, <3>2 DEF IndexerInv, PassInv
  <2>. QED  BY <2>1 DEF PassInv
<1>3. ASSUME NEW j \in DOMAIN queue, queue[j].known = queue[j].word
      PROVE  vector'[queue[j].key] = Nothing \/ vector'[queue[j].key].word = queue[j].word
  <2>1. queue[j].key \in EntryKeys
    BY QueueOfItems
  <2>2. vector[queue[j].key] = Nothing \/ vector[queue[j].key].word = queue[j].word
    BY <1>3 DEF IndexerInv, KnownIsTheVectors
  <2>3. CASE vector'[queue[j].key] = vector[queue[j].key]
    BY <2>2, <2>3
  <2>4. CASE queue[j].key = HI!Now.key /\ vector'[queue[j].key] = [word |-> HI!Now.word, stamp |-> HI!Now.stamp]
    <3>1. queue[j] = HI!Now
      BY <2>4 DEF IndexerInv, PassInv
    <3>. QED  BY <2>4, <3>1
  <2>. QED  BY <2>1, <2>3, <2>4
<1>4. KnownIsTheVectors'
  BY <1>3 DEF KnownIsTheVectors
<1>5. \E h \in Histories' : Explains(h)'
  BY HistoryStays
<1>6. HI!ForgottenHasNoVector'
  BY DEF IndexerInv, HI!ForgottenHasNoVector
<1>. QED  BY <1>1, <1>2, <1>4, <1>5, <1>6 DEF IndexerInv

LEMMA TouchKeeps == ASSUME IndexerInv, HI!Touch PROVE IndexerInv'
<1>. USE IndexerConstants, TailOfPass
<1>0. IndexerTypes
  BY DEF IndexerInv
<1>1. /\ queue # << >> /\ result = Nothing /\ HI!Now.known = HI!Now.word /\ queue' = Tail(queue)
      /\ UNCHANGED <<entry, past, stamp, working, backoff, result>>
  BY DEF HI!Touch
<1>2. CASE HI!Current(HI!Now) /\ vector[HI!Now.key] # Nothing
  <2>1. PICK k \in EntryKeys : k = HI!Now.key
    BY <1>1 DEF Items
  <2>2. PICK v \in Texts : v = vector[k]
    BY <1>0, <1>2, <2>1 DEF IndexerTypes
  <2>3. vector' = [vector EXCEPT ![k] = [v EXCEPT !.stamp = HI!Now.stamp]]
    BY <1>0, <1>2, <2>1, <2>2 DEF HI!Touch, IndexerTypes
  <2>4. HI!Now.stamp \in 1..MaxStamp
    BY <1>1 DEF Items
  <2>5. v.word = HI!Now.word
    BY <1>1, <1>2, <2>1, <2>2 DEF IndexerInv, KnownIsTheVectors
  <2>6. [v EXCEPT !.stamp = HI!Now.stamp] = [word |-> HI!Now.word, stamp |-> HI!Now.stamp]
    BY <2>2, <2>5 DEF Texts
  <2>7. [v EXCEPT !.stamp = HI!Now.stamp] \in Texts
    BY <2>2, <2>4 DEF Texts
  <2>8. entry[k] # Nothing
    BY <1>2, <2>1 DEF HI!Current
  <2>9. vector' \in [EntryKeys -> Texts \cup {Nothing}]
    BY <1>0, <2>3, <2>7 DEF IndexerTypes
  <2>10. \A j \in EntryKeys : j # k => vector'[j] = vector[j]
    BY <1>0, <2>3 DEF IndexerTypes
  <2>11. vector'[k] = [word |-> HI!Now.word, stamp |-> HI!Now.stamp] /\ vector[k].word = HI!Now.word
    BY <1>0, <2>2, <2>3, <2>5, <2>6 DEF IndexerTypes
  <2>12. backoff' \in [EntryKeys -> BackOffs \cup {Nothing}]
    BY <1>0, <1>1 DEF IndexerTypes
  <2>. QED  BY <1>1, <2>1, <2>8, <2>9, <2>10, <2>11, <2>12, ItemDone
<1>3. CASE ~(HI!Current(HI!Now) /\ vector[HI!Now.key] # Nothing)
  <2>1. vector' = vector
    BY <1>3 DEF HI!Touch
  <2>. QED  BY <1>0, <1>1, <2>1, ItemDone DEF IndexerTypes
<1>. QED  BY <1>2, <1>3

LEMMA WriteKeeps == ASSUME IndexerInv, HI!Write PROVE IndexerInv'
<1>. USE IndexerConstants, TailOfPass
<1>0. IndexerTypes
  BY DEF IndexerInv
<1>1. /\ queue # << >> /\ result = HI!Now /\ HI!Now.known # HI!Now.word /\ queue' = Tail(queue)
      /\ result' = Nothing /\ UNCHANGED <<entry, past, stamp, working, backoff>>
  BY DEF HI!Write, IndexerInv, PassInv, HI!Now
<1>2. CASE HI!Current(HI!Now)
  <2>1. PICK k \in EntryKeys : k = HI!Now.key
    BY <1>1 DEF Items
  <2>2. vector' = [vector EXCEPT ![k] = [word |-> HI!Now.word, stamp |-> HI!Now.stamp]]
    BY <1>1, <1>2, <2>1 DEF HI!Write
  <2>3. [word |-> HI!Now.word, stamp |-> HI!Now.stamp] \in Texts
    BY <1>1 DEF Items, Texts
  <2>4. entry[k] # Nothing
    BY <1>2, <2>1 DEF HI!Current
  <2>5. vector' \in [EntryKeys -> Texts \cup {Nothing}]
    BY <1>0, <2>2, <2>3 DEF IndexerTypes
  <2>6. \A j \in EntryKeys : j # k => vector'[j] = vector[j]
    BY <1>0, <2>2 DEF IndexerTypes
  <2>7. vector'[k] = [word |-> HI!Now.word, stamp |-> HI!Now.stamp]
    BY <1>0, <2>2 DEF IndexerTypes
  <2>8. backoff' \in [EntryKeys -> BackOffs \cup {Nothing}]
    BY <1>0, <1>1 DEF IndexerTypes
  <2>. QED  BY <1>1, <2>1, <2>4, <2>5, <2>6, <2>7, <2>8, ItemDone
<1>3. CASE ~HI!Current(HI!Now)
  <2>1. vector' = vector
    BY <1>1, <1>3 DEF HI!Write
  <2>. QED  BY <1>0, <1>1, <2>1, ItemDone DEF IndexerTypes
<1>. QED  BY <1>2, <1>3

LEMMA RejectKeeps == ASSUME IndexerInv, HI!Rejected \/ HI!EncoderTrouble PROVE IndexerInv'
<1>. USE IndexerConstants, TailOfPass
<1>0. IndexerTypes
  BY DEF IndexerInv
<1>1. /\ queue # << >> /\ result = Nothing /\ queue' = Tail(queue)
      /\ UNCHANGED <<entry, past, vector, stamp, working, result>>
      /\ backoff' = [backoff EXCEPT ![HI!Now.key] = HI!BackOff(HI!Now.key, HI!Now.word)]
  BY DEF HI!Rejected, HI!EncoderTrouble, HI!Reject
<1>2. PICK k \in EntryKeys, w \in Words : k = HI!Now.key /\ w = HI!Now.word
  BY <1>1 DEF Items
<1>3. HI!BackOff(k, w) \in BackOffs
  <2>1. PICK b \in BackOffs \cup {Nothing} : b = backoff[k]
    BY <1>0 DEF IndexerTypes
  <2>2. PICK d : d = IF b = Nothing \/ b.word # w THEN 1
                     ELSE IF 2 * b.delay < MaxDelay THEN 2 * b.delay ELSE MaxDelay
    OBVIOUS
  <2>3. b # Nothing => b.delay \in 1..MaxDelay
    BY <2>1 DEF BackOffs
  <2>4. d \in 1..MaxDelay
    BY <2>2, <2>3
  <2>5. HI!BackOff(k, w) = [word |-> w, left |-> d, delay |-> d]
    BY <2>1, <2>2 DEF HI!BackOff
  <2>. QED  BY <2>4, <2>5 DEF BackOffs
<1>4. backoff' \in [EntryKeys -> BackOffs \cup {Nothing}]
  BY <1>0, <1>1, <1>2, <1>3 DEF IndexerTypes
<1>. QED  BY <1>0, <1>1, <1>4, ItemDone DEF IndexerTypes

LEMMA EmbeddedKeeps == ASSUME IndexerInv, HI!Embedded PROVE IndexerInv'
<1>. USE IndexerConstants, TailOfPass
<1>0. IndexerTypes
  BY DEF IndexerInv
<1>1. /\ queue # << >> /\ result' = Head(queue) /\ HI!Now.known # HI!Now.word
      /\ UNCHANGED <<entry, past, vector, stamp, queue, working, trouble>>
      /\ backoff' = [backoff EXCEPT ![HI!Now.key] = Nothing]
  BY DEF HI!Embedded, HI!Now
<1>2. IndexerTypes'
  <2>1. backoff' \in [EntryKeys -> BackOffs \cup {Nothing}]
    BY <1>0, <1>1 DEF IndexerTypes
  <2>2. result' \in Items
    BY <1>1 DEF HI!Now
  <2>. QED  BY <1>0, <1>1, <2>1, <2>2 DEF IndexerTypes
<1>3. PassInv' /\ KnownIsTheVectors'
  BY <1>1 DEF IndexerInv, PassInv, KnownIsTheVectors, HI!Now
<1>4. \E h \in Histories' : Explains(h)'
  BY <1>1, HistoryStays
<1>. QED  BY <1>1, <1>2, <1>3, <1>4 DEF IndexerInv, HI!ForgottenHasNoVector

LEMMA PassEndKeeps ==
    ASSUME IndexerInv, HI!EndPass \/ \E restart \in BOOLEAN : HI!Interrupted(restart)  PROVE IndexerInv'
<1>. USE IndexerConstants
<1>0. IndexerTypes
  BY DEF IndexerInv
<1>1. /\ queue' = << >> /\ result' = Nothing /\ working' = FALSE /\ UNCHANGED <<entry, past, stamp>>
      /\ vector' \in [EntryKeys -> Texts \cup {Nothing}]
      /\ \A k \in EntryKeys : vector'[k] \in {vector[k], Nothing}
  BY <1>0 DEF HI!EndPass, HI!Interrupted, IndexerInv, PassInv, IndexerTypes
<1>2. backoff' \in [EntryKeys -> BackOffs \cup {Nothing}]
  BY <1>0 DEF HI!EndPass, HI!Interrupted, IndexerTypes
<1>3. IndexerTypes'
  <2>1. queue' \in Seq(Items) /\ Len(queue') <= PerPass
    BY <1>1
  <2>. QED  BY <1>0, <1>1, <1>2, <2>1 DEF IndexerTypes
<1>4. PassInv' /\ KnownIsTheVectors'
  BY <1>1 DEF PassInv, KnownIsTheVectors
<1>5. \E h \in Histories' : Explains(h)'
  BY <1>1, HistoryStays
<1>. QED  BY <1>1, <1>3, <1>4, <1>5 DEF IndexerInv, HI!ForgottenHasNoVector

LEMMA IndexerKeeps == ASSUME IndexerInv, [HI!Next]_HI!vars PROVE IndexerInv'
<1>1. CASE UNCHANGED HI!vars
  BY <1>1 DEF HI!vars, IndexerInv, IndexerTypes, PassInv, KnownIsTheVectors, Histories, Explains, Says,
              HI!ForgottenHasNoVector
<1>2. CASE HI!Next
  BY <1>2, SaveKeeps, RestoreKeeps, FetchKeeps, TouchKeeps, WriteKeeps, RejectKeeps, EmbeddedKeeps, PassEndKeeps
     DEF HI!Next, HI!Index
<1>. QED  BY <1>1, <1>2

\* What the invariant says of the vectors, and of the types.
LEMMA IndexerIsRight ==
    ASSUME IndexerInv PROVE HI!CurrentMeansSameText /\ HI!ForgottenHasNoVector /\ HI!TypeOK
<1>. USE IndexerConstants
<1>1. PICK h \in Histories : Explains(h)
  BY DEF IndexerInv
<1>2. HI!CurrentMeansSameText
  BY <1>1 DEF HI!CurrentMeansSameText, HI!Stored, Explains, Says
<1>3. HI!TypeOK
  BY DEF HI!TypeOK, IndexerInv, IndexerTypes, PassInv, Texts, BackOffs
<1>. QED  BY <1>2, <1>3 DEF IndexerInv

-----------------------------------------------------------------------------
(* The embedding daemon, and recalls that keep vectors *)

Vecs  == [of : Contents \ {Blank}, at : 1..now]
Waits == [of : Rejects \cap Contents, left : 0..LongestWait, delay : 1..LongestWait]

Passes ==
    [at : {"idle", "reading", "embedding"}, wanted : [ED!Names -> (Contents \ {Blank}) \cup {Nothing}],
     todo : Seq(ED!Names), stale : SUBSET ED!Names, done : SUBSET ED!Names, row : 0..MaxInARow]

DaemonTypes ==
    /\ text \in [ED!Names -> Contents \cup {Nothing}]
    /\ now \in Nat
    /\ vec \in [ED!Names -> Vecs \cup {Nothing}]
    /\ waits \in [ED!Names -> Waits \cup {Nothing}]
    /\ pass \in Passes

\* A pass embeds texts it found, a few at a time.
DaemonPass ==
    /\ Len(pass.todo) <= PassSize
    /\ pass.at # "embedding" \/ pass.todo # << >> => pass.row < MaxInARow
    /\ \A i \in DOMAIN pass.todo : pass.wanted[pass.todo[i]] # Nothing
    /\ \A k \in pass.done : pass.wanted[k] # Nothing

\* Of what was written when a recall read the signature it has the vectors
\* that are still there.
CacheInv ==
    /\ sig # Nothing => sig \in Nat \X Nat /\ sig[2] <= now
    /\ cache # Nothing =>
        /\ cache.sig \in Nat \X Nat /\ cache.sig[2] <= now
        /\ \A k \in ED!Names :
            vec[k] # Nothing /\ vec[k].at <= cache.sig[2] => cache.vecs[k] = vec[k]

DaemonInv == DaemonTypes /\ DaemonPass /\ CacheInv /\ ED!ForgottenHasNoVector

LEMMA DaemonConstants ==
    /\ LastRow \in Nat /\ PassSize \in Nat /\ MaxInARow \in Nat \ {0} /\ LongestWait \in Nat \ {0}
    /\ Nothing \notin Contents /\ Nothing \notin Nat \X Nat
    /\ Nothing \notin [of : Contents, at : Nat] /\ Nothing \notin Waits
    /\ Nothing \notin [sig : Nat \X Nat, vecs : [ED!Names -> [of : Contents, at : Nat] \cup {Nothing}]]
<1>1. ED!ConstantsFit
  BY UpkeepConstants
<1>2. LongestWait \in Nat
  BY <1>1 DEF ED!ConstantsFit
<1>3. Waits \subseteq [of : Contents, left : Nat, delay : Nat]
  BY <1>2 DEF Waits
<1>. QED  BY <1>1, <1>3 DEF ED!ConstantsFit, ED!Names

LEMMA DaemonSets == ASSUME NEW S PROVE ED!Cardinality(S) = Cardinality(S)
BY DEF ED!Cardinality, Cardinality

LEMMA FewNames == IsFiniteSet(ED!Names)
<1>1. LastRow \in Int
  BY DaemonConstants
<1>2. IsFiniteSet(1..LastRow)
  BY <1>1, FS_Interval
<1>. QED  BY <1>2 DEF ED!Names

LEMMA Ascending ==
    ASSUME NEW S \in SUBSET Int
    PROVE  LET R == {p \in S \X S : p[1] < p[2]}
           IN  Orders(R, S) /\ \A k \in S : {o \in S : o < k} = Before(R, S, k)
<1> DEFINE R == {p \in S \X S : p[1] < p[2]}
<1>1. \A a, b \in S : <<a, b>> \in R <=> a < b
  OBVIOUS
<1>2. \A k \in S : {o \in S : o < k} = Before(R, S, k)
  BY <1>1 DEF Before
<1>. HIDE DEF R
<1>3. Orders(R, S)
  BY <1>1 DEF Orders
<1>. QED  BY <1>2, <1>3 DEF R

\* A finite set of numbers has a greatest one.
LEMMA GreatestNumber ==
    ASSUME NEW S \in SUBSET Int, IsFiniteSet(S), S # {}
    PROVE  \E n \in S : \A m \in S : n >= m
<1> DEFINE R == {p \in S \X S : p[1] < p[2]}
<1>1. Orders(R, S) /\ \A k \in S : {o \in S : o < k} = Before(R, S, k)
  BY Ascending
<1>. HIDE DEF R
<1>2. Cardinality(S) \in Nat \ {0}
  BY FS_EmptySet, FS_CardinalityType
<1>3. PICK n \in S : Cardinality(Before(R, S, n)) = Cardinality(S) - 1
  <2>1. Cardinality(S) \in 1..Cardinality(S)
    BY <1>2
  <2>2. \A i \in 1..Cardinality(S) : \E x \in S : Cardinality(Before(R, S, x)) = i - 1
    BY <1>1, Places
  <2>. QED  BY <2>1, <2>2
<1>4. IsFiniteSet(S \ {n}) /\ Cardinality(S \ {n}) = Cardinality(S) - 1
  BY FS_RemoveElement
<1>5. Before(R, S, n) \subseteq S \ {n}
  BY <1>1 DEF Orders, Before
<1>6. Before(R, S, n) = S \ {n}
  BY <1>3, <1>4, <1>5, FS_Subset
<1>. QED  BY <1>1, <1>6

LEMMA FirstRowsAreOf ==
    ASSUME NEW S \in SUBSET ED!Names
    PROVE  /\ ED!FirstRows(S) \in Seq(ED!Names) /\ Len(ED!FirstRows(S)) <= PassSize
           /\ \A i \in DOMAIN ED!FirstRows(S) : ED!FirstRows(S)[i] \in S
<1>. USE DaemonConstants
<1> DEFINE R == {p \in S \X S : p[1] < p[2]}
<1>1. S \subseteq Int /\ IsFiniteSet(S)
  BY FewNames, FS_Subset DEF ED!Names
<1>2. Orders(R, S) /\ \A k \in S : {o \in S : o < k} = Before(R, S, k)
  BY <1>1, Ascending
<1>. HIDE DEF R
<1>3. PICK m \in Nat : m = IF PassSize < Cardinality(S) THEN PassSize ELSE Cardinality(S)
  BY <1>1, FS_CardinalityType
<1>4. ED!FirstRows(S) = [i \in 1..m |-> CHOOSE k \in S : ED!Cardinality({o \in S : o < k}) = i - 1]
  <2>1. m = IF PassSize < ED!Cardinality(S) THEN PassSize ELSE ED!Cardinality(S)
    BY <1>3, DaemonSets
  <2>. QED  BY <2>1 DEF ED!FirstRows
<1>5. ASSUME NEW i \in 1..m PROVE \E k \in S : ED!Cardinality({o \in S : o < k}) = i - 1
  <2>1. i \in 1..Cardinality(S)
    BY <1>1, <1>3, FS_CardinalityType
  <2>2. PICK k \in S : Cardinality(Before(R, S, k)) = i - 1
    BY <1>1, <1>2, <2>1, Places
  <2>3. ED!Cardinality({o \in S : o < k}) = i - 1
    BY <1>2, <2>2, DaemonSets
  <2>. QED  BY <2>3
<1>6. \A i \in 1..m : ED!FirstRows(S)[i] \in S
  BY <1>4, <1>5
<1>7. DOMAIN ED!FirstRows(S) = 1..m /\ ED!FirstRows(S) = [i \in 1..m |-> ED!FirstRows(S)[i]]
  BY <1>4
<1>8. PICK s : s = ED!FirstRows(S)
  OBVIOUS
<1>9. s \in Seq(ED!Names) /\ Len(s) = m
  BY <1>6, <1>7, <1>8
<1>10. m <= PassSize
  BY <1>1, <1>3, FS_CardinalityType
<1>. QED  BY <1>6, <1>7, <1>8, <1>9, <1>10

\* The signature bounds the times of the vectors.
LEMMA SignatureBounds ==
    ASSUME DaemonTypes
    PROVE  /\ ED!Signature \in Nat \X Nat /\ ED!Signature[2] <= now
           /\ \A k \in ED!Indexed : vec[k].at <= ED!Signature[2]
<1>. USE DaemonConstants
<1> DEFINE S == {0} \cup {vec[k].at : k \in ED!Indexed}
<1>1. \A k \in ED!Indexed : vec[k].at \in 1..now
  BY DEF DaemonTypes, ED!Indexed, Vecs
<1>2. now \in Nat /\ \A n \in S : n \in 0..now
  BY <1>1 DEF DaemonTypes
<1>3. IsFiniteSet(S) /\ S \subseteq Int /\ S # {}
  <2>1. IsFiniteSet(0..now)
    BY <1>2, FS_Interval
  <2>. QED  BY <1>2, <2>1, FS_Subset
<1>4. ED!LastWrite \in S /\ \A m \in S : ED!LastWrite >= m
  <2>1. PICK n \in S : \A m \in S : n >= m
    BY <1>3, GreatestNumber
  <2>2. ED!LastWrite = CHOOSE x \in S : \A y \in S : x >= y
    BY DEF ED!LastWrite, ED!SX!Max
  <2>. HIDE DEF S
  <2>. QED  BY <2>1, <2>2
<1>5. ED!Cardinality(ED!Indexed) \in Nat
  BY FewNames, FS_Subset, FS_CardinalityType, DaemonSets DEF ED!Indexed
<1>6. ED!LastWrite \in 0..now
  BY <1>2, <1>4
<1>7. \A k \in ED!Indexed : vec[k].at <= ED!LastWrite
  BY <1>1, <1>4, <1>6
<1>8. ED!Signature = <<ED!Cardinality(ED!Indexed), ED!LastWrite>>
  BY DEF ED!Signature
<1>9. PICK c \in Nat, l \in 0..now : c = ED!Cardinality(ED!Indexed) /\ l = ED!LastWrite
  BY <1>5, <1>6
<1>10. ED!Signature = <<c, l>>
  BY <1>8, <1>9
<1>. HIDE DEF S
<1>. QED  BY <1>2, <1>7, <1>9, <1>10

LEMMA DaemonStarts == ASSUME ED!Init PROVE DaemonInv
<1>. USE DaemonConstants DEF ED!Init
<1>1. pass \in Passes /\ pass.todo = << >> /\ pass.done = {} /\ Len(pass.todo) <= PassSize /\ pass.row < MaxInARow
  <2>1. << >> \in Seq(ED!Names) /\ Len(<< >>) <= PassSize /\ 0 \in 0..MaxInARow
    OBVIOUS
  <2>. QED  BY <2>1 DEF ED!NoPass, Passes
<1>2. /\ [k \in ED!Names |-> Nothing] \in [ED!Names -> Contents \cup {Nothing}]
      /\ [k \in ED!Names |-> Nothing] \in [ED!Names -> Vecs \cup {Nothing}]
      /\ [k \in ED!Names |-> Nothing] \in [ED!Names -> Waits \cup {Nothing}]
  OBVIOUS
<1>3. DaemonTypes
  BY <1>1, <1>2 DEF DaemonTypes
<1>. QED  BY <1>1, <1>3 DEF DaemonInv, DaemonPass, CacheInv, ED!ForgottenHasNoVector

\* A pass that is over, and one that starts.
LEMMA NoPassFits ==
    /\ ED!NoPass \in Passes /\ ED!NoPass.todo = << >> /\ ED!NoPass.done = {} /\ Len(ED!NoPass.todo) <= PassSize /\ ED!NoPass.row < MaxInARow
<1>. USE DaemonConstants
<1>1. << >> \in Seq(ED!Names) /\ Len(<< >>) <= PassSize /\ 0 \in 0..MaxInARow
  OBVIOUS
<1>. QED  BY <1>1 DEF ED!NoPass, Passes

\* A step that leaves the vectors and the recall alone, or takes vectors away.
LEMMA CacheStays ==
    ASSUME DaemonInv, now' = now, UNCHANGED <<cache, sig>>,
           \A k \in ED!Names : vec'[k] \in {vec[k], Nothing}
    PROVE  CacheInv'
BY DEF DaemonInv, CacheInv

LEMMA SaveTextKeeps ==
    ASSUME DaemonInv, NEW k \in ED!Names, NEW t \in Contents, ED!SaveText(k, t)  PROVE DaemonInv'
<1>. USE DaemonConstants
<1>0. DaemonTypes
  BY DEF DaemonInv
<1>1. text' = [text EXCEPT ![k] = t] /\ UNCHANGED <<vec, waits, pass, cache, sig, now>>
  BY DEF ED!SaveText
<1>2. DaemonTypes'
  BY <1>0, <1>1 DEF DaemonTypes, Vecs
<1>3. DaemonPass'
  BY <1>1 DEF DaemonInv, DaemonPass
<1>4. ED!ForgottenHasNoVector'
  BY <1>0, <1>1 DEF DaemonInv, DaemonTypes, ED!ForgottenHasNoVector
<1>. QED  BY <1>1, <1>2, <1>3, <1>4, CacheStays DEF DaemonInv

LEMMA ForgetTextKeeps ==
    ASSUME DaemonInv, NEW k \in ED!Names, ED!ForgetText(k)  PROVE DaemonInv'
<1>. USE DaemonConstants
<1>0. DaemonTypes
  BY DEF DaemonInv
<1>1. /\ text' = [text EXCEPT ![k] = Nothing] /\ vec' = [vec EXCEPT ![k] = Nothing]
      /\ UNCHANGED <<waits, pass, cache, sig, now>>
  BY DEF ED!ForgetText
<1>2. DaemonTypes'
  BY <1>0, <1>1 DEF DaemonTypes, Vecs
<1>3. DaemonPass'
  BY <1>1 DEF DaemonInv, DaemonPass
<1>4. ED!ForgottenHasNoVector'
  BY <1>0, <1>1 DEF DaemonInv, DaemonTypes, ED!ForgottenHasNoVector
<1>5. \A j \in ED!Names : vec'[j] \in {vec[j], Nothing}
  BY <1>0, <1>1 DEF DaemonTypes
<1>. QED  BY <1>1, <1>2, <1>3, <1>4, <1>5, CacheStays DEF DaemonInv

\* A step of a pass that writes no vectors.
LEMMA PassKeeps ==
    ASSUME DaemonInv, UNCHANGED <<text, vec, cache, sig, now>>,
           waits' \in [ED!Names -> Waits \cup {Nothing}], pass' \in Passes, DaemonPass'
    PROVE  DaemonInv'
<1>1. DaemonTypes'
  BY DEF DaemonInv, DaemonTypes, Vecs
<1>2. ED!ForgottenHasNoVector'
  BY DEF DaemonInv, ED!ForgottenHasNoVector
<1>3. CacheInv'
  BY CacheStays
<1>. QED  BY <1>1, <1>2, <1>3 DEF DaemonInv

LEMMA ReadMemoriesKeeps == ASSUME DaemonInv, ED!ReadMemories PROVE DaemonInv'
<1>. USE DaemonConstants
<1>0. DaemonTypes
  BY DEF DaemonInv
<1>1. PICK w : w = [k \in ED!Names |-> IF text[k] = Blank THEN Nothing ELSE text[k]]
  OBVIOUS
<1>2. w \in [ED!Names -> (Contents \ {Blank}) \cup {Nothing}]
  BY <1>0, <1>1 DEF DaemonTypes
<1>3. pass' = [ED!NoPass EXCEPT !.at = "reading", !.wanted = w]
  BY <1>1 DEF ED!ReadMemories
<1>4. pass' \in Passes /\ pass'.todo = << >> /\ pass'.done = {} /\ Len(pass'.todo) <= PassSize /\ pass'.row < MaxInARow
  BY <1>2, <1>3, NoPassFits DEF Passes
<1>5. DaemonPass'
  BY <1>4 DEF DaemonPass
<1>6. waits' \in [ED!Names -> Waits \cup {Nothing}] /\ UNCHANGED <<text, vec, cache, sig, now>>
  BY <1>0 DEF ED!ReadMemories, DaemonTypes
<1>. QED  BY <1>4, <1>5, <1>6, PassKeeps

LEMMA ReadIndexKeeps == ASSUME DaemonInv, ED!ReadIndex PROVE DaemonInv'
<1>. USE DaemonConstants
<1>0. DaemonTypes /\ DaemonPass
  BY DEF DaemonInv
<1> DEFINE kept(k) == pass.wanted[k] # Nothing /\ ED!FailedAs(k, pass.wanted[k])
           todo == {k \in ED!Names : /\ pass.wanted[k] # Nothing
                                     /\ vec[k] = Nothing \/ vec[k].of # pass.wanted[k]
                                     /\ ~(kept(k) /\ ED!Delayed(k))}
           stale == {k \in ED!Indexed : pass.wanted[k] = Nothing}
<1>1. /\ waits' = [k \in ED!Names |-> IF ~kept(k) THEN Nothing
                                      ELSE IF ED!Delayed(k) THEN [waits[k] EXCEPT !.left = @ - 1] ELSE waits[k]]
      /\ pass' = [pass EXCEPT !.at = "embedding", !.todo = ED!FirstRows(todo), !.stale = stale]
      /\ UNCHANGED <<text, vec, cache, sig, now>>
      /\ pass.at = "reading"
  BY DEF ED!ReadIndex
<1>2. PICK s : s = ED!FirstRows(todo)
  OBVIOUS
<1>3. todo \subseteq ED!Names /\ \A k \in todo : pass.wanted[k] # Nothing
  OBVIOUS
<1>. HIDE DEF todo
<1>4. s \in Seq(ED!Names) /\ Len(s) <= PassSize /\ \A i \in DOMAIN s : s[i] \in todo
  BY <1>2, <1>3, FirstRowsAreOf
<1>5. stale \in SUBSET ED!Names
  BY DEF ED!Indexed
<1>. HIDE DEF stale
<1>6. pass' = [pass EXCEPT !.at = "embedding", !.todo = s, !.stale = stale]
  BY <1>1, <1>2
<1>7. pass \in Passes
  BY <1>0 DEF DaemonTypes
<1>8. pass' \in Passes /\ pass'.todo = s /\ pass'.wanted = pass.wanted /\ pass'.done = pass.done /\ pass'.row = pass.row
  BY <1>4, <1>5, <1>6, <1>7 DEF Passes
<1>9. \A i \in DOMAIN s : pass.wanted[s[i]] # Nothing
  BY <1>3, <1>4
<1>10. pass.row < MaxInARow
  BY <1>0, <1>1 DEF DaemonPass
<1>11. DaemonPass'
  BY <1>0, <1>1, <1>4, <1>6, <1>7, <1>8, <1>9, <1>10 DEF DaemonPass, Passes
<1>12. waits' \in [ED!Names -> Waits \cup {Nothing}]
  <2>1. ASSUME NEW k \in ED!Names, ED!Delayed(k) PROVE [waits[k] EXCEPT !.left = @ - 1] \in Waits
    <3>1. waits[k] \in Waits /\ waits[k].left > 0
      BY <1>0, <2>1 DEF DaemonTypes, ED!Delayed
    <3>. QED  BY <3>1 DEF Waits
  <2>2. \A k \in ED!Names : waits[k] \in Waits \cup {Nothing}
    BY <1>0 DEF DaemonTypes
  <2>. HIDE DEF kept
  <2>. QED  BY <1>1, <2>1, <2>2
<1>. QED  BY <1>1, <1>8, <1>11, <1>12, PassKeeps

LEMMA EmbedKeeps == ASSUME DaemonInv, ED!Embed \/ ED!Reject \/ ED!Outage PROVE DaemonInv'
<1>. USE DaemonConstants
<1>0. DaemonTypes /\ DaemonPass /\ pass \in Passes
  BY DEF DaemonInv, DaemonTypes
<1>1. pass.at = "embedding" /\ pass.todo # << >> /\ UNCHANGED <<text, vec, cache, sig, now>>
  BY DEF ED!Embed, ED!Reject, ED!Outage
<1>2. pass.todo \in Seq(ED!Names) /\ pass.row \in 0..MaxInARow /\ pass.done \subseteq ED!Names
      /\ pass.wanted \in [ED!Names -> (Contents \ {Blank}) \cup {Nothing}]
  BY <1>0 DEF Passes
<1>3. PICK k \in ED!Names : k = ED!NextUp /\ k = pass.todo[1] /\ pass.wanted[k] # Nothing
  BY <1>0, <1>1, <1>2 DEF ED!NextUp, DaemonPass
<1>4. PICK rest \in Seq(ED!Names) : rest = Tail(pass.todo)
  <2>1. Tail(pass.todo) \in Seq(ED!Names)
    BY <1>1, <1>2, HeadTailProperties
  <2>. QED  BY <2>1
<1>5. Len(rest) <= PassSize /\ \A i \in DOMAIN rest : pass.wanted[rest[i]] # Nothing
  <2>1. \A i \in DOMAIN rest : i + 1 \in DOMAIN pass.todo /\ rest[i] = pass.todo[i + 1]
    BY <1>1, <1>2, <1>4
  <2>2. Len(rest) <= PassSize
    BY <1>0, <1>1, <1>2, <1>4 DEF DaemonPass
  <2>. QED  BY <1>0, <2>1, <2>2 DEF DaemonPass
<1>6. << >> \in Seq(ED!Names) /\ Len(<< >>) <= PassSize /\ pass.row < MaxInARow
  BY <1>0, <1>1 DEF DaemonPass
<1>7. CASE ED!Embed
  <2>1. pass' = [pass EXCEPT !.todo = rest, !.done = pass.done \cup {k}, !.row = 0]
    BY <1>3, <1>4, <1>7 DEF ED!Embed
  <2>2. pass' \in Passes
    <3>1. pass.done \cup {k} \in SUBSET ED!Names /\ 0 \in 0..MaxInARow
      BY <1>2
    <3>. QED  BY <1>0, <2>1, <3>1 DEF Passes
  <2>3. pass'.todo = rest /\ pass'.wanted = pass.wanted /\ pass'.done = pass.done \cup {k} /\ pass'.row = 0
    BY <1>0, <2>1 DEF Passes
  <2>4. DaemonPass'
    BY <1>0, <1>3, <1>5, <2>3 DEF DaemonPass
  <2>5. waits' \in [ED!Names -> Waits \cup {Nothing}]
    BY <1>0, <1>7 DEF ED!Embed, DaemonTypes
  <2>. QED  BY <1>1, <2>2, <2>4, <2>5, PassKeeps
<1>8. CASE ED!Reject
  <2>1. PICK s \in {rest, << >>} :
          /\ pass' = [pass EXCEPT !.row = pass.row + 1, !.todo = s]
          /\ s # << >> => pass.row + 1 < MaxInARow
    <3>1. CASE pass.row + 1 >= MaxInARow
      <4>1. pass' = [pass EXCEPT !.row = pass.row + 1, !.todo = << >>]
        BY <1>8, <3>1 DEF ED!Reject
      <4>. QED  BY <4>1
    <3>2. CASE ~(pass.row + 1 >= MaxInARow)
      <4>1. pass' = [pass EXCEPT !.row = pass.row + 1, !.todo = rest]
        BY <1>4, <1>8, <3>2 DEF ED!Reject
      <4>2. pass.row + 1 < MaxInARow
        BY <1>2, <3>2
      <4>. QED  BY <4>1, <4>2
    <3>. QED  BY <3>1, <3>2
  <2>2. pass' \in Passes
    <3>1. s \in Seq(ED!Names)
      BY <1>6, <2>1
    <3>2. pass.row + 1 \in 0..MaxInARow
      BY <1>2, <1>6
    <3>. QED  BY <1>0, <2>1, <3>1, <3>2 DEF Passes
  <2>3. pass'.at = "embedding" /\ pass'.todo = s /\ pass'.wanted = pass.wanted /\ pass'.done = pass.done /\ pass'.row = pass.row + 1
    BY <1>0, <1>1, <2>1 DEF Passes
  <2>4. Len(s) <= PassSize /\ \A i \in DOMAIN s : pass.wanted[s[i]] # Nothing
    BY <1>5, <1>6, <2>1
  <2>5. DaemonPass'
    BY <1>0, <2>1, <2>3, <2>4 DEF DaemonPass
  <2>6. waits' \in [ED!Names -> Waits \cup {Nothing}]
    <3>1. PICK b \in Waits \cup {Nothing} : b = waits[k]
      BY <1>0 DEF DaemonTypes
    <3>2. PICK d : d = IF b = Nothing THEN 1
                       ELSE IF 2 * b.delay < LongestWait THEN 2 * b.delay ELSE LongestWait
      OBVIOUS
    <3>3. b # Nothing => b.delay \in 1..LongestWait
      BY <3>1 DEF Waits
    <3>4. d \in 1..LongestWait
      BY <3>2, <3>3
    <3>5. waits' = [waits EXCEPT ![k] = [of |-> pass.wanted[k], left |-> d, delay |-> d]] /\ pass.wanted[k] \in Rejects
      BY <1>3, <1>8, <3>1, <3>2 DEF ED!Reject, ED!Wants
    <3>6. [of |-> pass.wanted[k], left |-> d, delay |-> d] \in Waits
      BY <1>2, <1>3, <3>4, <3>5 DEF Waits
    <3>. QED  BY <1>0, <3>5, <3>6 DEF DaemonTypes
  <2>. QED  BY <1>1, <2>2, <2>5, <2>6, PassKeeps
<1>9. CASE ED!Outage
  <2>1. pass' = [pass EXCEPT !.todo = << >>] /\ waits' = waits
    BY <1>9 DEF ED!Outage
  <2>2. pass' \in Passes
    BY <1>0, <1>6, <2>1 DEF Passes
  <2>3. pass'.at = "embedding" /\ pass'.todo = << >> /\ pass'.wanted = pass.wanted /\ pass'.done = pass.done
    BY <1>0, <1>1, <2>1 DEF Passes
  <2>4. DaemonPass'
    BY <1>0, <1>6, <2>3 DEF DaemonPass
  <2>. QED  BY <1>0, <1>1, <2>1, <2>2, <2>4, PassKeeps DEF DaemonTypes
<1>. QED  BY <1>7, <1>8, <1>9

\* A vector that comes is of a text still stored, and later than any there was.
LEMMA WritePassKeeps == ASSUME DaemonInv, ED!WritePass PROVE DaemonInv'
<1>. USE DaemonConstants
<1>0. DaemonTypes /\ DaemonPass /\ CacheInv /\ pass \in Passes /\ now \in Nat
  BY DEF DaemonInv, DaemonTypes
<1>1. /\ vec' = [k \in ED!Names |-> IF k \in pass.done /\ text[k] = pass.wanted[k]
                                    THEN [of |-> pass.wanted[k], at |-> now + 1]
                                    ELSE IF k \in pass.stale THEN Nothing ELSE vec[k]]
      /\ pass' = ED!NoPass /\ UNCHANGED <<text, waits, cache, sig>>
      /\ now' = IF pass.done # {} THEN now + 1 ELSE now
  BY DEF ED!WritePass, ED!Wants
<1>2. now' \in Nat /\ now <= now'
  BY <1>0, <1>1
<1>3. ASSUME NEW k \in ED!Names
      PROVE  \/ vec'[k] \in {vec[k], Nothing}
             \/ /\ text[k] = pass.wanted[k] /\ pass.wanted[k] # Nothing /\ now' = now + 1
                /\ vec'[k] = [of |-> pass.wanted[k], at |-> now + 1]
  BY <1>0, <1>1 DEF DaemonPass
<1>4. ASSUME NEW k \in ED!Names PROVE vec'[k] \in Vecs' \cup {Nothing}
  <2>1. vec[k] \in Vecs \cup {Nothing}
    BY <1>0 DEF DaemonTypes
  <2>2. Vecs \subseteq Vecs'
    BY <1>0, <1>2 DEF Vecs
  <2>3. pass.wanted[k] \in (Contents \ {Blank}) \cup {Nothing}
    BY <1>0 DEF Passes
  <2>4. pass.wanted[k] # Nothing /\ now' = now + 1 => [of |-> pass.wanted[k], at |-> now + 1] \in Vecs'
    BY <1>0, <2>3 DEF Vecs
  <2>. QED  BY <1>3, <2>1, <2>2, <2>4
<1>5. DaemonTypes'
  <2>1. vec' \in [ED!Names -> Vecs' \cup {Nothing}]
    BY <1>1, <1>4
  <2>. QED  BY <1>0, <1>1, <1>2, <2>1, NoPassFits DEF DaemonTypes
<1>6. DaemonPass'
  BY <1>1, NoPassFits DEF DaemonPass
<1>7. ED!ForgottenHasNoVector'
  BY <1>1, <1>3 DEF DaemonInv, ED!ForgottenHasNoVector
<1>8. CacheInv'
  <2>1. sig' # Nothing => sig' \in Nat \X Nat /\ sig'[2] <= now'
    BY <1>0, <1>1, <1>2 DEF CacheInv
  <2>2. cache' # Nothing => cache'.sig \in Nat \X Nat /\ cache'.sig[2] <= now'
    BY <1>0, <1>1, <1>2 DEF CacheInv
  <2>3. ASSUME NEW k \in ED!Names, cache # Nothing, vec'[k] # Nothing, vec'[k].at <= cache.sig[2]
        PROVE  cache.vecs[k] = vec'[k]
    <3>1. cache.sig[2] \in Nat /\ cache.sig[2] <= now
      BY <1>0, <2>3 DEF CacheInv
    <3>2. vec'[k] = vec[k]
      <4>1. vec'[k] # [of |-> pass.wanted[k], at |-> now + 1]
        BY <1>0, <2>3, <3>1
      <4>. QED  BY <1>3, <2>3, <4>1
    <3>. QED  BY <1>0, <2>3, <3>2 DEF CacheInv
  <2>. QED  BY <1>1, <2>1, <2>2, <2>3 DEF CacheInv
<1>. QED  BY <1>5, <1>6, <1>7, <1>8 DEF DaemonInv

LEMMA PassLostKeeps ==
    ASSUME DaemonInv, NEW restart \in BOOLEAN, ED!PassLost(restart)  PROVE DaemonInv'
<1>. USE DaemonConstants
<1>1. waits' \in [ED!Names -> Waits \cup {Nothing}]
  BY DEF ED!PassLost, DaemonInv, DaemonTypes
<1>2. pass' = ED!NoPass /\ UNCHANGED <<text, vec, cache, sig, now>>
  BY DEF ED!PassLost
<1>3. DaemonPass'
  BY <1>2, NoPassFits DEF DaemonPass
<1>. QED  BY <1>1, <1>2, <1>3, NoPassFits, PassKeeps

LEMMA RecallKeeps == ASSUME DaemonInv, ED!ReadSignature \/ ED!LoadVectors PROVE DaemonInv'
<1>. USE DaemonConstants
<1>0. DaemonTypes
  BY DEF DaemonInv
<1>1. UNCHANGED <<text, vec, waits, pass, now>>
  BY DEF ED!ReadSignature, ED!LoadVectors
<1>2. DaemonTypes' /\ DaemonPass' /\ ED!ForgottenHasNoVector'
  BY <1>1 DEF DaemonInv, DaemonTypes, DaemonPass, Vecs, ED!ForgottenHasNoVector
<1>3. CASE ED!ReadSignature
  <2>1. sig' = ED!Signature /\ cache' = cache
    BY <1>3 DEF ED!ReadSignature
  <2>. QED  BY <1>0, <1>1, <1>2, <2>1, SignatureBounds DEF DaemonInv, CacheInv
<1>4. CASE ED!LoadVectors
  <2>1. cache' = [sig |-> sig, vecs |-> vec] /\ sig' = Nothing /\ sig # Nothing
    BY <1>4 DEF ED!LoadVectors
  <2>2. cache'.sig = sig /\ cache'.vecs = vec
    BY <2>1
  <2>. QED  BY <1>1, <1>2, <2>1, <2>2 DEF DaemonInv, CacheInv
<1>. QED  BY <1>3, <1>4

LEMMA DaemonKeeps == ASSUME DaemonInv, [ED!Next]_ED!dvars PROVE DaemonInv'
<1>1. CASE UNCHANGED ED!dvars
  <2>1. UNCHANGED <<text, vec, waits, pass, cache, sig, now>>
    BY <1>1 DEF ED!dvars
  <2>. QED  BY <2>1 DEF DaemonInv, DaemonTypes, DaemonPass, CacheInv, Vecs, ED!ForgottenHasNoVector
<1>2. CASE ED!Next
  BY <1>2, SaveTextKeeps, ForgetTextKeeps, ReadMemoriesKeeps, ReadIndexKeeps, EmbedKeeps, WritePassKeeps,
     PassLostKeeps, RecallKeeps DEF ED!Next, ED!Daemon
<1>. QED  BY <1>1, <1>2

LEMMA DaemonIsRight ==
    ASSUME DaemonInv PROVE ED!ForgottenHasNoVector /\ ED!KnownSignatureKnownVectors /\ ED!TypeOK
<1>. USE DaemonConstants
<1>1. ED!KnownSignatureKnownVectors
  BY SignatureBounds DEF DaemonInv, CacheInv, ED!KnownSignatureKnownVectors, ED!Indexed
<1>2. ED!TypeOK
  <2>1. \A k \in ED!Names : vec[k] # Nothing => vec[k].of \in Contents \ {Blank} /\ vec[k].at \in Nat \ {0}
    BY DEF DaemonInv, DaemonTypes, Vecs
  <2>2. \A k \in ED!Names : waits[k] # Nothing => waits[k].left \in 0..LongestWait /\ waits[k].of \in Rejects
    BY DEF DaemonInv, DaemonTypes, Waits
  <2>3. pass.at \in {"idle", "reading", "embedding"} /\ pass.row <= MaxInARow
    BY DEF DaemonInv, DaemonTypes, Passes
  <2>. QED  BY <2>1, <2>2, <2>3 DEF ED!TypeOK, DaemonInv, DaemonTypes, DaemonPass
<1>. QED  BY <1>1, <1>2 DEF DaemonInv

-----------------------------------------------------------------------------
(* The scheduler *)

Loops == [at : {"none", "woken", "jobs", "asleep", "dead"}, i : 1..Len(Jobs) + 1, due : SUBSET JS!JobNames]

\* A last run lies in the future by no more than the clock was set back.
SchedulerInv ==
    /\ app \in {"down", "up"} /\ (app = "down" <=> loop.at = "none")
    /\ loop \in Loops
    /\ age \in [JS!JobNames -> Int \cup {Nothing}]
    /\ setBack \in 0..MaxSetBack
    /\ \A j \in JS!JobNames : age[j] # Nothing => age[j] >= -setBack

LEMMA SchedulerConstants ==
    /\ Len(Jobs) \in Nat /\ MaxSetBack \in Nat /\ Nothing \notin Int
    /\ \A i \in 1..Len(Jobs) : Jobs[i] \in JS!JobNames
    /\ \A j \in JS!JobNames : Interval[j] \in Int
<1>1. JS!ConstantsFit
  BY UpkeepConstants
<1>2. Jobs \in Seq(JS!JobNames)
  BY <1>1 DEF JS!ConstantsFit, JS!JobNames
<1>3. Len(Jobs) \in Nat /\ DOMAIN Jobs = 1..Len(Jobs)
  BY <1>2
<1>. QED  BY <1>1, <1>3 DEF JS!ConstantsFit, JS!JobNames

LEMMA NoLoopFits == JS!NoLoop \in Loops /\ JS!NoLoop.at = "none"
BY SchedulerConstants DEF JS!NoLoop, Loops

LEMMA SchedulerStarts == ASSUME JS!Init PROVE SchedulerInv
<1>1. [j \in JS!JobNames |-> Nothing] \in [JS!JobNames -> Int \cup {Nothing}]
  OBVIOUS
<1>. QED  BY <1>1, SchedulerConstants, NoLoopFits DEF JS!Init, SchedulerInv

LEMMA SchedulerKeeps == ASSUME SchedulerInv, [JS!Next]_JS!jvars PROVE SchedulerInv'
<1>. USE SchedulerConstants, NoLoopFits
<1>0. loop \in Loops /\ loop.i \in 1..Len(Jobs) + 1 /\ loop.due \subseteq JS!JobNames
  BY DEF SchedulerInv, Loops
<1>1. CASE UNCHANGED JS!jvars
  BY <1>1 DEF JS!jvars, SchedulerInv
<1>2. CASE JS!StartUp
  <2>1. loop' = [JS!NoLoop EXCEPT !.at = "woken"]
    BY <1>2 DEF JS!StartUp
  <2>2. loop' \in Loops /\ loop'.at = "woken"
    BY <2>1 DEF Loops
  <2>3. age' = [j \in JS!JobNames |-> Nothing] /\ app' = "up" /\ setBack' = setBack
    BY <1>2 DEF JS!StartUp
  <2>. QED  BY <2>2, <2>3 DEF SchedulerInv
<1>3. CASE JS!ShutDown
  BY <1>3 DEF JS!ShutDown, SchedulerInv
<1>4. CASE JS!Woken
  <2>1. [at |-> "jobs", i |-> 1, due |-> {j \in JS!JobNames : JS!Due(j)}] \in Loops
    BY DEF Loops
  <2>. QED  BY <1>4, <2>1 DEF JS!Woken, SchedulerInv
<1>5. CASE JS!SkipJob \/ JS!RunJob
  <2>1. loop' = [loop EXCEPT !.i = loop.i + 1] /\ loop.i \in 1..Len(Jobs) /\ UNCHANGED <<app, setBack>>
    BY <1>0, <1>5 DEF JS!SkipJob, JS!RunJob
  <2>2. loop' \in Loops /\ loop'.at = loop.at
    BY <1>0, <2>1 DEF Loops
  <2>3. age' \in [JS!JobNames -> Int \cup {Nothing}] /\ \A j \in JS!JobNames : age'[j] \in {age[j], 0}
    BY <1>5 DEF JS!SkipJob, JS!RunJob, SchedulerInv
  <2>. QED  BY <2>1, <2>2, <2>3 DEF SchedulerInv
<1>6. CASE JS!Trigger \/ JS!Raise
  <2>1. PICK at \in {"asleep", "dead"} : loop' = [JS!NoLoop EXCEPT !.at = at]
    BY <1>6 DEF JS!Trigger, JS!Raise
  <2>2. loop' \in Loops /\ loop'.at \in {"asleep", "dead"}
    BY <2>1 DEF Loops
  <2>3. loop.at = "jobs" /\ UNCHANGED <<app, age, setBack>>
    BY <1>6 DEF JS!Trigger, JS!Raise
  <2>. QED  BY <2>2, <2>3 DEF SchedulerInv
<1>7. ASSUME NEW j \in JS!JobNames, NEW by \in {1, -1}
      PROVE  /\ JS!Aged(j, by) \in Int \cup {Nothing}
             /\ JS!Aged(j, by) # Nothing => JS!Aged(j, by) >= -setBack + (IF by = 1 THEN 0 ELSE -1)
  <2>1. PICK a \in Int \cup {Nothing} : a = age[j]
    BY DEF SchedulerInv
  <2>2. a # Nothing => a >= -setBack
    BY <2>1 DEF SchedulerInv
  <2>3. JS!Aged(j, by) = IF a = Nothing THEN Nothing
                         ELSE IF a + by > Interval[j] + MaxSetBack THEN a ELSE a + by
    BY <2>1 DEF JS!Aged
  <2>4. setBack \in Nat
    BY DEF SchedulerInv
  <2>. QED  BY <2>2, <2>3, <2>4
<1>8. CASE JS!Tick
  <2>1. loop' \in Loops /\ (loop'.at = "none" <=> loop.at = "none")
    <3>1. CASE loop.at = "asleep"
      <4>1. loop' = [loop EXCEPT !.at = "woken"]
        BY <1>8, <3>1 DEF JS!Tick
      <4>. QED  BY <1>0, <3>1, <4>1 DEF Loops
    <3>2. CASE loop.at # "asleep"
      BY <1>0, <1>8, <3>2 DEF JS!Tick
    <3>. QED  BY <3>1, <3>2
  <2>2. age' = [j \in JS!JobNames |-> JS!Aged(j, 1)] /\ UNCHANGED <<app, setBack>>
    BY <1>8 DEF JS!Tick
  <2>3. \A j \in JS!JobNames : age'[j] \in Int \cup {Nothing} /\ (age'[j] # Nothing => age'[j] >= -setBack + 0)
    BY <1>7, <2>2
  <2>4. age' \in [JS!JobNames -> Int \cup {Nothing}]
    BY <2>2, <2>3
  <2>. QED  BY <2>1, <2>2, <2>3, <2>4 DEF SchedulerInv
<1>9. CASE JS!SetBack
  <2>1. setBack' = setBack + 1 /\ setBack' \in 0..MaxSetBack /\ UNCHANGED <<app, loop>>
    BY <1>9 DEF JS!SetBack, SchedulerInv
  <2>2. age' = [j \in JS!JobNames |-> JS!Aged(j, -1)]
    BY <1>9 DEF JS!SetBack
  <2>3. \A j \in JS!JobNames : age'[j] \in Int \cup {Nothing} /\ (age'[j] # Nothing => age'[j] >= -setBack + -1)
    BY <1>7, <2>2
  <2>4. age' \in [JS!JobNames -> Int \cup {Nothing}]
    BY <2>2, <2>3
  <2>5. setBack \in Nat /\ \A n \in Int : n >= -setBack + -1 => n >= -setBack'
    BY <2>1 DEF SchedulerInv
  <2>. QED  BY <2>1, <2>3, <2>4, <2>5 DEF SchedulerInv
<1>. QED  BY <1>1, <1>2, <1>3, <1>4, <1>5, <1>6, <1>8, <1>9 DEF JS!Next, JS!Loop

LEMMA SchedulerIsTyped == ASSUME SchedulerInv PROVE JS!TypeOK
<1>1. \A j \in JS!JobNames : age[j] # Nothing => age[j] >= -MaxSetBack
  <2>. SUFFICES ASSUME NEW j \in JS!JobNames, age[j] # Nothing PROVE age[j] >= -MaxSetBack
    OBVIOUS
  <2>1. age[j] \in Int /\ age[j] >= -setBack /\ setBack \in 0..MaxSetBack
    BY DEF SchedulerInv
  <2>. QED  BY <2>1, SchedulerConstants
<1>. QED  BY <1>1 DEF JS!TypeOK, SchedulerInv, Loops

-----------------------------------------------------------------------------
(* The four together *)

UpkeepInv == IInv /\ IndexerInv /\ DaemonInv /\ SchedulerInv

LEMMA UpkeepStaysInv == MCSpec => []UpkeepInv
<1>1. MCInit => UpkeepInv
  BY InitIInv, IndexerStarts, DaemonStarts, SchedulerStarts DEF MCInit, UpkeepInv
<1>2. UpkeepInv /\ [MCNext]_allvars => UpkeepInv'
  <2>. SUFFICES ASSUME UpkeepInv, [MCNext]_allvars PROVE UpkeepInv'
    OBVIOUS
  <2>1. [Next]_vars /\ [HI!Next]_HI!vars /\ [ED!Next]_ED!dvars /\ [JS!Next]_JS!jvars
    BY DEF MCNext, InLedger, InHosted, InLocal, InJobs, allvars, hvars, dvars, svars,
           HI!vars, ED!dvars, JS!jvars, vars
  <2>2. IInv'
    BY <2>1, NextTypeOK, NextTableIsChain, NextStampsAreLatest, NextAppendsFollowStore DEF UpkeepInv, IInv
  <2>3. IndexerInv'
    BY <2>1, IndexerKeeps DEF UpkeepInv
  <2>4. DaemonInv'
    BY <2>1, DaemonKeeps DEF UpkeepInv
  <2>5. SchedulerInv'
    BY <2>1, SchedulerKeeps DEF UpkeepInv
  <2>. QED  BY <2>2, <2>3, <2>4, <2>5 DEF UpkeepInv
<1>. QED  BY <1>1, <1>2, PTL DEF MCSpec

\* Whatever is saved, restored and forgotten while vectors are being made, whatever
\* the encoder rejects, and whichever pass is cut short: no vector that counts as
\* current is of another text than the one stored, none is left of what was
\* forgotten or comes back, hosted or local, and a recall whose signature is the
\* table's ranks by the vectors of the table (HostedIndexer.tla, EmbeddingDaemon.tla).
THEOREM VectorsStayRight == MCSpec => []VectorsAreRight
<1>1. UpkeepInv => VectorsAreRight
  BY IndexerIsRight, DaemonIsRight DEF UpkeepInv, VectorsAreRight
<1>. QED  BY <1>1, UpkeepStaysInv, PTL

\* Every variable of the ledger, the indexer, the daemon and the scheduler keeps
\* its type, whatever their bounds are.
THEOREM TypesStayOK == MCSpec => []TypesOK
<1>1. UpkeepInv => TypesOK
  BY IndexerIsRight, DaemonIsRight, SchedulerIsTyped DEF UpkeepInv, TypesOK, IInv
<1>. QED  BY <1>1, UpkeepStaysInv, PTL
=============================================================================
