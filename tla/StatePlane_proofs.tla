------------------------- MODULE StatePlane_proofs -------------------------
(***************************************************************************)
(* Proofs about one StatePlane, for any number of keys, values, slots and  *)
(* failures: between calls the audit log and the buffer agree with the     *)
(* store, side effects of a call neither revive nor overwrite, and a       *)
(* rollback that completes restores its moment.                            *)
(***************************************************************************)
EXTENDS StatePlane, FiniteSetTheorems, WellFoundedInduction, TLAPS

-----------------------------------------------------------------------------
(* What a plan does to one key *)

Changes == {"save", "delete"}

Plain ==
    [do : {"save"}, key : AllKeys, entry : Entry]
        \cup [do : {"delete", "drop", "refuse"}, key : AllKeys, entry : {Absent}]
        \cup [do : {"set", "unset"}, key : AllKeys, entry : Entry \cup {Absent, NoValue}]

Closing == Log("rollback", System, Absent)

Effect == Plain \cup {Closing}

Row == [op : Logs, key : AllKeys \cup {System}, entry : Entry \cup {Absent, NoValue}]

\* Where plan P does one of these things to key k.
At(P, doing, k) == {i \in DOMAIN P : P[i].do \in doing /\ P[i].key = k}

\* Plan P, from a store that holds v for k, leaves e there.
Leaves(P, k, v, e) ==
    \/ At(P, Changes, k) = {} /\ e = v
    \/ \E i \in At(P, Changes, k) : (\A j \in At(P, Changes, k) : j <= i) /\ P[i].entry = e

\* What an audit row says of an entry: a row without a value only that there is one.
Matches(e, logged) == IF logged = NoValue THEN e # Absent ELSE logged = e

\* Every change of k is logged later on, and the last row fits what is left.
Tidy(P, k, v, e) ==
    /\ Leaves(P, k, v, e)
    /\ \A i \in At(P, Changes, k) : \E j \in At(P, Logs, k) : i < j
    /\ \A j \in At(P, Logs, k) : (\A i \in At(P, Logs, k) : i <= j) => Matches(e, P[j].entry)

\* P neither changes nor logs k.
Quiet(P, k) == At(P, Changes, k) = {} /\ At(P, Logs, k) = {}

\* P changes k once, to e, and logs that.
Once(P, k, doing, e) ==
    \E i, j \in DOMAIN P :
        /\ i < j
        /\ At(P, Changes, k) = {i} /\ P[i].do = doing /\ P[i].entry = e
        /\ At(P, Logs, k) = {j} /\ Matches(e, P[j].entry)

\* P gives up on a row without a value.
Refuses(P) == \E i \in DOMAIN P : P[i].do = "refuse"

\* P takes k out of the buffer before it logs it.
Swept(P, k) == \E d \in At(P, {"drop"}, k), j \in At(P, Logs, k) : d < j

-----------------------------------------------------------------------------
(* Plans put together *)

LEMMA Positions ==
    ASSUME NEW P \in Seq(Effect), NEW Q \in Seq(Effect)
    PROVE  /\ P \o Q \in Seq(Effect)
           /\ Len(P \o Q) = Len(P) + Len(Q)
           /\ DOMAIN P = 1..Len(P) /\ DOMAIN Q = 1..Len(Q) /\ DOMAIN (P \o Q) = 1..Len(P) + Len(Q)
           /\ Len(P) \in Nat /\ Len(Q) \in Nat
           /\ \A i \in 1..Len(P) : (P \o Q)[i] = P[i]
           /\ \A i \in 1..Len(Q) : (P \o Q)[Len(P) + i] = Q[i]
           /\ \A i \in 1..Len(P) + Len(Q) : i \notin 1..Len(P) => i - Len(P) \in 1..Len(Q)
OBVIOUS

\* What is done to k in one plan after another.
LEMMA AtBoth ==
    ASSUME NEW P \in Seq(Effect), NEW Q \in Seq(Effect), NEW doing, NEW k
    PROVE  At(P \o Q, doing, k) = At(P, doing, k) \cup {Len(P) + i : i \in At(Q, doing, k)}
<1>. USE Positions
<1>1. ASSUME NEW i \in At(P \o Q, doing, k)
      PROVE  i \in At(P, doing, k) \cup {Len(P) + j : j \in At(Q, doing, k)}
  <2>1. CASE i \in 1..Len(P)
    BY <1>1, <2>1 DEF At
  <2>2. CASE i \notin 1..Len(P)
    <3>1. i - Len(P) \in 1..Len(Q) /\ i = Len(P) + (i - Len(P))
      BY <1>1, <2>2 DEF At
    <3>2. i - Len(P) \in At(Q, doing, k)
      BY <1>1, <3>1 DEF At
    <3>. QED  BY <3>1, <3>2
  <2>. QED  BY <2>1, <2>2
<1>2. At(P, doing, k) \subseteq At(P \o Q, doing, k)
  BY DEF At
<1>3. ASSUME NEW i \in At(Q, doing, k)  PROVE Len(P) + i \in At(P \o Q, doing, k)
  <2>1. i \in 1..Len(Q) /\ Len(P) + i \in 1..Len(P) + Len(Q)
    BY <1>3 DEF At
  <2>. QED  BY <1>3, <2>1 DEF At
<1>. QED  BY <1>1, <1>2, <1>3

\* A part that leaves k alone does not matter.
LEMMA QuietFirst ==
    ASSUME NEW P \in Seq(Effect), NEW Q \in Seq(Effect), NEW k, Quiet(P, k)
    PROVE  /\ Quiet(Q, k) => Quiet(P \o Q, k)
           /\ \A doing, e : Once(Q, k, doing, e) => Once(P \o Q, k, doing, e)
<1>1. /\ At(P \o Q, Changes, k) = {Len(P) + i : i \in At(Q, Changes, k)}
      /\ At(P \o Q, Logs, k) = {Len(P) + i : i \in At(Q, Logs, k)}
  BY AtBoth DEF Quiet
<1>2. ASSUME NEW doing, NEW e, Once(Q, k, doing, e)  PROVE Once(P \o Q, k, doing, e)
  <2>1. PICK i, j \in DOMAIN Q :
            /\ i < j
            /\ At(Q, Changes, k) = {i} /\ Q[i].do = doing /\ Q[i].entry = e
            /\ At(Q, Logs, k) = {j} /\ Matches(e, Q[j].entry)
    BY <1>2 DEF Once
  <2>2. At(P \o Q, Changes, k) = {Len(P) + i} /\ At(P \o Q, Logs, k) = {Len(P) + j}
    BY <1>1, <2>1
  <2>3. Len(P) + i < Len(P) + j /\ Len(P) + i \in DOMAIN (P \o Q) /\ Len(P) + j \in DOMAIN (P \o Q)
    BY <2>1, Positions
  <2>4. (P \o Q)[Len(P) + i] = Q[i] /\ (P \o Q)[Len(P) + j] = Q[j]
    BY <2>1, Positions
  <2>. QED  BY <2>1, <2>2, <2>3, <2>4 DEF Once
<1>. QED  BY <1>1, <1>2 DEF Quiet

LEMMA QuietLast ==
    ASSUME NEW P \in Seq(Effect), NEW Q \in Seq(Effect), NEW k, Quiet(Q, k)
    PROVE  \A doing, e : Once(P, k, doing, e) => Once(P \o Q, k, doing, e)
<1>0. ASSUME NEW doing, At(Q, doing, k) = {}  PROVE At(P \o Q, doing, k) = At(P, doing, k)
  <2>1. At(P \o Q, doing, k) = At(P, doing, k) \cup {Len(P) + i : i \in At(Q, doing, k)}
    BY AtBoth
  <2>. QED  BY <1>0, <2>1
<1>1. /\ At(P \o Q, Changes, k) = At(P, Changes, k)
      /\ At(P \o Q, Logs, k) = At(P, Logs, k)
  BY <1>0 DEF Quiet
<1>2. ASSUME NEW i \in DOMAIN P  PROVE i \in DOMAIN (P \o Q) /\ (P \o Q)[i] = P[i]
  BY <1>2, Positions
<1>. QED  BY <1>1, <1>2 DEF Once

\* Taken out of the buffer in one part is taken out in the whole.
LEMMA SweptInPart ==
    ASSUME NEW P \in Seq(Effect), NEW Q \in Seq(Effect), NEW k, Swept(P, k) \/ Swept(Q, k)
    PROVE  Swept(P \o Q, k)
<1>1. CASE Swept(P, k)
  BY <1>1, AtBoth DEF Swept
<1>2. CASE Swept(Q, k)
  <2>1. PICK d \in At(Q, {"drop"}, k), j \in At(Q, Logs, k) : d < j
    BY <1>2 DEF Swept
  <2>2. Len(P) + d \in At(P \o Q, {"drop"}, k) /\ Len(P) + j \in At(P \o Q, Logs, k)
    BY <2>1, AtBoth
  <2>3. Len(P) + d < Len(P) + j
    BY <2>1, Positions DEF At
  <2>. QED  BY <2>2, <2>3 DEF Swept
<1>. QED  BY <1>1, <1>2

\* Both kinds of plan are tidy.
LEMMA QuietIsTidy ==
    ASSUME NEW P, NEW k, NEW v, Quiet(P, k)
    PROVE  Tidy(P, k, v, v)
BY DEF Quiet, Tidy, Leaves

LEMMA OnceIsTidy ==
    ASSUME NEW P \in Seq(Effect), NEW k, NEW v, NEW doing, NEW e, Once(P, k, doing, e)
    PROVE  Tidy(P, k, v, e) /\ At(P, Logs, k) # {}
<1>1. PICK i, j \in DOMAIN P :
          /\ i < j
          /\ At(P, Changes, k) = {i} /\ P[i].entry = e
          /\ At(P, Logs, k) = {j} /\ Matches(e, P[j].entry)
  BY DEF Once
<1>2. i <= i
  BY <1>1
<1>. QED  BY <1>1, <1>2 DEF Tidy, Leaves

-----------------------------------------------------------------------------
(* Effects in pairs and in triples, key after key *)

\* order goes through the members of set, each once.
GoesThrough(order, set) ==
    /\ order \in Seq(set)
    /\ \A i, j \in 1..Len(order) : order[i] = order[j] => i = j
    /\ \A k \in set : \E i \in 1..Len(order) : order[i] = k

LEMMA OrdersGoThrough ==
    ASSUME ConstantsFit, NEW set \in SUBSET AllKeys, NEW order \in Orders(set)
    PROVE  GoesThrough(order, set)
<1>1. Cardinality(set) \in Nat
  <2>1. IsFiniteSet(AllKeys)
    BY FS_AddElement, FS_Union, FS_Singleton DEF ConstantsFit, AllKeys
  <2>. QED  BY <2>1, FS_Subset, FS_CardinalityType
<1>2. order \in [1..Cardinality(set) -> set]
  BY DEF Orders
<1>3. order \in Seq(set) /\ Len(order) = Cardinality(set) /\ DOMAIN order = 1..Len(order)
  BY <1>1, <1>2
<1>. QED  BY <1>3 DEF Orders, GoesThrough

LEMMA Halves ==
    ASSUME NEW n \in Nat
    PROVE  /\ \A i \in 1..2 * n : (i + 1) \div 2 \in 1..n /\ i \in {2 * ((i + 1) \div 2) - 1, 2 * ((i + 1) \div 2)}
           /\ \A m \in 1..n :
                /\ 2 * m - 1 \in 1..2 * n /\ 2 * m \in 1..2 * n /\ 2 * m - 1 < 2 * m
                /\ (2 * m - 1 + 1) \div 2 = m /\ (2 * m + 1) \div 2 = m
                /\ (2 * m - 1) % 2 = 1 /\ (2 * m) % 2 # 1
OBVIOUS

LEMMA Thirds ==
    ASSUME NEW n \in Nat
    PROVE  /\ \A i \in 1..3 * n :
                /\ (i + 2) \div 3 \in 1..n
                /\ i \in {3 * ((i + 2) \div 3) - 2, 3 * ((i + 2) \div 3) - 1, 3 * ((i + 2) \div 3)}
           /\ \A m \in 1..n :
                /\ 3 * m - 2 \in 1..3 * n /\ 3 * m - 1 \in 1..3 * n /\ 3 * m \in 1..3 * n
                /\ 3 * m - 2 < 3 * m /\ 3 * m - 1 < 3 * m
                /\ (3 * m - 2 + 2) \div 3 = m /\ (3 * m - 1 + 2) \div 3 = m /\ (3 * m + 2) \div 3 = m
                /\ (3 * m - 2) % 3 = 1 /\ (3 * m - 1) % 3 = 2 /\ (3 * m) % 3 = 0
OBVIOUS

\* Which effects there are, and where.
LEMMA PairsAt ==
    ASSUME NEW order, Len(order) \in Nat, NEW first, NEW second,
           \A m \in 1..Len(order) : first[order[m]] \in Plain /\ second[order[m]] \in Plain
    PROVE  /\ Pairs(order, first, second) \in Seq(Plain)
           /\ DOMAIN Pairs(order, first, second) = 1..2 * Len(order)
           /\ \A m \in 1..Len(order) :
                /\ Pairs(order, first, second)[2 * m - 1] = first[order[m]]
                /\ Pairs(order, first, second)[2 * m] = second[order[m]]
           /\ \A i \in 1..2 * Len(order) : \E m \in 1..Len(order) : i = 2 * m - 1 \/ i = 2 * m
<1>. DEFINE n == Len(order)
            P == Pairs(order, first, second)
            f(i) == LET k == order[(i + 1) \div 2] IN IF i % 2 = 1 THEN first[k] ELSE second[k]
<1>0. P = [i \in 1..2 * n |-> f(i)]
  BY DEF Pairs
<1>1. ASSUME NEW m \in 1..n  PROVE f(2 * m - 1) = first[order[m]] /\ f(2 * m) = second[order[m]]
  BY Halves
<1>2. \A i \in 1..2 * n : \E m \in 1..n : i = 2 * m - 1 \/ i = 2 * m
  BY Halves
<1>3. \A m \in 1..n : 2 * m - 1 \in 1..2 * n /\ 2 * m \in 1..2 * n
  BY Halves
<1>. HIDE DEF f, P
<1>4. \A m \in 1..n : P[2 * m - 1] = first[order[m]] /\ P[2 * m] = second[order[m]]
  BY <1>0, <1>1, <1>3
<1>5. \A i \in 1..2 * n : f(i) \in Plain
  BY <1>1, <1>2
<1>6. P \in Seq(Plain) /\ DOMAIN P = 1..2 * n
  <2>1. 2 * n \in Nat
    OBVIOUS
  <2>. HIDE DEF n
  <2>. QED  BY <1>0, <1>5, <2>1
<1>. QED  BY <1>2, <1>4, <1>6 DEF P

LEMMA TriplesAt ==
    ASSUME NEW order, Len(order) \in Nat, NEW first, NEW second, NEW third,
           \A m \in 1..Len(order) : first[order[m]] \in Plain /\ second[order[m]] \in Plain /\ third[order[m]] \in Plain
    PROVE  /\ Triples(order, first, second, third) \in Seq(Plain)
           /\ DOMAIN Triples(order, first, second, third) = 1..3 * Len(order)
           /\ \A m \in 1..Len(order) :
                /\ Triples(order, first, second, third)[3 * m - 2] = first[order[m]]
                /\ Triples(order, first, second, third)[3 * m - 1] = second[order[m]]
                /\ Triples(order, first, second, third)[3 * m] = third[order[m]]
           /\ \A i \in 1..3 * Len(order) : \E m \in 1..Len(order) : i = 3 * m - 2 \/ i = 3 * m - 1 \/ i = 3 * m
<1>. DEFINE n == Len(order)
            P == Triples(order, first, second, third)
            f(i) == LET k == order[(i + 2) \div 3]
                    IN  IF i % 3 = 1 THEN first[k] ELSE IF i % 3 = 2 THEN second[k] ELSE third[k]
<1>0. P = [i \in 1..3 * n |-> f(i)]
  BY DEF Triples
<1>1. ASSUME NEW m \in 1..n
      PROVE  f(3 * m - 2) = first[order[m]] /\ f(3 * m - 1) = second[order[m]] /\ f(3 * m) = third[order[m]]
  BY Thirds
<1>2. \A i \in 1..3 * n : \E m \in 1..n : i = 3 * m - 2 \/ i = 3 * m - 1 \/ i = 3 * m
  BY Thirds
<1>3. \A m \in 1..n : 3 * m - 2 \in 1..3 * n /\ 3 * m - 1 \in 1..3 * n /\ 3 * m \in 1..3 * n
  BY Thirds
<1>. HIDE DEF f, P
<1>4. \A m \in 1..n : P[3 * m - 2] = first[order[m]] /\ P[3 * m - 1] = second[order[m]] /\ P[3 * m] = third[order[m]]
  BY <1>0, <1>1, <1>3
<1>5. \A i \in 1..3 * n : f(i) \in Plain
  BY <1>1, <1>2
<1>6. P \in Seq(Plain) /\ DOMAIN P = 1..3 * n
  <2>1. 3 * n \in Nat
    OBVIOUS
  <2>. HIDE DEF n
  <2>. QED  BY <1>0, <1>5, <2>1
<1>. QED  BY <1>2, <1>4, <1>6 DEF P

\* A change and its row for each key of set: each key is changed and logged once.
LEMMA PairsOnce ==
    ASSUME NEW set \in SUBSET AllKeys, NEW order, GoesThrough(order, set),
           NEW first \in [set -> Plain], NEW second \in [set -> Plain],
           \A k \in set : /\ first[k].do \in Changes /\ first[k].key = k
                          /\ second[k].do \in Logs /\ second[k].key = k
                          /\ Matches(first[k].entry, second[k].entry)
    PROVE  LET P == Pairs(order, first, second)
           IN  /\ P \in Seq(Plain)
               /\ \A k \in set : Once(P, k, first[k].do, first[k].entry)
               /\ \A k \in AllKeys \ set : Quiet(P, k)
<1>. DEFINE P == Pairs(order, first, second)
            n == Len(order)
<1>0. n \in Nat /\ \A m \in 1..n : order[m] \in set
  BY DEF GoesThrough
<1>2. \A m \in 1..n : first[order[m]] \in Plain /\ second[order[m]] \in Plain
  BY <1>0
<1>1. /\ P \in Seq(Plain) /\ DOMAIN P = 1..2 * n
      /\ \A m \in 1..n : P[2 * m - 1] = first[order[m]] /\ P[2 * m] = second[order[m]]
      /\ \A i \in 1..2 * n : \E m \in 1..n : i = 2 * m - 1 \/ i = 2 * m
  <2>1. P \in Seq(Plain) /\ DOMAIN P = 1..2 * n
    BY <1>0, <1>2, PairsAt
  <2>2. ASSUME NEW m \in 1..n  PROVE P[2 * m - 1] = first[order[m]] /\ P[2 * m] = second[order[m]]
    BY <1>0, <1>2, PairsAt
  <2>. QED  BY <1>0, <2>1, <2>2, Halves
<1>. HIDE DEF P, n
<1>3. P \in Seq(Plain) /\ DOMAIN P = 1..2 * n
  BY <1>1
<1>4. Changes \cap Logs = {}
  BY DEF Changes, Logs
<1>5. ASSUME NEW m \in 1..n, NEW k \in set, k = order[m]
      PROVE  Once(P, k, first[k].do, first[k].entry)
  <2>. DEFINE a == 2 * m - 1
              b == 2 * m
  <2>1. P[a] = first[k] /\ P[b] = second[k]
    BY <1>1, <1>5
  <2>2. a \in 1..2 * n /\ b \in 1..2 * n /\ a < b
    BY <1>0, Halves
  <2>3. ASSUME NEW i \in 1..2 * n, P[i].key = k  PROVE i = a \/ i = b
    <3>1. PICK l \in 1..n : i = 2 * l - 1 \/ i = 2 * l
      BY <1>1
    <3>2. P[i] = first[order[l]] \/ P[i] = second[order[l]]
      BY <1>1, <3>1
    <3>3. order[l] = k
      BY <1>0, <2>3, <3>2
    <3>4. l = m
      BY <1>5, <3>3 DEF GoesThrough, n
    <3>. QED  BY <3>1, <3>4
  <2>. HIDE DEF a, b
  <2>4. At(P, Changes, k) = {a} /\ At(P, Logs, k) = {b}
    BY <1>3, <1>4, <2>1, <2>2, <2>3 DEF At
  <2>. QED  BY <1>3, <2>1, <2>2, <2>4 DEF Once
<1>6. ASSUME NEW k \in set  PROVE Once(P, k, first[k].do, first[k].entry)
  <2>1. PICK m \in 1..n : order[m] = k
    BY DEF GoesThrough, n
  <2>. QED  BY <1>5, <2>1
<1>7. ASSUME NEW k \in AllKeys \ set  PROVE Quiet(P, k)
  <2>1. ASSUME NEW i \in 1..2 * n  PROVE P[i].key # k
    <3>1. PICK l \in 1..n : i = 2 * l - 1 \/ i = 2 * l
      BY <1>1
    <3>2. P[i] = first[order[l]] \/ P[i] = second[order[l]]
      BY <1>1, <3>1
    <3>. QED  BY <1>0, <3>2
  <2>. QED  BY <1>3, <2>1 DEF Quiet, At
<1>. QED  BY <1>3, <1>6, <1>7 DEF P

\* P makes the first effect of each key of set, drops it and logs it, once, but gives
\* up on refused keys.
Through(P, set, refused, first) ==
    /\ P \in Seq(Plain)
    /\ \A k \in set \ refused : Once(P, k, first[k].do, first[k].entry) /\ Swept(P, k)
    /\ \A k \in (AllKeys \ set) \cup refused : Quiet(P, k)
    /\ set \cap refused # {} => Refuses(P)

\* A change, a drop and the row for each key that is not refused.
LEMMA TriplesOnce ==
    ASSUME NEW set \in SUBSET AllKeys, NEW order, GoesThrough(order, set), NEW refused \in SUBSET AllKeys,
           NEW first, NEW second, NEW third,
           \A k \in set : first[k] \in Plain /\ second[k] \in Plain /\ third[k] \in Plain,
           \A k \in set : k \notin refused =>
                /\ first[k].do \in Changes /\ first[k].key = k
                /\ second[k].do = "drop" /\ second[k].key = k
                /\ third[k].do \in Logs /\ third[k].key = k
                /\ Matches(first[k].entry, third[k].entry),
           \A k \in set : k \in refused => first[k] = Refuse(k) /\ second[k] = Refuse(k) /\ third[k] = Refuse(k)
    PROVE  Through(Triples(order, first, second, third), set, refused, first)
<1>. DEFINE P == Triples(order, first, second, third)
            n == Len(order)
<1>0. n \in Nat /\ \A m \in 1..n : order[m] \in set
  BY DEF GoesThrough
<1>9. \A m \in 1..n : first[order[m]] \in Plain /\ second[order[m]] \in Plain /\ third[order[m]] \in Plain
  BY <1>0
<1>1. /\ P \in Seq(Plain) /\ DOMAIN P = 1..3 * n
      /\ \A m \in 1..n : P[3 * m - 2] = first[order[m]] /\ P[3 * m - 1] = second[order[m]] /\ P[3 * m] = third[order[m]]
      /\ \A i \in 1..3 * n : \E m \in 1..n : i = 3 * m - 2 \/ i = 3 * m - 1 \/ i = 3 * m
  <2>1. P \in Seq(Plain) /\ DOMAIN P = 1..3 * n
    BY <1>0, <1>9, TriplesAt
  <2>2. ASSUME NEW m \in 1..n  PROVE P[3 * m - 2] = first[order[m]] /\ P[3 * m - 1] = second[order[m]] /\ P[3 * m] = third[order[m]]
    <3>1. P[3 * m - 2] = first[order[m]]
      BY <1>0, <1>9, TriplesAt
    <3>2. P[3 * m - 1] = second[order[m]]
      BY <1>0, <1>9, TriplesAt
    <3>3. P[3 * m] = third[order[m]]
      BY <1>0, <1>9, TriplesAt
    <3>. QED  BY <3>1, <3>2, <3>3
  <2>. QED  BY <1>0, <2>1, <2>2, Thirds
<1>. HIDE DEF P, n
<1>2. ASSUME NEW i \in 1..3 * n
      PROVE  \E k \in set : P[i] \in Plain /\ P[i].key = k /\ (k \in refused => P[i].do = "refuse")
  <2>1. PICK l \in 1..n : i = 3 * l - 2 \/ i = 3 * l - 1 \/ i = 3 * l
    BY <1>1
  <2>2. P[i] = first[order[l]] \/ P[i] = second[order[l]] \/ P[i] = third[order[l]]
    BY <1>1, <2>1
  <2>3. order[l] \in set /\ order[l] \in AllKeys
    BY <1>0
  <2>4. P[i] \in Plain
    BY <2>2, <2>3
  <2>5. CASE order[l] \in refused
    <3>1. P[i] = Refuse(order[l])
      BY <2>2, <2>3, <2>5
    <3>2. P[i].key = order[l] /\ P[i].do = "refuse"
      BY <3>1 DEF Refuse
    <3>. QED  BY <2>3, <2>4, <3>2
  <2>6. CASE order[l] \notin refused
    <3>1. P[i].key = order[l]
      BY <2>2, <2>3, <2>6
    <3>. QED  BY <2>3, <2>4, <2>6, <3>1
  <2>. QED  BY <2>5, <2>6
<1>3. P \in Seq(Plain) /\ DOMAIN P = 1..3 * n
  BY <1>1
<1>4. Changes \cap Logs = {} /\ {"refuse", "drop"} \cap (Changes \cup Logs) = {}
  BY DEF Changes, Logs
<1>5. ASSUME NEW m \in 1..n, NEW k \in set \ refused, k = order[m]
      PROVE  Once(P, k, first[k].do, first[k].entry) /\ Swept(P, k)
  <2>. DEFINE a == 3 * m - 2
              b == 3 * m - 1
              c == 3 * m
  <2>1. P[a] = first[k] /\ P[b] = second[k] /\ P[c] = third[k]
    BY <1>1, <1>5
  <2>2. a \in 1..3 * n /\ b \in 1..3 * n /\ c \in 1..3 * n /\ a < c /\ b < c
    BY <1>0, Thirds
  <2>3. ASSUME NEW i \in 1..3 * n, P[i].key = k  PROVE i = a \/ i = b \/ i = c
    <3>1. PICK l \in 1..n : i = 3 * l - 2 \/ i = 3 * l - 1 \/ i = 3 * l
      BY <1>1
    <3>2. P[i] = first[order[l]] \/ P[i] = second[order[l]] \/ P[i] = third[order[l]]
      BY <1>1, <3>1
    <3>3. order[l] = k
      <4>1. order[l] \in set
        BY <1>0
      <4>2. P[i].key = order[l]
        <5>1. CASE order[l] \in refused
          <6>1. P[i] = Refuse(order[l])
            BY <3>2, <4>1, <5>1
          <6>. QED  BY <6>1 DEF Refuse
        <5>2. CASE order[l] \notin refused
          BY <3>2, <4>1, <5>2
        <5>. QED  BY <5>1, <5>2
      <4>. QED  BY <2>3, <4>2
    <3>4. l = m
      BY <1>5, <3>3 DEF GoesThrough, n
    <3>. QED  BY <3>1, <3>4
  <2>4. /\ P[a].do \in Changes /\ P[a].key = k
        /\ P[b].do = "drop" /\ P[b].key = k
        /\ P[c].do \in Logs /\ P[c].key = k /\ Matches(P[a].entry, P[c].entry)
    BY <2>1
  <2>. HIDE DEF a, b, c
  <2>5. At(P, Changes, k) = {a} /\ At(P, Logs, k) = {c} /\ b \in At(P, {"drop"}, k)
    BY <1>3, <1>4, <2>2, <2>3, <2>4 DEF At
  <2>6. Once(P, k, first[k].do, first[k].entry)
    BY <1>3, <2>1, <2>2, <2>4, <2>5 DEF Once
  <2>. QED  BY <2>2, <2>5, <2>6 DEF Swept
<1>6. ASSUME NEW k \in set  PROVE \E m \in 1..n : order[m] = k
  BY DEF GoesThrough, n
<1>7. ASSUME NEW k \in (AllKeys \ set) \cup refused  PROVE Quiet(P, k)
  BY <1>2, <1>3, <1>4 DEF Quiet, At
<1>8. ASSUME NEW k \in set \cap refused  PROVE Refuses(P)
  <2>1. PICK m \in 1..n : order[m] = k
    BY <1>6
  <2>2. 3 * m \in DOMAIN P
    BY <1>0, <1>3, Thirds
  <2>3. P[3 * m] = Refuse(k)
    BY <1>1, <2>1
  <2>. QED  BY <2>2, <2>3 DEF Refuse, Refuses
<1>10. ASSUME NEW k \in set \ refused  PROVE Once(P, k, first[k].do, first[k].entry) /\ Swept(P, k)
  BY <1>5, <1>6, <1>10
<1>. QED  BY <1>3, <1>7, <1>8, <1>10 DEF P, Through

-----------------------------------------------------------------------------
(* Plans with something done to a key more than once, and what is left of a plan *)

LEMMA LeavesBoth ==
    ASSUME NEW P \in Seq(Effect), NEW Q \in Seq(Effect), NEW k, NEW u, NEW v, NEW w,
           Leaves(P, k, u, v), Leaves(Q, k, v, w)
    PROVE  Leaves(P \o Q, k, u, w)
<1>0. At(P \o Q, Changes, k) = At(P, Changes, k) \cup {Len(P) + i : i \in At(Q, Changes, k)}
  BY AtBoth
<1>1. CASE At(Q, Changes, k) = {}
  <2>1. At(P \o Q, Changes, k) = At(P, Changes, k) /\ v = w
    BY <1>0, <1>1 DEF Leaves
  <2>2. ASSUME NEW i \in At(P, Changes, k)  PROVE (P \o Q)[i] = P[i]
    BY <2>2, Positions DEF At
  <2>. QED  BY <2>1, <2>2 DEF Leaves
<1>2. CASE At(Q, Changes, k) # {}
  <2>1. PICK i \in At(Q, Changes, k) : (\A j \in At(Q, Changes, k) : j <= i) /\ Q[i].entry = w
    BY <1>2 DEF Leaves
  <2>2. i \in 1..Len(Q) /\ (P \o Q)[Len(P) + i] = Q[i] /\ Len(P) + i \in At(P \o Q, Changes, k)
    BY <1>0, <2>1, Positions DEF At
  <2>3. ASSUME NEW j \in At(P, Changes, k)  PROVE j <= Len(P) + i
    BY <2>2, <2>3, Positions DEF At
  <2>4. ASSUME NEW j \in At(Q, Changes, k)  PROVE Len(P) + j <= Len(P) + i
    BY <2>1, <2>2, <2>4, Positions DEF At
  <2>5. \A j \in At(P \o Q, Changes, k) : j <= Len(P) + i
    BY <1>0, <2>3, <2>4
  <2>. QED  BY <2>1, <2>2, <2>5 DEF Leaves
<1>. QED  BY <1>1, <1>2

LEMMA OneEffect ==
    ASSUME NEW x \in Effect, NEW doing, NEW k
    PROVE  /\ << x >> \in Seq(Effect) /\ Len(<< x >>) = 1 /\ << x >>[1] = x
           /\ At(<< x >>, doing, k) = IF x.do \in doing /\ x.key = k THEN {1} ELSE {}
BY DEF At

\* A row at the end makes a plan tidy.
LEMMA LoggedAtTheEnd ==
    ASSUME NEW P \in Seq(Effect), NEW k \in AllKeys, NEW v, NEW e \in Entry, ConstantsFit, Leaves(P, k, v, e)
    PROVE  /\ Tidy(P \o << Log("set", k, e) >>, k, v, e)
           /\ At(P \o << Log("set", k, e) >>, Logs, k) # {}
<1>. DEFINE x == Log("set", k, e)
            R == P \o << x >>
            n == Len(P) + 1
<1>1. x \in Effect /\ x.do \in Logs /\ x.do \notin Changes /\ x.key = k /\ x.entry = e
  BY DEF Log, Effect, Plain, Logs, Changes
<1>2. << x >> \in Seq(Effect) /\ Len(<< x >>) = 1 /\ << x >>[1] = x
  BY <1>1
<1>3. At(<< x >>, Changes, k) = {} /\ At(<< x >>, Logs, k) = {1}
  BY <1>1, OneEffect
<1>. HIDE DEF x, R
<1>4. R \in Seq(Effect) /\ DOMAIN R = 1..n /\ n \in Nat /\ R[n] = x
  BY <1>2, Positions DEF R
<1>5. Leaves(R, k, v, e)
  <2>1. Leaves(<< x >>, k, e, e)
    BY <1>3 DEF Leaves
  <2>. QED  BY <1>2, <2>1, LeavesBoth DEF R
<1>6. n \in At(R, Logs, k) /\ n \notin At(R, Changes, k)
  BY <1>1, <1>4 DEF At
<1>7. \A i \in At(R, Changes, k) : i < n
  BY <1>4, <1>6 DEF At
<1>8. Matches(e, R[n].entry)
  BY <1>1, <1>4 DEF Matches, ConstantsFit, Entry
<1>9. ASSUME NEW j \in At(R, Logs, k), \A i \in At(R, Logs, k) : i <= j  PROVE j = n
  BY <1>4, <1>6, <1>9 DEF At
<1>. QED  BY <1>5, <1>6, <1>7, <1>8, <1>9 DEF Tidy, R, x

\* After its first effect, a plan does the rest.
LEMMA TailAt ==
    ASSUME NEW P \in Seq(Effect), P # << >>
    PROVE  /\ Tail(P) \in Seq(Effect) /\ Head(P) = P[1] /\ Head(P) \in Effect
           /\ Len(P) \in Nat \ {0} /\ DOMAIN P = 1..Len(P) /\ DOMAIN Tail(P) = 1..Len(P) - 1
           /\ \A i \in 1..Len(P) - 1 : Tail(P)[i] = P[i + 1]
           /\ \A doing, k : \A i \in At(Tail(P), doing, k) :
                    i \in Nat /\ i + 1 \in At(P, doing, k) /\ Tail(P)[i] = P[i + 1]
           /\ \A doing, k : \A i \in At(P, doing, k) \ {1} :
                    i \in Nat /\ i > 1 /\ i - 1 \in At(Tail(P), doing, k) /\ Tail(P)[i - 1] = P[i]
           /\ \A doing, k : 1 \in At(P, doing, k) <=> Head(P).do \in doing /\ Head(P).key = k
<1>1. /\ Tail(P) \in Seq(Effect) /\ Head(P) = P[1] /\ Head(P) \in Effect
      /\ Len(P) \in Nat \ {0} /\ DOMAIN P = 1..Len(P) /\ DOMAIN Tail(P) = 1..Len(P) - 1
      /\ \A i \in 1..Len(P) - 1 : Tail(P)[i] = P[i + 1]
  OBVIOUS
<1>2. ASSUME NEW doing, NEW k, NEW i \in At(Tail(P), doing, k)
      PROVE  i \in Nat /\ i + 1 \in At(P, doing, k) /\ Tail(P)[i] = P[i + 1]
  <2>1. i \in 1..Len(P) - 1 /\ i + 1 \in 1..Len(P) /\ i \in Nat
    BY <1>1, <1>2 DEF At
  <2>. QED  BY <1>1, <1>2, <2>1 DEF At
<1>3. ASSUME NEW doing, NEW k, NEW i \in At(P, doing, k) \ {1}
      PROVE  i \in Nat /\ i > 1 /\ i - 1 \in At(Tail(P), doing, k) /\ Tail(P)[i - 1] = P[i]
  <2>1. i \in 1..Len(P) /\ i - 1 \in 1..Len(P) - 1 /\ i - 1 + 1 = i
    BY <1>1, <1>3 DEF At
  <2>2. Tail(P)[i - 1] = P[i]
    BY <1>1, <2>1
  <2>. QED  BY <1>1, <1>3, <2>1, <2>2 DEF At
<1>4. \A doing, k : 1 \in At(P, doing, k) <=> Head(P).do \in doing /\ Head(P).key = k
  BY <1>1 DEF At
<1>. QED  BY <1>1, <1>2, <1>3, <1>4

\* What the first effect x of a plan makes of the stored v.
After(x, k, v) == IF x.do \in Changes /\ x.key = k THEN x.entry ELSE v

LEMMA TailLeaves ==
    ASSUME NEW P \in Seq(Effect), P # << >>, NEW k, NEW v, NEW e, Leaves(P, k, v, e)
    PROVE  Leaves(Tail(P), k, After(Head(P), k, v), e)
<1>1. CASE At(P, Changes, k) = {}
  BY <1>1, TailAt DEF Leaves, After
<1>2. CASE At(P, Changes, k) # {}
  <2>1. PICK i \in At(P, Changes, k) : (\A j \in At(P, Changes, k) : j <= i) /\ P[i].entry = e
    BY <1>2 DEF Leaves
  <2>2. CASE i = 1
    <3>1. At(Tail(P), Changes, k) = {}
      <4>1. ASSUME NEW j \in At(Tail(P), Changes, k)  PROVE FALSE
        <5>1. j + 1 \in At(P, Changes, k) /\ j \in Nat /\ j + 1 \in DOMAIN P
          BY <4>1, TailAt DEF At
        <5>2. j >= 1
          BY <4>1, TailAt DEF At
        <5>. QED  BY <2>1, <2>2, <5>1, <5>2
      <4>. QED  BY <4>1
    <3>. QED  BY <2>1, <2>2, <3>1, TailAt DEF Leaves, After
  <2>3. CASE i # 1
    <3>1. i \in Nat /\ i > 1 /\ i - 1 \in At(Tail(P), Changes, k) /\ Tail(P)[i - 1] = P[i]
      <4>1. i \in At(P, Changes, k) \ {1}
        BY <2>1, <2>3
      <4>2. i \in Nat /\ i > 1 /\ i - 1 \in At(Tail(P), Changes, k)
        BY <4>1, TailAt
      <4>3. Tail(P)[i - 1] = P[i]
        <5>1. i - 1 \in 1..Len(P) - 1 /\ i - 1 + 1 = i
          BY <4>2, TailAt DEF At
        <5>2. \A j \in 1..Len(P) - 1 : Tail(P)[j] = P[j + 1]
          BY TailAt
        <5>. QED  BY <5>1, <5>2
      <4>. QED  BY <4>2, <4>3
    <3>2. ASSUME NEW j \in At(Tail(P), Changes, k)  PROVE j <= i - 1
      <4>1. j \in Nat /\ j + 1 \in At(P, Changes, k)
        BY <3>2, TailAt
      <4>. QED  BY <2>1, <3>1, <4>1
    <3>. QED  BY <2>1, <3>1, <3>2 DEF Leaves
  <2>. QED  BY <2>2, <2>3
<1>. QED  BY <1>1, <1>2

LEMMA TailTidy ==
    ASSUME NEW P \in Seq(Effect), P # << >>, NEW k, NEW v, NEW e, Tidy(P, k, v, e)
    PROVE  /\ Tidy(Tail(P), k, After(Head(P), k, v), e)
           /\ At(Tail(P), Logs, k) = {} =>
                IF Head(P).do \in Logs /\ Head(P).key = k THEN Matches(e, Head(P).entry)
                                                        ELSE At(P, Logs, k) = {}
           /\ Swept(P, k) /\ ~(Head(P).do = "drop" /\ Head(P).key = k) => Swept(Tail(P), k)
           /\ Head(P).do \in Changes /\ Head(P).key = k => At(Tail(P), Logs, k) # {}
<1>1. Leaves(Tail(P), k, After(Head(P), k, v), e)
  BY TailLeaves DEF Tidy
<1>2. ASSUME NEW i \in At(Tail(P), Changes, k)  PROVE \E j \in At(Tail(P), Logs, k) : i < j
  <2>1. i \in Nat /\ i + 1 \in At(P, Changes, k)
    BY <1>2, TailAt
  <2>2. PICK j \in At(P, Logs, k) : i + 1 < j
    BY <2>1 DEF Tidy
  <2>3. j # 1
    BY <2>1, <2>2
  <2>4. j \in Nat /\ j - 1 \in At(Tail(P), Logs, k)
    BY <2>2, <2>3, TailAt
  <2>5. i < j - 1
    BY <2>1, <2>2, <2>4
  <2>. QED  BY <2>4, <2>5
<1>3. ASSUME NEW j \in At(Tail(P), Logs, k), \A i \in At(Tail(P), Logs, k) : i <= j
      PROVE  Matches(e, Tail(P)[j].entry)
  <2>1. j \in Nat /\ j + 1 \in At(P, Logs, k) /\ Tail(P)[j] = P[j + 1]
    <3>1. j \in Nat /\ j + 1 \in At(P, Logs, k)
      BY <1>3, TailAt
    <3>2. j \in 1..Len(P) - 1
      BY TailAt DEF At
    <3>3. \A i \in 1..Len(P) - 1 : Tail(P)[i] = P[i + 1]
      BY TailAt
    <3>. QED  BY <3>1, <3>2, <3>3
  <2>2. ASSUME NEW i \in At(P, Logs, k)  PROVE i <= j + 1
    <3>1. CASE i = 1
      BY <2>1, <3>1
    <3>2. CASE i # 1
      <4>1. i \in Nat /\ i - 1 \in At(Tail(P), Logs, k)
        BY <2>2, <3>2, TailAt
      <4>2. i - 1 <= j
        BY <1>3, <4>1
      <4>. QED  BY <2>1, <4>1, <4>2
    <3>. QED  BY <3>1, <3>2
  <2>. QED  BY <2>1, <2>2 DEF Tidy
<1>4. ASSUME At(Tail(P), Logs, k) = {}
      PROVE  IF Head(P).do \in Logs /\ Head(P).key = k THEN Matches(e, Head(P).entry)
                                                        ELSE At(P, Logs, k) = {}
  <2>1. \A i \in At(P, Logs, k) : i = 1
    BY <1>4, TailAt
  <2>2. CASE 1 \in At(P, Logs, k)
    <3>1. \A i \in At(P, Logs, k) : i <= 1
      BY <2>1
    <3>. QED  BY <2>2, <3>1, TailAt DEF Tidy
  <2>3. CASE 1 \notin At(P, Logs, k)
    BY <2>1, <2>3, TailAt
  <2>. QED  BY <2>2, <2>3
<1>5. ASSUME Swept(P, k), ~(Head(P).do = "drop" /\ Head(P).key = k)  PROVE Swept(Tail(P), k)
  <2>1. PICK d \in At(P, {"drop"}, k), j \in At(P, Logs, k) : d < j
    BY <1>5 DEF Swept
  <2>2. d # 1
    BY <1>5, <2>1, TailAt
  <2>3. d \in Nat /\ d > 1 /\ d - 1 \in At(Tail(P), {"drop"}, k)
    BY <2>1, <2>2, TailAt
  <2>4. j \in Nat
    BY <2>1, TailAt DEF At
  <2>5. j # 1
    BY <2>1, <2>3, <2>4
  <2>6. j - 1 \in At(Tail(P), Logs, k)
    BY <2>1, <2>5, TailAt
  <2>7. d - 1 < j - 1
    BY <2>1, <2>3, <2>4
  <2>. QED  BY <2>3, <2>6, <2>7 DEF Swept
<1>6. ASSUME Head(P).do \in Changes, Head(P).key = k  PROVE At(Tail(P), Logs, k) # {}
  <2>1. 1 \in At(P, Changes, k)
    BY <1>6, TailAt
  <2>2. PICK j \in At(P, Logs, k) : 1 < j
    BY <2>1 DEF Tidy
  <2>3. j # 1
    BY <2>2
  <2>. QED  BY <2>2, <2>3, TailAt
<1>. QED  BY <1>1, <1>2, <1>3, <1>4, <1>5, <1>6 DEF Tidy

-----------------------------------------------------------------------------
(* What the audit rows say *)

\* The rows of k among the first n.
Found(rows, n, k) == {i \in 1..n : rows[i].key = k /\ rows[i].op # "rollback"}

\* The entry of the last of some rows.
LastOf(rows, hits) ==
    IF hits = {} THEN Absent ELSE rows[CHOOSE i \in hits : \A j \in hits : j <= i].entry

\* What the first n rows say of k.
Latest(rows, n, k) == LastOf(rows, Found(rows, n, k))

\* A nonempty set of row numbers has a greatest one.
LEMMA LastRow ==
    ASSUME NEW n \in Nat, NEW S \in SUBSET (1..n), S # {}
    PROVE  \E i \in S : \A j \in S : j <= i
<1>. DEFINE Back == {d \in Nat : n - d \in S}
            R == OpToRel(<, Nat)
<1>1. Back # {}
  <2>. HIDE DEF R
  <2>1. PICK i \in S : TRUE
    OBVIOUS
  <2>2. n - i \in Nat /\ n - (n - i) = i
    OBVIOUS
  <2>. QED  BY <2>2
<1>2. Back \subseteq Nat
  OBVIOUS
<1>3. PICK d \in Back : \A e \in Back : <<e, d>> \notin R
  <2>. HIDE DEF Back, R
  <2>. QED  BY <1>1, <1>2, NatLessThanWellFounded, WFMin DEF R
<1>4. \A e \in Back : ~(e < d)
  BY <1>2, <1>3 DEF OpToRel
<1>5. ASSUME NEW j \in S  PROVE j <= n - d
  <2>1. n - j \in Back
    OBVIOUS
  <2>. QED  BY <1>4, <2>1
<1>. QED  BY <1>3, <1>5

\* So an entry of an audit row is what Latest says of a key that has rows.
LEMMA LatestFound ==
    ASSUME NEW rows \in Seq(Row), NEW n \in 0..Len(rows), NEW k, Found(rows, n, k) # {}
    PROVE  (CHOOSE i \in Found(rows, n, k) : \A j \in Found(rows, n, k) : j <= i) \in 1..n
<1>1. n \in Nat /\ Found(rows, n, k) \subseteq 1..n
  BY DEF Found
<1>2. \E i \in Found(rows, n, k) : \A j \in Found(rows, n, k) : j <= i
  BY <1>1, LastRow
<1>. QED  BY <1>1, <1>2

LEMMA LatestTyped ==
    ASSUME NEW rows \in Seq(Row), NEW n \in 0..Len(rows), NEW k
    PROVE  Latest(rows, n, k) \in Entry \cup {Absent, NoValue}
<1>1. CASE Found(rows, n, k) = {}
  BY <1>1 DEF Latest, LastOf
<1>2. CASE Found(rows, n, k) # {}
  <2>. DEFINE c == CHOOSE i \in Found(rows, n, k) : \A j \in Found(rows, n, k) : j <= i
  <2>1. c \in 1..n
    BY <1>2, LatestFound
  <2>2. Latest(rows, n, k) = rows[c].entry
    BY <1>2 DEF Latest, LastOf
  <2>. HIDE DEF c
  <2>3. rows[c] \in Row
    BY <2>1
  <2>. QED  BY <2>2, <2>3 DEF Row
<1>. QED  BY <1>1, <1>2

LEMMA ReplayIsLatest ==
    ASSUME NEW n
    PROVE  Replay(n) = [k \in AllKeys |-> Latest(audit, n, k)]
BY DEF Replay, Latest, LastOf, Found

\* One more row changes what is said of its key, and nothing earlier.
LEMMA LatestAppend ==
    ASSUME NEW rows \in Seq(Row), NEW r \in Row, NEW k
    PROVE  /\ \A n \in 0..Len(rows) : Latest(Append(rows, r), n, k) = Latest(rows, n, k)
           /\ Latest(Append(rows, r), Len(rows) + 1, k) =
                IF r.key = k /\ r.op # "rollback" THEN r.entry ELSE Latest(rows, Len(rows), k)
<1>. DEFINE more == Append(rows, r)
            m == Len(rows) + 1
<1>1. /\ Len(rows) \in Nat /\ m \in Nat /\ more[m] = r
      /\ \A i \in 1..Len(rows) : more[i] = rows[i]
  OBVIOUS
<1>. HIDE DEF more
<1>2. ASSUME NEW n \in 0..Len(rows)  PROVE Found(more, n, k) = Found(rows, n, k)
  BY <1>1, <1>2 DEF Found
<1>3. ASSUME NEW n \in 0..Len(rows)  PROVE Latest(more, n, k) = Latest(rows, n, k)
  <2>1. CASE Found(rows, n, k) = {}
    BY <1>2, <2>1 DEF Latest, LastOf
  <2>2. CASE Found(rows, n, k) # {}
    <3>. DEFINE c == CHOOSE i \in Found(rows, n, k) : \A j \in Found(rows, n, k) : j <= i
    <3>1. Latest(more, n, k) = more[c].entry /\ Latest(rows, n, k) = rows[c].entry
      BY <1>2, <2>2 DEF Latest, LastOf
    <3>2. c \in 1..n
      BY <2>2, LatestFound
    <3>3. c \in 1..Len(rows)
      BY <3>2
    <3>. QED  BY <1>1, <3>1, <3>3
  <2>. QED  BY <2>1, <2>2
<1>4. CASE r.key = k /\ r.op # "rollback"
  <2>1. m \in Found(more, m, k) /\ \A j \in Found(more, m, k) : j <= m
    BY <1>1, <1>4 DEF Found
  <2>2. (CHOOSE i \in Found(more, m, k) : \A j \in Found(more, m, k) : j <= i) = m
    <3>1. \A i \in Found(more, m, k) : m <= i /\ i <= m => i = m
      BY <1>1 DEF Found
    <3>. QED  BY <2>1, <3>1
  <2>3. Latest(more, m, k) = r.entry
    BY <1>1, <2>1, <2>2 DEF Latest, LastOf
  <2>. QED  BY <1>3, <1>4, <2>3 DEF more
<1>5. CASE ~(r.key = k /\ r.op # "rollback")
  <2>1. Found(more, m, k) = Found(more, Len(rows), k)
    BY <1>1, <1>5 DEF Found
  <2>2. Latest(more, m, k) = Latest(more, Len(rows), k)
    BY <2>1 DEF Latest
  <2>. QED  BY <1>1, <1>3, <1>5, <2>2 DEF more
<1>. QED  BY <1>4, <1>5, <1>3 DEF more

-----------------------------------------------------------------------------
(* The inductive invariant *)

TypeInv ==
    /\ TypeOK
    /\ audit \in Seq(Row)
    /\ plan \in Seq(Effect)
    /\ checkpoint \in [rows : 0..Len(audit), store : [AllKeys -> Entry \cup {Absent}], torn : SUBSET AllKeys]
    /\ \A i \in DOMAIN plan : plan[i] = Closing => i = Len(plan) /\ call.op = "rollback"
    /\ Idle => call.op # "rollback"

\* The running call leaves an entry e of k, logs what it changes, and ends with
\* a row that fits e; until then the rows there are fit e, or k is torn.  A slot
\* of k is backed by e, or given up before k is logged.
RowFits(k) ==
    \E e :
        /\ Tidy(plan, k, store[k], e)
        /\ At(plan, Logs, k) = {} => k \in torn \/ Matches(e, Latest(audit, Len(audit), k))
        /\ slots[k] # Absent /\ (k \notin torn \/ At(plan, Logs, k) # {}) => e # Absent \/ Swept(plan, k)

\* A call saves a key it does not name only when the row is there, and never
\* deletes one.
Requested(k) ==
    k \in UserKeys /\ call.op # "rollback" /\ call.key # k =>
        /\ At(plan, {"delete"}, k) = {}
        /\ \A i \in At(plan, {"save"}, k) :
              /\ k \in torn \/ store[k] # Absent
              /\ \A j \in At(plan, Logs, k) : i < j

\* A call changes a key that it does not name once, and a long-term row only to
\* push out the slot over it, with the row without a value yet to come.
LongTermKept(k) ==
    call.op # "rollback" /\ call.key # k =>
        \A i \in At(plan, Changes, k) :
            /\ At(plan, Changes, k) = {i}
            /\ store[k] # Absent /\ store[k].kind \in LongTerm =>
                  \E j \in DOMAIN plan : i < j /\ plan[j].key = k /\ plan[j].entry = NoValue

\* The rows at the noted moment fit what was stored then.
Noted(k) == k \in checkpoint.torn \/ Matches(checkpoint.store[k], Latest(audit, checkpoint.rows, k))

\* A rollback that will not be refused leaves what the rows of its moment say.
Course(k) ==
    call.op = "rollback" =>
        \/ Refuses(plan)
        \/ /\ Latest(audit, checkpoint.rows, k) # NoValue
           /\ Leaves(plan, k, store[k], Latest(audit, checkpoint.rows, k))

KeyInv(k) == RowFits(k) /\ Requested(k) /\ LongTermKept(k) /\ Noted(k) /\ Course(k)

IInv == TypeInv /\ \A k \in AllKeys : KeyInv(k)

-----------------------------------------------------------------------------
(* Constants, and what holds between calls *)

LEMMA ConstantFacts ==
    ASSUME ConstantsFit
    PROVE  /\ Absent # NoValue /\ Absent \notin Entry /\ NoValue \notin Entry
           /\ System \notin AllKeys /\ SummaryKey \in AllKeys /\ SummaryKey \notin UserKeys /\ UserKeys \subseteq AllKeys
           /\ Slots \in Nat
BY DEF ConstantsFit, Entry, AllKeys

LEMMA HeldFinite ==
    ASSUME ConstantsFit, NEW f, DOMAIN f = AllKeys
    PROVE  Held(f) \subseteq AllKeys /\ IsFiniteSet(Held(f)) /\ Cardinality(Held(f)) \in Nat
<1>1. IsFiniteSet(AllKeys)
  BY FS_Singleton, FS_Union DEF ConstantsFit, AllKeys
<1>2. Held(f) \subseteq AllKeys
  BY DEF Held
<1>. QED  BY <1>1, <1>2, FS_Subset, FS_CardinalityType

\* Fewer or as many slots in use.
LEMMA HeldFewer ==
    ASSUME ConstantsFit, NEW f, NEW g, DOMAIN f = AllKeys, DOMAIN g = AllKeys, Held(g) \subseteq Held(f),
           Cardinality(Held(f)) <= Slots
    PROVE  Cardinality(Held(g)) <= Slots
<1>1. Cardinality(Held(g)) <= Cardinality(Held(f))
  BY HeldFinite, FS_Subset
<1>. QED  BY <1>1, HeldFinite, ConstantFacts

LEMMA EmptyPlan ==
    ASSUME NEW doing, NEW k
    PROVE  At(<< >>, doing, k) = {}
BY DEF At

\* Between calls rows and slots fit the store.
LEMMA BetweenCalls ==
    ASSUME NEW k, RowFits(k), Idle
    PROVE  /\ k \in torn \/ Matches(store[k], Latest(audit, Len(audit), k))
           /\ slots[k] # Absent => k \in torn \/ store[k] # Absent
<1>1. PICK e :
        /\ Tidy(plan, k, store[k], e)
        /\ At(plan, Logs, k) = {} => k \in torn \/ Matches(e, Latest(audit, Len(audit), k))
        /\ slots[k] # Absent /\ (k \notin torn \/ At(plan, Logs, k) # {}) => e # Absent \/ Swept(plan, k)
  BY DEF RowFits
<1>2. At(plan, Logs, k) = {} /\ At(plan, Changes, k) = {} /\ ~Swept(plan, k)
  BY EmptyPlan DEF Idle, Swept
<1>3. e = store[k]
  BY <1>1, <1>2 DEF Tidy, Leaves
<1>. QED  BY <1>1, <1>2, <1>3

-----------------------------------------------------------------------------
(* A call begins *)

LEMMA BeginTyped ==
    ASSUME ConstantsFit, TypeInv, NEW op \in {"commit", "consolidate", "forget", "rollback"},
           NEW key \in AllKeys \cup {System}, NEW steps, Begin(op, key, steps),
           \/ op # "rollback" /\ steps \in Seq(Plain)
           \/ op = "rollback" /\ \E P \in Seq(Plain) : steps = P \o << Closing >>,
           slots' \in [AllKeys -> Entry \cup {Absent}], Cardinality(Held(slots')) <= Slots
    PROVE  TypeInv'
<1>1. plan' = steps /\ call' = [op |-> op, key |-> key] /\ UNCHANGED <<store, audit, faults, torn, checkpoint>>
  BY DEF Begin
<1>2. Closing \notin Plain /\ Closing \in Effect /\ Plain \subseteq Effect
  BY DEF Closing, Plain, Log, Effect
<1>3. /\ steps \in Seq(Effect) /\ \A i \in DOMAIN steps : steps[i] = Closing => i = Len(steps) /\ op = "rollback"
      /\ steps = << >> => op # "rollback"
  <2>1. CASE op # "rollback" /\ steps \in Seq(Plain)
    <3>1. \A i \in DOMAIN steps : steps[i] \in Plain
      BY <2>1
    <3>. QED  BY <1>2, <2>1, <3>1
  <2>2. CASE op = "rollback" /\ \E P \in Seq(Plain) : steps = P \o << Closing >>
    <3>1. PICK P \in Seq(Plain) : steps = P \o << Closing >>
      BY <2>2
    <3>2. P \in Seq(Effect) /\ << Closing >> \in Seq(Effect) /\ \A i \in 1..Len(P) : P[i] \in Plain
      BY <1>2
    <3>3. steps \in Seq(Effect)
      BY <3>1, <3>2, Positions
    <3>4. /\ Len(P) \in Nat /\ Len(steps) = Len(P) + 1 /\ DOMAIN steps = 1..Len(P) + 1
          /\ \A i \in 1..Len(P) : steps[i] = P[i]
      BY <3>1, <3>2
    <3>5. ASSUME NEW i \in DOMAIN steps, steps[i] = Closing  PROVE i = Len(steps)
      BY <1>2, <3>2, <3>4, <3>5
    <3>. QED  BY <2>2, <3>3, <3>5
  <2>. QED  BY <2>1, <2>2
<1>4. call' \in [op : {"none", "refused", "commit", "consolidate", "forget", "rollback"}, key : AllKeys \cup {System}]
      /\ call'.op = op
  BY <1>1
<1>5. TypeOK'
  BY <1>1, <1>4 DEF TypeInv, TypeOK, Held
<1>6. /\ audit' \in Seq(Row) /\ plan' \in Seq(Effect)
      /\ checkpoint' \in [rows : 0..Len(audit'), store : [AllKeys -> Entry \cup {Absent}], torn : SUBSET AllKeys]
  BY <1>1, <1>3 DEF TypeInv
<1>7. /\ \A i \in DOMAIN plan' : plan'[i] = Closing => i = Len(plan') /\ call'.op = "rollback"
      /\ Idle' => call'.op # "rollback"
  BY <1>1, <1>3, <1>4 DEF Idle
<1>. QED  BY <1>5, <1>6, <1>7 DEF TypeInv, Closing

\* Rows fit under a new plan that is tidy.
LEMMA BeginFits ==
    ASSUME NEW k, NEW e, RowFits(k), Idle, store' = store, audit' = audit, torn' = torn,
           Tidy(plan', k, store[k], e),
           At(plan', Logs, k) = {} => slots'[k] \in {Absent, slots[k]},
           At(plan', Logs, k) # {} /\ slots'[k] # Absent => e # Absent \/ Swept(plan', k)
    PROVE  RowFits(k)'
<1>1. ASSUME At(plan', Logs, k) = {}
      PROVE  /\ e = store[k]
             /\ k \in torn' \/ Matches(e, Latest(audit', Len(audit'), k))
             /\ slots'[k] # Absent /\ k \notin torn' => e # Absent
  <2>1. e = store[k]
    BY <1>1 DEF Tidy, Leaves
  <2>. QED  BY <1>1, <2>1, BetweenCalls
<1>. QED  BY <1>1 DEF RowFits

\* Only a row of the audit log is without a value.
LEMMA NoValueIsLogged ==
    ASSUME ConstantsFit, NEW P \in Seq(Effect), NEW k, NEW i \in DOMAIN P, P[i].key = k, P[i].entry = NoValue
    PROVE  i \in At(P, Logs, k)
<1>1. P[i] \in Effect
  OBVIOUS
<1>2. P[i].do \in Logs
  BY <1>1, ConstantFacts DEF Effect, Plain, Closing, Log, Logs
<1>. QED  BY <1>2 DEF At

\* What a part of a plan pushes out, the plan does.
LEMMA EvictsInPart ==
    ASSUME NEW P \in Seq(Effect), NEW Q \in Seq(Effect), NEW k, Evicts(P, k) \/ Evicts(Q, k)
    PROVE  Evicts(P \o Q, k)
<1>1. CASE Evicts(P, k)
  BY <1>1 DEF Evicts
<1>2. CASE Evicts(Q, k)
  <2>1. PICK i \in DOMAIN Q : Q[i].key = k /\ Q[i].entry = NoValue
    BY <1>2 DEF Evicts
  <2>2. Len(P) + i \in DOMAIN (P \o Q) /\ (P \o Q)[Len(P) + i] = Q[i]
    OBVIOUS
  <2>. QED  BY <2>1, <2>2 DEF Evicts
<1>. QED  BY <1>1, <1>2

\* A call that does at most one thing to k.
LEMMA SimplePlan ==
    ASSUME ConstantsFit, NEW k \in AllKeys, KeyInv(k), Idle,
           NEW op \in {"commit", "consolidate", "forget"}, NEW key, NEW P \in Seq(Plain), Begin(op, key, P),
           \/ Quiet(P, k) /\ slots'[k] \in {Absent, slots[k]}
           \/ \E doing \in Changes : \E e :
                /\ Once(P, k, doing, e)
                /\ slots'[k] # Absent => e # Absent
                /\ k \in UserKeys /\ key # k => doing = "save" /\ (k \in torn \/ store[k] # Absent)
                /\ key # k => store[k] = Absent \/ store[k].kind \notin LongTerm \/ Evicts(P, k)
    PROVE  KeyInv(k)'
<1>1. /\ plan' = P /\ call' = [op |-> op, key |-> key] /\ call'.op = op /\ call'.key = key
      /\ store' = store /\ audit' = audit /\ torn' = torn /\ checkpoint' = checkpoint
  BY DEF Begin
<1>2. P \in Seq(Effect)
  BY DEF Effect
<1>3. Noted(k)'
  BY <1>1 DEF KeyInv, Noted
<1>4. Course(k)'
  BY <1>1 DEF Course
<1>5. CASE Quiet(P, k) /\ slots'[k] \in {Absent, slots[k]}
  <2>1. RowFits(k)'
    <3>1. Tidy(P, k, store[k], store[k])
      BY <1>5, QuietIsTidy
    <3>. QED  BY <1>1, <1>5, <3>1, BeginFits DEF KeyInv, Quiet
  <2>2. At(P, {"save"}, k) = {} /\ At(P, {"delete"}, k) = {}
    BY <1>5 DEF Quiet, At, Changes
  <2>3. Requested(k)' /\ LongTermKept(k)'
    BY <1>1, <1>5, <2>2 DEF Requested, LongTermKept, Quiet
  <2>. QED  BY <1>3, <1>4, <2>1, <2>3 DEF KeyInv
<1>6. ASSUME NEW doing \in Changes, NEW e,
             Once(P, k, doing, e),
             slots'[k] # Absent => e # Absent,
             k \in UserKeys /\ key # k => doing = "save" /\ (k \in torn \/ store[k] # Absent),
             key # k => store[k] = Absent \/ store[k].kind \notin LongTerm \/ Evicts(P, k)
      PROVE  KeyInv(k)'
  <2>1. RowFits(k)'
    <3>1. Tidy(P, k, store[k], e) /\ At(P, Logs, k) # {}
      BY <1>2, <1>6, OnceIsTidy
    <3>. QED  BY <1>1, <1>6, <3>1, BeginFits DEF KeyInv
  <2>2. PICK i, j \in DOMAIN P :
            i < j /\ At(P, Changes, k) = {i} /\ P[i].do = doing /\ At(P, Logs, k) = {j}
    BY <1>6 DEF Once
  <2>3. LongTermKept(k)'
    <3>1. Evicts(P, k) => P[j].key = k /\ P[j].entry = NoValue
      BY <1>2, <2>2, NoValueIsLogged DEF Evicts
    <3>. QED  BY <1>1, <1>6, <2>2, <3>1 DEF LongTermKept
  <2>4. ASSUME k \in UserKeys, key # k
        PROVE  At(P, {"delete"}, k) = {} /\ \A n \in At(P, {"save"}, k) : n = i
    <3>1. P[i].do = "save"
      BY <1>6, <2>2, <2>4
    <3>2. ASSUME NEW n \in At(P, {"save", "delete"}, k)  PROVE n = i
      BY <2>2, <3>2 DEF Changes
    <3>. QED  BY <3>1, <3>2 DEF At
  <2>5. Requested(k)'
    BY <1>1, <1>6, <2>2, <2>4 DEF Requested
  <2>. QED  BY <1>3, <1>4, <2>1, <2>3, <2>5 DEF KeyInv
<1>. QED  BY <1>5, <1>6

\* A change and its row, of one key.
LEMMA TwoEffects ==
    ASSUME NEW x \in Plain, NEW y \in Plain, NEW k, x.key = k, y.key = k, x.do \in Changes, y.do \in Logs,
           Matches(x.entry, y.entry)
    PROVE  /\ << x, y >> \in Seq(Plain)
           /\ Once(<< x, y >>, k, x.do, x.entry)
           /\ \A j : j # k => Quiet(<< x, y >>, j)
<1>. DEFINE P == << x, y >>
<1>1. P \in Seq(Plain) /\ DOMAIN P = {1, 2} /\ P[1] = x /\ P[2] = y
  OBVIOUS
<1>2. Changes \cap Logs = {}
  BY DEF Changes, Logs
<1>. HIDE DEF P
<1>3. At(P, Changes, k) = {1} /\ At(P, Logs, k) = {2}
  BY <1>1, <1>2 DEF At
<1>4. Once(P, k, x.do, x.entry)
  BY <1>1, <1>3 DEF Once
<1>5. ASSUME NEW j, j # k  PROVE Quiet(P, j)
  BY <1>1, <1>5 DEF Quiet, At
<1>. QED  BY <1>1, <1>4, <1>5 DEF P

-----------------------------------------------------------------------------
(* The calls *)

LEMMA CommitLongTermKeeps ==
    ASSUME ConstantsFit, IInv, NEW k \in UserKeys, NEW v \in Values, NEW kind \in CommitKinds, CommitLongTerm(k, v, kind)
    PROVE  IInv'
<1>. DEFINE e == [val |-> v, kind |-> kind]
            x == Save(k, e)
            y == Log("set", k, e)
<1>1. e \in Entry /\ k \in AllKeys /\ k # System
  BY ConstantFacts DEF ConstantsFit, Entry
<1>2. Idle /\ Begin("commit", k, << x, y >>) /\ slots' = slots
  BY DEF CommitLongTerm
<1>. HIDE DEF e
<1>3. /\ x \in Plain /\ x.key = k /\ x.do = "save" /\ x.entry = e
      /\ y \in Plain /\ y.key = k /\ y.do = "set" /\ y.entry = e
  BY <1>1 DEF Save, Log, Plain
<1>4. e # Absent /\ e # NoValue
  BY <1>1, ConstantFacts
<1>. HIDE DEF x, y
<1>5. /\ << x, y >> \in Seq(Plain)
      /\ Once(<< x, y >>, k, "save", e)
      /\ \A j : j # k => Quiet(<< x, y >>, j)
  <2>1. x.do \in Changes /\ y.do \in Logs /\ Matches(x.entry, y.entry)
    BY <1>3, <1>4 DEF Changes, Logs, Matches
  <2>. QED  BY <1>3, <2>1, TwoEffects
<1>6. TypeInv'
  BY <1>1, <1>2, <1>5, BeginTyped DEF IInv, TypeInv, TypeOK
<1>7. ASSUME NEW j \in AllKeys  PROVE KeyInv(j)'
  <2>1. CASE j = k
    <3>1. "save" \in Changes
      BY DEF Changes
    <3>. QED  BY <1>2, <1>4, <1>5, <2>1, <3>1, SimplePlan DEF IInv
  <2>2. CASE j # k
    <3>1. Quiet(<< x, y >>, j)
      BY <1>5, <2>2
    <3>. QED  BY <1>2, <1>5, <3>1, SimplePlan DEF IInv
  <2>. QED  BY <2>1, <2>2
<1>. QED  BY <1>6, <1>7 DEF IInv

LEMMA ForgetKeeps ==
    ASSUME ConstantsFit, IInv, NEW k \in UserKeys, Forget(k)
    PROVE  IInv'
<1>. DEFINE x == Delete(k)
            y == Log("unset", k, Absent)
<1>1. k \in AllKeys /\ k # System
  BY ConstantFacts
<1>2. Idle /\ Begin("forget", k, << x, y >>) /\ slots' = [slots EXCEPT ![k] = Absent]
  BY DEF Forget
<1>3. /\ x \in Plain /\ x.key = k /\ x.do = "delete" /\ x.entry = Absent
      /\ y \in Plain /\ y.key = k /\ y.do = "unset" /\ y.entry = Absent
  BY <1>1 DEF Delete, Log, Plain
<1>. HIDE DEF x, y
<1>4. /\ << x, y >> \in Seq(Plain)
      /\ Once(<< x, y >>, k, "delete", Absent)
      /\ \A j : j # k => Quiet(<< x, y >>, j)
  <2>1. x.do \in Changes /\ y.do \in Logs /\ Matches(x.entry, y.entry)
    BY <1>3, ConstantFacts DEF Changes, Logs, Matches
  <2>. QED  BY <1>3, <2>1, TwoEffects
<1>5. /\ slots \in [AllKeys -> Entry \cup {Absent}] /\ Cardinality(Held(slots)) <= Slots
      /\ slots' \in [AllKeys -> Entry \cup {Absent}] /\ slots'[k] = Absent
      /\ \A j \in AllKeys \ {k} : slots'[j] = slots[j]
  BY <1>1, <1>2 DEF IInv, TypeInv, TypeOK
<1>6. TypeInv'
  <2>1. Held(slots') \subseteq Held(slots)
    BY <1>5 DEF Held
  <2>2. Cardinality(Held(slots')) <= Slots
    BY <1>5, <2>1, HeldFewer
  <2>. QED  BY <1>1, <1>2, <1>4, <1>5, <2>2, BeginTyped DEF IInv
<1>7. ASSUME NEW j \in AllKeys  PROVE KeyInv(j)'
  <2>1. CASE j = k
    <3>1. "delete" \in Changes
      BY DEF Changes
    <3>. QED  BY <1>2, <1>4, <1>5, <2>1, <3>1, SimplePlan DEF IInv
  <2>2. CASE j # k
    <3>1. Quiet(<< x, y >>, j) /\ slots'[j] = slots[j]
      BY <1>4, <1>5, <2>2
    <3>. QED  BY <1>2, <1>4, <3>1, SimplePlan DEF IInv
  <2>. QED  BY <2>1, <2>2
<1>. QED  BY <1>6, <1>7 DEF IInv

\* What a consolidation does to each key.
LEMMA ConsolidationPlan ==
    ASSUME ConstantsFit, NEW s \in [AllKeys -> Entry \cup {Absent}], NEW w \in [AllKeys -> Entry \cup {Absent}],
           NEW ready \in SUBSET Held(w), NEW steps \in ConsolidatePlans(s, w, ready)
    PROVE  /\ steps \in Seq(Plain)
           /\ \A k \in Promotable(s, ready) : As(w[k], "episodic") \in Entry /\ Once(steps, k, "save", As(w[k], "episodic"))
           /\ \A k \in AllKeys \ Promotable(s, ready) :
                \/ Quiet(steps, k)
                \/ k = SummaryKey /\ s[k] = Absent /\ \E e \in Entry : Once(steps, k, "save", e)
<1>. DEFINE entry == [k \in ready |-> As(w[k], "episodic")]
            save  == [k \in ready |-> Save(k, entry[k])]
            log   == [k \in ready |-> Log("set", k, entry[k])]
            after == [k \in AllKeys |-> IF k \in Promotable(s, ready) THEN entry[k] ELSE s[k]]
            set   == Promotable(s, ready)
            S     == SummarySteps(after)
<1>1. ready \subseteq AllKeys /\ set \subseteq ready /\ set \subseteq AllKeys
  BY DEF Held, Promotable
<1>2. PICK drops \in Orders(ready), promoted \in Orders(set) :
        steps = [i \in DOMAIN drops |-> Drop(drops[i])] \o Pairs(promoted, save, log) \o S
  <2>. DEFINE whole(d, p) == [i \in DOMAIN d |-> Drop(d[i])] \o Pairs(p, save, log) \o S
  <2>1. steps \in {whole(d, p) : d \in Orders(ready), p \in Orders(set)}
    <3>1. ConsolidatePlans(s, w, ready) = {whole(d, p) : d \in Orders(ready), p \in Orders(set)}
      BY DEF ConsolidatePlans
    <3>. HIDE DEF whole, set
    <3>. QED  BY <3>1
  <2>. HIDE DEF whole
  <2>2. PICK d \in Orders(ready), p \in Orders(set) : steps = whole(d, p)
    BY <2>1
  <2>. QED  BY <2>2 DEF whole
<1>. DEFINE D == [i \in DOMAIN drops |-> Drop(drops[i])]
            M == Pairs(promoted, save, log)
<1>3. \A k \in ready : entry[k] \in Entry /\ entry[k] = As(w[k], "episodic")
  BY <1>1 DEF Held, As, Entry
<1>4. D \in Seq(Plain) /\ \A k \in AllKeys : Quiet(D, k)
  <2>1. drops \in Seq(ready)
    BY <1>1, OrdersGoThrough DEF GoesThrough
  <2>2. \A i \in DOMAIN drops : Drop(drops[i]) \in Plain
    BY <1>1, <2>1 DEF Drop, Plain
  <2>3. D \in Seq(Plain) /\ DOMAIN D = DOMAIN drops
    BY <2>1, <2>2
  <2>4. \A i \in DOMAIN D : D[i].do = "drop"
    BY <2>3 DEF Drop
  <2>. QED  BY <2>3, <2>4 DEF Quiet, At, Changes, Logs
<1>5. /\ M \in Seq(Plain)
      /\ \A k \in set : Once(M, k, "save", entry[k])
      /\ \A k \in AllKeys \ set : Quiet(M, k)
  <2>. HIDE DEF entry
  <2>1. \A k \in ready : save[k] \in Plain /\ log[k] \in Plain
    BY <1>1, <1>3 DEF Save, Log, Plain
  <2>2. ASSUME NEW k \in ready
        PROVE  /\ save[k].do = "save" /\ save[k].key = k /\ save[k].entry = entry[k]
               /\ log[k].do = "set" /\ log[k].key = k /\ log[k].entry = entry[k]
               /\ Matches(entry[k], entry[k])
    BY <1>3, <2>2, ConstantFacts DEF Save, Log, Matches
  <2>. HIDE DEF save, log
  <2>3. "save" \in Changes /\ "set" \in Logs
    BY DEF Changes, Logs
  <2>. DEFINE sv == [k \in set |-> save[k]]
              lg == [k \in set |-> log[k]]
  <2>4. GoesThrough(promoted, set)
    BY <1>1, OrdersGoThrough
  <2>5. Pairs(promoted, save, log) = Pairs(promoted, sv, lg)
    <3>1. ASSUME NEW i \in 1..2 * Len(promoted)  PROVE promoted[(i + 1) \div 2] \in set
      <4>1. Len(promoted) \in Nat /\ \A m \in 1..Len(promoted) : promoted[m] \in set
        BY <2>4 DEF GoesThrough
      <4>2. (i + 1) \div 2 \in 1..Len(promoted)
        BY <4>1, Halves
      <4>. QED  BY <4>1, <4>2
    <3>. QED  BY <3>1 DEF Pairs
  <2>6. sv \in [set -> Plain] /\ lg \in [set -> Plain]
    BY <1>1, <2>1
  <2>7. \A k \in set : /\ sv[k].do \in Changes /\ sv[k].key = k
                       /\ lg[k].do \in Logs /\ lg[k].key = k
                       /\ Matches(sv[k].entry, lg[k].entry)
    BY <1>1, <2>2, <2>3
  <2>8. \A k \in set : sv[k].do = "save" /\ sv[k].entry = entry[k]
    BY <1>1, <2>2
  <2>. HIDE DEF sv, lg, set
  <2>9. /\ Pairs(promoted, sv, lg) \in Seq(Plain)
        /\ \A k \in set : Once(Pairs(promoted, sv, lg), k, sv[k].do, sv[k].entry)
        /\ \A k \in AllKeys \ set : Quiet(Pairs(promoted, sv, lg), k)
    BY <1>1, <2>4, <2>6, <2>7, PairsOnce
  <2>. QED  BY <2>5, <2>8, <2>9
<1>6. /\ S \in Seq(Plain)
      /\ \A k \in AllKeys : Quiet(S, k) \/ (k = SummaryKey /\ after[k] = Absent /\ \E e \in Entry : Once(S, k, "save", e))
  <2>. DEFINE outline == [val |-> Digest, kind |-> "semantic"]
              x == Save(SummaryKey, outline)
              y == Log("set", SummaryKey, outline)
  <2>1. CASE S = << >>
    <3>. HIDE DEF S, after
    <3>1. S \in Seq(Plain) /\ \A k : Quiet(S, k)
      BY <2>1, EmptyPlan DEF Quiet
    <3>. QED  BY <3>1
  <2>2. CASE S # << >>
    <3>1. S = << x, y >> /\ after[SummaryKey] = Absent
      BY <2>2 DEF SummarySteps
    <3>2. outline \in Entry
      BY DEF Entry
    <3>. HIDE DEF outline, S
    <3>3. /\ x \in Plain /\ x.key = SummaryKey /\ x.do = "save" /\ x.entry = outline
          /\ y \in Plain /\ y.key = SummaryKey /\ y.do = "set" /\ y.entry = outline
      BY <3>2, ConstantFacts DEF Save, Log, Plain
    <3>4. Matches(outline, outline)
      BY <3>2, ConstantFacts DEF Matches
    <3>. HIDE DEF x, y
    <3>5. /\ << x, y >> \in Seq(Plain)
          /\ Once(<< x, y >>, SummaryKey, "save", outline)
          /\ \A j : j # SummaryKey => Quiet(<< x, y >>, j)
      <4>1. x.do \in Changes /\ y.do \in Logs
        BY <3>3 DEF Changes, Logs
      <4>. QED  BY <3>3, <3>4, <4>1, TwoEffects
    <3>. QED  BY <3>1, <3>2, <3>5
  <2>. QED  BY <2>1, <2>2
<1>7. Plain \subseteq Effect
  BY DEF Effect
<1>8. steps = (D \o M) \o S
  BY <1>2
<1>9. \A k \in set : after[k] # Absent
  BY <1>1, <1>3, ConstantFacts
<1>10. \A k \in AllKeys \ set : after[k] = s[k]
  OBVIOUS
<1>. HIDE DEF D, M, S, entry, set, after, save, log
<1>11. D \in Seq(Effect) /\ M \in Seq(Effect) /\ S \in Seq(Effect) /\ D \o M \in Seq(Effect)
  BY <1>4, <1>5, <1>6, <1>7
<1>12. steps \in Seq(Plain)
  BY <1>4, <1>5, <1>6, <1>8
<1>13. ASSUME NEW k \in set  PROVE Once(steps, k, "save", entry[k])
  <2>1. Once(D \o M, k, "save", entry[k])
    BY <1>1, <1>4, <1>5, <1>11, QuietFirst
  <2>2. Quiet(S, k)
    BY <1>1, <1>6, <1>9
  <2>. QED  BY <1>8, <1>11, <2>1, <2>2, QuietLast
<1>14. ASSUME NEW k \in AllKeys \ set
       PROVE  \/ Quiet(steps, k)
              \/ k = SummaryKey /\ s[k] = Absent /\ \E e \in Entry : Once(steps, k, "save", e)
  <2>1. Quiet(D \o M, k)
    BY <1>4, <1>5, <1>11, QuietFirst
  <2>2. CASE Quiet(S, k)
    BY <1>8, <1>11, <2>1, <2>2, QuietFirst
  <2>3. CASE ~Quiet(S, k)
    <3>1. k = SummaryKey /\ after[k] = Absent /\ \E e \in Entry : Once(S, k, "save", e)
      BY <1>6, <2>3
    <3>2. \A e : Once(S, k, "save", e) => Once(steps, k, "save", e)
      BY <1>8, <1>11, <2>1, QuietFirst
    <3>. QED  BY <1>10, <3>1, <3>2
  <2>. QED  BY <2>2, <2>3
<1>. QED  BY <1>1, <1>3, <1>12, <1>13, <1>14 DEF set

LEMMA ConsolidateKeeps ==
    ASSUME ConstantsFit, IInv, Consolidate
    PROVE  IInv'
<1>1. /\ store \in [AllKeys -> Entry \cup {Absent}]
      /\ slots \in [AllKeys -> Entry \cup {Absent}] /\ Cardinality(Held(slots)) <= Slots
  BY DEF IInv, TypeInv, TypeOK
<1>2. Idle /\ slots' = slots
  BY DEF Consolidate
<1>3. PICK ready \in SUBSET Held(slots) : \E P \in ConsolidatePlans(store, slots, ready) : Begin("consolidate", System, P)
  BY DEF Consolidate, Gated
<1>4. PICK P \in ConsolidatePlans(store, slots, ready) : Begin("consolidate", System, P)
  BY <1>3
<1>5. /\ P \in Seq(Plain)
      /\ \A k \in Promotable(store, ready) : As(slots[k], "episodic") \in Entry /\ Once(P, k, "save", As(slots[k], "episodic"))
      /\ \A k \in AllKeys \ Promotable(store, ready) :
           \/ Quiet(P, k)
           \/ k = SummaryKey /\ store[k] = Absent /\ \E e \in Entry : Once(P, k, "save", e)
  BY <1>1, ConsolidationPlan
<1>6. TypeInv'
  BY <1>1, <1>2, <1>4, <1>5, BeginTyped DEF IInv
<1>7. ASSUME NEW k \in AllKeys  PROVE KeyInv(k)'
  <2>1. KeyInv(k) /\ RowFits(k) /\ "save" \in Changes
    BY DEF IInv, KeyInv, Changes
  <2>2. CASE k \in Promotable(store, ready)
    <3>1. slots[k] # Absent /\ (store[k] = Absent \/ store[k].kind \notin LongTerm)
      BY <2>2 DEF Promotable, Held
    <3>2. k \in torn \/ store[k] # Absent
      BY <1>2, <2>1, <3>1, BetweenCalls
    <3>3. As(slots[k], "episodic") # Absent /\ Once(P, k, "save", As(slots[k], "episodic"))
      BY <1>5, <2>2, ConstantFacts
    <3>. QED  BY <1>2, <1>4, <1>5, <2>1, <3>1, <3>2, <3>3, SimplePlan
  <2>3. CASE Quiet(P, k)
    BY <1>2, <1>4, <1>5, <2>1, <2>3, SimplePlan
  <2>4. CASE k \notin Promotable(store, ready) /\ ~Quiet(P, k)
    <3>1. PICK e \in Entry : Once(P, k, "save", e)
      BY <1>5, <2>4
    <3>2. k = SummaryKey /\ store[k] = Absent /\ e # Absent /\ k \notin UserKeys
      BY <1>5, <2>4, ConstantFacts
    <3>. QED  BY <1>2, <1>4, <1>5, <2>1, <3>1, <3>2, SimplePlan
  <2>. QED  BY <2>2, <2>3, <2>4
<1>. QED  BY <1>6, <1>7 DEF IInv

\* What pushing slots out does to each key.
LEMMA PushedOut ==
    ASSUME ConstantsFit, NEW out \in SUBSET AllKeys, NEW order \in Orders(out), NEW pushed \in [out -> Entry]
    PROVE  LET M == Pairs(order, [x \in out |-> Save(x, pushed[x])], [x \in out |-> Log("set", x, NoValue)])
           IN  /\ M \in Seq(Plain)
               /\ \A x \in out : Once(M, x, "save", pushed[x]) /\ Evicts(M, x)
               /\ \A x \in AllKeys \ out : Quiet(M, x)
<1>. DEFINE sv == [x \in out |-> Save(x, pushed[x])]
            lg == [x \in out |-> Log("set", x, NoValue)]
<1>1. sv \in [out -> Plain] /\ lg \in [out -> Plain]
  BY DEF Save, Log, Plain
<1>2. \A x \in out : /\ sv[x].do = "save" /\ sv[x].key = x /\ sv[x].entry = pushed[x]
                     /\ lg[x].do = "set" /\ lg[x].key = x /\ lg[x].entry = NoValue
  BY DEF Save, Log
<1>3. "save" \in Changes /\ "set" \in Logs
  BY DEF Changes, Logs
<1>4. \A x \in out : Matches(pushed[x], NoValue)
  BY ConstantFacts DEF Matches
<1>5. GoesThrough(order, out)
  BY OrdersGoThrough
<1>. HIDE DEF sv, lg
<1>6. /\ Pairs(order, sv, lg) \in Seq(Plain)
      /\ \A x \in out : Once(Pairs(order, sv, lg), x, sv[x].do, sv[x].entry)
      /\ \A x \in AllKeys \ out : Quiet(Pairs(order, sv, lg), x)
  <2>1. \A x \in out : /\ sv[x].do \in Changes /\ sv[x].key = x
                       /\ lg[x].do \in Logs /\ lg[x].key = x
                       /\ Matches(sv[x].entry, lg[x].entry)
    BY <1>2, <1>3, <1>4
  <2>2. Pairs(order, sv, lg) \in Seq(Plain)
    BY <1>1, <1>5, <2>1, PairsOnce
  <2>3. ASSUME NEW x \in out  PROVE Once(Pairs(order, sv, lg), x, sv[x].do, sv[x].entry)
    BY <1>1, <1>5, <2>1, PairsOnce
  <2>4. ASSUME NEW x \in AllKeys \ out  PROVE Quiet(Pairs(order, sv, lg), x)
    BY <1>1, <1>5, <2>1, PairsOnce
  <2>. QED  BY <2>2, <2>3, <2>4
<1>7. \A x \in out : Once(Pairs(order, sv, lg), x, "save", pushed[x])
  BY <1>2, <1>6
<1>8. ASSUME NEW x \in out  PROVE Evicts(Pairs(order, sv, lg), x)
  <2>1. Len(order) \in Nat /\ \A m \in 1..Len(order) : sv[order[m]] \in Plain /\ lg[order[m]] \in Plain
    BY <1>1, <1>5 DEF GoesThrough
  <2>2. PICK m \in 1..Len(order) : order[m] = x
    BY <1>5 DEF GoesThrough
  <2>3. 2 * m \in DOMAIN Pairs(order, sv, lg) /\ Pairs(order, sv, lg)[2 * m] = lg[x]
    <3>1. 2 * m \in 1..2 * Len(order)
      BY <2>1
    <3>2. DOMAIN Pairs(order, sv, lg) = 1..2 * Len(order)
      BY <2>1, PairsAt
    <3>3. Pairs(order, sv, lg)[2 * m] = lg[order[m]]
      BY <2>1, PairsAt
    <3>. QED  BY <2>2, <3>1, <3>2, <3>3
  <2>. QED  BY <1>2, <2>3 DEF Evicts
<1>. QED  BY <1>6, <1>7, <1>8 DEF sv, lg

\* A working commit of k: its entry e is saved, the slots in out are pushed out
\* by M, auto consolidates, and f is logged.
LEMMA WorkingPlan ==
    ASSUME ConstantsFit, IInv, Idle, NEW k \in UserKeys, NEW e \in Entry, NEW f \in Entry,
           NEW out \in SUBSET (Held(slots) \ {k}), NEW M \in Seq(Plain), NEW auto \in Seq(Plain),
           \A x \in out : Evicts(M, x) /\ \E g : Once(M, x, "save", g),
           \A x \in AllKeys \ out : Quiet(M, x),
           (Quiet(auto, k) /\ f = e) \/ Once(auto, k, "save", f),
           \A x \in AllKeys \ {k} :
                \/ Quiet(auto, x)
                \/ /\ x \notin out /\ (x \in UserKeys => slots[x] # Absent)
                   /\ store[x] = Absent \/ store[x].kind \notin LongTerm
                   /\ \E g \in Entry : Once(auto, x, "save", g),
           Begin("commit", k, ((<< Save(k, e) >> \o M) \o auto) \o << Log("set", k, f) >>),
           slots' \in [AllKeys -> Entry \cup {Absent}],
           \A x \in AllKeys \ {k} : slots'[x] = IF x \in out THEN Absent ELSE slots[x]
    PROVE  /\ ((<< Save(k, e) >> \o M) \o auto) \o << Log("set", k, f) >> \in Seq(Plain)
           /\ \A x \in AllKeys : KeyInv(x)'
<1>. DEFINE first == Save(k, e)
            last  == Log("set", k, f)
            A     == << first >> \o M
            B     == A \o auto
            P     == B \o << last >>
<1>1. out \subseteq AllKeys /\ k \in AllKeys /\ k \notin out
  BY ConstantFacts DEF IInv, TypeInv, TypeOK, Held
<1>2. Plain \subseteq Effect
  BY DEF Effect
<1>5. /\ first \in Plain /\ first.do = "save" /\ first.key = k /\ first.entry = e
      /\ last \in Plain /\ last.do = "set" /\ last.key = k /\ last.entry = f
  BY <1>1 DEF Save, Log, Plain
<1>6. Begin("commit", k, P)
  OBVIOUS
<1>. HIDE DEF first, last
<1>7. /\ << first >> \in Seq(Plain) /\ << last >> \in Seq(Plain)
      /\ A \in Seq(Plain) /\ B \in Seq(Plain) /\ P \in Seq(Plain)
  BY <1>5
<1>8. /\ << first >> \in Seq(Effect) /\ << last >> \in Seq(Effect) /\ M \in Seq(Effect)
      /\ A \in Seq(Effect) /\ B \in Seq(Effect) /\ P \in Seq(Effect) /\ auto \in Seq(Effect)
  BY <1>2, <1>7
<1>. HIDE DEF A, B, P
<1>9. \A x \in AllKeys \ {k} : Quiet(<< first >>, x) /\ Quiet(<< last >>, x)
  BY <1>2, <1>5, OneEffect DEF Quiet
<1>10. ASSUME NEW x \in AllKeys \ {k}  PROVE KeyInv(x)'
  <2>1. KeyInv(x) /\ RowFits(x) /\ "save" \in Changes
    BY DEF IInv, KeyInv, Changes
  <2>2. CASE x \in out
    <3>1. PICK g : Once(M, x, "save", g)
      BY <2>2
    <3>7. Once(A, x, "save", g)
      BY <1>8, <1>9, <3>1, QuietFirst DEF A
    <3>2. Quiet(auto, x)
      BY <2>2
    <3>3. Once(B, x, "save", g)
      BY <1>8, <3>7, <3>2, QuietLast DEF B
    <3>4. Once(P, x, "save", g)
      BY <1>8, <1>9, <3>3, QuietLast DEF P
    <3>5. slots'[x] = Absent /\ slots[x] # Absent
      BY <2>2 DEF Held
    <3>6. x \in torn \/ store[x] # Absent
      BY <2>1, <3>5, BetweenCalls
    <3>8. Evicts(P, x)
      BY <1>8, <2>2, EvictsInPart DEF A, B, P
    <3>. QED  BY <1>6, <1>7, <2>1, <3>4, <3>5, <3>6, <3>8, SimplePlan
  <2>3. CASE x \notin out
    <3>1. Quiet(A, x)
      BY <1>8, <1>9, <2>3, QuietFirst DEF A
    <3>2. slots'[x] = slots[x]
      BY <2>3
    <3>3. CASE Quiet(auto, x)
      <4>1. Quiet(B, x)
        BY <1>8, <3>1, <3>3, QuietFirst DEF B
      <4>2. Quiet(P, x)
        BY <1>8, <1>9, <4>1, QuietFirst DEF P
      <4>. QED  BY <1>6, <1>7, <2>1, <3>2, <4>2, SimplePlan
    <3>4. CASE ~Quiet(auto, x)
      <4>1. PICK g \in Entry : Once(auto, x, "save", g)
        BY <3>4
      <4>2. Once(B, x, "save", g)
        BY <1>8, <3>1, <4>1, QuietFirst DEF B
      <4>3. Once(P, x, "save", g)
        BY <1>8, <1>9, <4>2, QuietLast DEF P
      <4>4. g # Absent
        BY ConstantFacts
      <4>5. x \in UserKeys => x \in torn \/ store[x] # Absent
        BY <2>1, <3>4, BetweenCalls
      <4>6. store[x] = Absent \/ store[x].kind \notin LongTerm
        BY <2>3, <3>4
      <4>. QED  BY <1>6, <1>7, <2>1, <4>3, <4>4, <4>5, <4>6, SimplePlan
    <3>. QED  BY <3>3, <3>4
  <2>. QED  BY <2>2, <2>3
<1>11. KeyInv(k)'
  <2>1. KeyInv(k)
    BY <1>1 DEF IInv
  <2>2. Leaves(B, k, store[k], f)
    <3>1. Leaves(<< first >>, k, store[k], e)
      <4>1. At(<< first >>, Changes, k) = {1}
        BY <1>2, <1>5, OneEffect DEF Changes
      <4>. QED  BY <1>5, <4>1 DEF Leaves
    <3>2. Leaves(M, k, e, e)
      BY <1>1 DEF Quiet, Leaves
    <3>3. Leaves(A, k, store[k], e)
      BY <1>8, <3>1, <3>2, LeavesBoth DEF A
    <3>4. Leaves(auto, k, e, f)
      <4>1. CASE Quiet(auto, k) /\ f = e
        BY <4>1 DEF Quiet, Leaves
      <4>2. CASE Once(auto, k, "save", f)
        BY <1>8, <4>2, OnceIsTidy DEF Tidy
      <4>. QED  BY <4>1, <4>2
    <3>. QED  BY <1>8, <3>3, <3>4, LeavesBoth DEF B
  <2>3. Tidy(P, k, store[k], f) /\ At(P, Logs, k) # {}
    BY <1>1, <1>8, <2>2, LoggedAtTheEnd DEF last, P
  <2>4. /\ plan' = P /\ call' = [op |-> "commit", key |-> k] /\ call'.op = "commit" /\ call'.key = k
        /\ store' = store /\ audit' = audit /\ torn' = torn /\ checkpoint' = checkpoint
    BY <1>6 DEF Begin
  <2>5. RowFits(k)'
    BY <2>1, <2>3, <2>4, BeginFits, ConstantFacts DEF KeyInv
  <2>6. Requested(k)' /\ LongTermKept(k)' /\ Noted(k)' /\ Course(k)'
    BY <2>1, <2>4 DEF KeyInv, Requested, LongTermKept, Noted, Course
  <2>. QED  BY <2>5, <2>6 DEF KeyInv
<1>12. P = ((<< Save(k, e) >> \o M) \o auto) \o << Log("set", k, f) >>
  BY DEF P, B, A, first, last
<1>. QED  BY <1>7, <1>10, <1>11, <1>12

LEMMA CommitWorkingKeeps ==
    ASSUME ConstantsFit, IInv, NEW k \in UserKeys, NEW v \in Values, CommitWorking(k, v)
    PROVE  IInv'
<1>. DEFINE e == [val |-> v, kind |-> "working"]
            pushed(out) == [x \in out |-> As(slots[x], "semantic")]
            save(out)   == [x \in out |-> Save(x, pushed(out)[x])]
            log(out)    == [x \in out |-> Log("set", x, NoValue)]
            w(out) == [x \in AllKeys |-> IF x = k THEN e ELSE IF x \in out THEN Absent ELSE slots[x]]
            s(out) == [x \in AllKeys |-> IF x = k THEN e ELSE IF x \in out THEN pushed(out)[x] ELSE store[x]]
<1>1. PICK out \in IF Full(k) THEN {{x} : x \in Held(slots)} ELSE {{}} :
        \E order \in Orders(out) :
            LET saves == << Save(k, e) >> \o Pairs(order, save(out), log(out))
            IN  /\ slots' = w(out)
                /\ \/ Begin("commit", k, saves \o << Log("set", k, e) >>)
                   \/ \E ready \in Gated(w(out)) : \E auto \in ConsolidatePlans(s(out), w(out), ready) :
                        Begin("commit", k, saves \o auto \o << Log("set", k, IF k \in ready THEN As(e, "episodic") ELSE e) >>)
  BY DEF CommitWorking
<1>2. PICK order \in Orders(out) :
            LET saves == << Save(k, e) >> \o Pairs(order, save(out), log(out))
            IN  /\ slots' = w(out)
                /\ \/ Begin("commit", k, saves \o << Log("set", k, e) >>)
                   \/ \E ready \in Gated(w(out)) : \E auto \in ConsolidatePlans(s(out), w(out), ready) :
                        Begin("commit", k, saves \o auto \o << Log("set", k, IF k \in ready THEN As(e, "episodic") ELSE e) >>)
  BY <1>1
<1>. DEFINE M == Pairs(order, save(out), log(out))
<1>3. /\ store \in [AllKeys -> Entry \cup {Absent}]
      /\ slots \in [AllKeys -> Entry \cup {Absent}] /\ Cardinality(Held(slots)) <= Slots
      /\ DOMAIN slots = AllKeys
  BY DEF IInv, TypeInv, TypeOK
<1>4. k \in AllKeys /\ Idle /\ e \in Entry
  BY ConstantFacts DEF CommitWorking, Entry
<1>5. out \in SUBSET (Held(slots) \ {k}) /\ out \subseteq AllKeys
  BY <1>3 DEF Full, Held
<1>6. pushed(out) \in [out -> Entry]
  <2>1. \A x \in out : slots[x] \in Entry
    BY <1>3, <1>5 DEF Held
  <2>. QED  BY <2>1 DEF As, Entry
<1>7. w(out) \in [AllKeys -> Entry \cup {Absent}] /\ s(out) \in [AllKeys -> Entry \cup {Absent}]
  <2>. HIDE DEF e, pushed
  <2>. QED  BY <1>3, <1>4, <1>5, <1>6
<1>8. Cardinality(Held(slots')) <= Slots
  <2>. HIDE DEF e, s
  <2>1. Held(w(out)) = (Held(slots) \ out) \cup {k}
    BY <1>3, <1>4, ConstantFacts DEF Held
  <2>2. Held(w(out)) = Held(slots') /\ IsFiniteSet(Held(slots)) /\ Cardinality(Held(slots)) \in Nat /\ Slots \in Nat
    BY <1>2, <1>3, HeldFinite, ConstantFacts
  <2>3. CASE Full(k)
    <3>1. PICK x \in Held(slots) : out = {x}
      BY <1>1, <2>3
    <3>2. IsFiniteSet(Held(slots) \ {x}) /\ Cardinality(Held(slots) \ {x}) = Cardinality(Held(slots)) - 1
      BY <2>2, FS_RemoveElement
    <3>3. k \notin Held(slots)
      BY <2>3 DEF Full, Held
    <3>4. Cardinality(Held(w(out))) = Cardinality(Held(slots)) - 1 + 1
      BY <2>1, <3>1, <3>2, <3>3, FS_AddElement
    <3>. QED  BY <1>3, <2>2, <3>4
  <2>4. CASE ~Full(k)
    <3>1. out = {}
      BY <1>1, <2>4
    <3>2. CASE k \in Held(slots)
      BY <1>3, <2>1, <2>2, <3>1, <3>2
    <3>3. CASE k \notin Held(slots)
      <4>1. ~(Cardinality(Held(slots)) >= Slots)
        BY <1>3, <1>4, <2>4, <3>3 DEF Full, Held
      <4>2. Cardinality(Held(w(out))) = Cardinality(Held(slots)) + 1
        <5>1. Held(w(out)) = Held(slots) \cup {k}
          BY <2>1, <3>1
        <5>. QED  BY <2>2, <3>3, <5>1, FS_AddElement
      <4>. QED  BY <2>2, <4>1, <4>2
    <3>. QED  BY <3>2, <3>3
  <2>. QED  BY <2>3, <2>4
<1>9. slots' \in [AllKeys -> Entry \cup {Absent}] /\ \A x \in AllKeys \ {k} : slots'[x] = IF x \in out THEN Absent ELSE slots[x]
  BY <1>2, <1>7
<1>13. /\ M \in Seq(Plain)
       /\ \A x \in out : Once(M, x, "save", pushed(out)[x]) /\ Evicts(M, x)
       /\ \A x \in AllKeys \ out : Quiet(M, x)
  <2>. HIDE DEF pushed
  <2>. QED  BY <1>5, <1>6, PushedOut
<1>10. ASSUME NEW P \in Seq(Plain), Begin("commit", k, P)  PROVE TypeInv'
  BY <1>4, <1>8, <1>9, <1>10, BeginTyped DEF IInv
<1>11. CASE Begin("commit", k, (<< Save(k, e) >> \o M) \o << Log("set", k, e) >>)
  <2>. DEFINE A == << Save(k, e) >> \o M
              P == A \o << Log("set", k, e) >>
              nothing == << >>
  <2>1. nothing \in Seq(Plain) /\ \A x : Quiet(nothing, x)
    BY EmptyPlan DEF Quiet
  <2>2. P = (A \o nothing) \o << Log("set", k, e) >>
    <3>1. A \in Seq(Plain)
      <4>2. Save(k, e) \in Plain
        BY <1>4 DEF Save, Plain
      <4>. HIDE DEF M
      <4>. QED  BY <1>13, <4>2
    <3>. HIDE DEF A
    <3>2. A \o nothing = A
      BY <3>1
    <3>. QED  BY <3>2
  <2>. HIDE DEF nothing, e, pushed, M
  <2>3. Begin("commit", k, P)
    BY <1>11
  <2>5. \A x \in out : Evicts(M, x) /\ \E g : Once(M, x, "save", g)
    BY <1>13
  <2>4. P \in Seq(Plain) /\ \A x \in AllKeys : KeyInv(x)'
    <3>. HIDE DEF P
    <3>1. Begin("commit", k, ((<< Save(k, e) >> \o M) \o nothing) \o << Log("set", k, e) >>)
      BY <2>2, <2>3
    <3>2. P \in Seq(Plain)
      BY <1>4, <1>5, <1>9, <1>13, <2>1, <2>2, <2>5, <3>1, WorkingPlan
    <3>3. ASSUME NEW x \in AllKeys  PROVE KeyInv(x)'
      BY <1>4, <1>5, <1>9, <1>13, <2>1, <2>5, <3>1, WorkingPlan
    <3>. QED  BY <3>2, <3>3
  <2>. QED  BY <1>10, <2>3, <2>4 DEF IInv
<1>12. ASSUME NEW ready \in Gated(w(out)), NEW auto \in ConsolidatePlans(s(out), w(out), ready),
              Begin("commit", k, (<< Save(k, e) >> \o M) \o auto \o << Log("set", k, IF k \in ready THEN As(e, "episodic") ELSE e) >>)
       PROVE  IInv'
  <2>. DEFINE f == IF k \in ready THEN As(e, "episodic") ELSE e
              P == ((<< Save(k, e) >> \o M) \o auto) \o << Log("set", k, f) >>
              set == Promotable(s(out), ready)
  <2>1. ready \in SUBSET Held(w(out))
    BY <1>12 DEF Gated
  <2>2. /\ auto \in Seq(Plain)
        /\ \A x \in set : As(w(out)[x], "episodic") \in Entry /\ Once(auto, x, "save", As(w(out)[x], "episodic"))
        /\ \A x \in AllKeys \ set :
             \/ Quiet(auto, x)
             \/ x = SummaryKey /\ s(out)[x] = Absent /\ \E g \in Entry : Once(auto, x, "save", g)
    BY <1>7, <1>12, <2>1, ConsolidationPlan
  <2>3. f \in Entry /\ ((Quiet(auto, k) /\ f = e) \/ Once(auto, k, "save", f))
    <3>1. w(out)[k] = e /\ s(out)[k] = e
      BY <1>4
    <3>2. e.kind \notin LongTerm /\ e # Absent
      BY <1>4, ConstantFacts DEF LongTerm
    <3>3. CASE k \in ready
      <4>1. k \in set
        BY <3>1, <3>2, <3>3 DEF Promotable
      <4>. QED  BY <2>2, <3>1, <3>3, <4>1
    <3>4. CASE k \notin ready
      <4>1. k \in AllKeys \ set /\ k # SummaryKey
        BY <1>4, <3>4, ConstantFacts DEF Promotable
      <4>. QED  BY <1>4, <2>2, <3>4, <4>1
    <3>. QED  BY <3>3, <3>4
  <2>4. ASSUME NEW x \in AllKeys \ {k}
        PROVE  \/ Quiet(auto, x)
               \/ /\ x \notin out /\ (x \in UserKeys => slots[x] # Absent)
                  /\ store[x] = Absent \/ store[x].kind \notin LongTerm
                  /\ \E g \in Entry : Once(auto, x, "save", g)
    <3>3. x \notin out => s(out)[x] = store[x]
      OBVIOUS
    <3>1. CASE x \in set
      <4>1. x \in ready /\ w(out)[x] # Absent
        BY <2>1, <3>1 DEF Promotable, Held
      <4>2. x \notin out /\ slots[x] # Absent
        BY <4>1
      <4>3. s(out)[x] = Absent \/ s(out)[x].kind \notin LongTerm
        BY <3>1 DEF Promotable
      <4>. HIDE DEF s, w, set
      <4>. QED  BY <2>2, <3>1, <3>3, <4>2, <4>3
    <3>2. CASE x \notin set /\ ~Quiet(auto, x)
      <4>1. x = SummaryKey /\ s(out)[x] = Absent /\ \E g \in Entry : Once(auto, x, "save", g)
        BY <2>2, <3>2
      <4>2. x \notin out
        <5>1. x \in out => s(out)[x] \in Entry
          <6>. HIDE DEF pushed, e
          <6>. QED  BY <1>5, <1>6
        <5>. QED  BY <4>1, <5>1, ConstantFacts
      <4>3. store[x] = Absent
        <5>. HIDE DEF s
        <5>. QED  BY <3>3, <4>1, <4>2
      <4>. QED  BY <4>1, <4>2, <4>3, ConstantFacts
    <3>. QED  BY <3>1, <3>2
  <2>5. Begin("commit", k, P)
    BY <1>12
  <2>7. /\ M \in Seq(Plain) /\ auto \in Seq(Plain) /\ f \in Entry
        /\ \A x \in out : Evicts(M, x) /\ \E g : Once(M, x, "save", g)
        /\ \A x \in AllKeys \ out : Quiet(M, x)
        /\ (Quiet(auto, k) /\ f = e) \/ Once(auto, k, "save", f)
    BY <1>13, <2>2, <2>3
  <2>. HIDE DEF f, set, e, pushed, M, w, s
  <2>6. P \in Seq(Plain) /\ \A x \in AllKeys : KeyInv(x)'
    <3>2. P \in Seq(Plain)
      BY <1>4, <1>5, <1>9, <2>4, <2>5, <2>7, WorkingPlan
    <3>3. ASSUME NEW x \in AllKeys  PROVE KeyInv(x)'
      BY <1>4, <1>5, <1>9, <2>4, <2>5, <2>7, WorkingPlan
    <3>. QED  BY <3>2, <3>3
  <2>. QED  BY <1>10, <2>5, <2>6 DEF IInv
<1>. QED  BY <1>2, <1>11, <1>12

\* A rollback's steps bring back target, rewriting the keys of set, and close with
\* the rollback's own row, unless a row without a value refuses it.
Restoring(steps, target, set) ==
    \E P \in Seq(Plain) :
        /\ steps = P \o << Closing >>
        /\ \A k \in AllKeys :
             \/ Quiet(P, k) /\ target[k] \in {NoValue, store[k]}
             \/ target[k] # NoValue /\ Swept(P, k) /\ \E doing : Once(P, k, doing, target[k])
        /\ \A k \in set : target[k] = NoValue => Refuses(P)

LEMMA RollbackPlan ==
    ASSUME ConstantsFit, store \in [AllKeys -> Entry \cup {Absent}],
           NEW target \in [AllKeys -> Entry \cup {Absent, NoValue}], NEW set \in SUBSET Held(target),
           \A k \in Held(target) : store[k] # target[k] => k \in set,
           NEW away \in Orders(Newer(target)), NEW back \in Orders(set)
    PROVE  Restoring(RollbackSteps(target, away, back), target, set)
<1>. DEFINE or(k, step) == IF target[k] = NoValue THEN Refuse(k) ELSE step
            delete  == [k \in AllKeys |-> Delete(k)]
            drop    == [k \in AllKeys |-> Drop(k)]
            unset   == [k \in AllKeys |-> Log("unset", k, Absent)]
            restore == [k \in AllKeys |-> or(k, Save(k, target[k]))]
            dropOld == [k \in AllKeys |-> or(k, Drop(k))]
            setBack == [k \in AllKeys |-> or(k, Log("set", k, target[k]))]
            refused == {k \in AllKeys : target[k] = NoValue}
            newer   == Newer(target)
            none    == {}
            A == Triples(away, delete, drop, unset)
            B == Triples(back, restore, dropOld, setBack)
            P == A \o B
<1>1. newer \in SUBSET AllKeys /\ set \in SUBSET AllKeys /\ refused \in SUBSET AllKeys
  BY DEF Newer, Held
<1>2. GoesThrough(away, newer) /\ GoesThrough(back, set)
  BY <1>1, OrdersGoThrough
<1>3. RollbackSteps(target, away, back) = P \o << Closing >>
  BY DEF RollbackSteps, Closing
<1>4. "delete" \in Changes /\ "save" \in Changes /\ "set" \in Logs /\ "unset" \in Logs
  BY DEF Changes, Logs
<1>5. \A k \in newer : delete[k] \in Plain /\ drop[k] \in Plain /\ unset[k] \in Plain
  BY <1>1 DEF Delete, Drop, Log, Plain
<1>6. \A k \in AllKeys :
        /\ delete[k].do = "delete" /\ delete[k].key = k /\ delete[k].entry = Absent
        /\ drop[k].do = "drop" /\ drop[k].key = k
        /\ unset[k].do = "unset" /\ unset[k].key = k /\ unset[k].entry = Absent
  BY DEF Delete, Drop, Log
<1>7. /\ A \in Seq(Plain)
      /\ \A k \in newer : Once(A, k, "delete", Absent) /\ Swept(A, k)
      /\ \A k \in AllKeys \ newer : Quiet(A, k)
  <2>0. none \in SUBSET AllKeys /\ \A k : k \notin none
    OBVIOUS
  <2>. HIDE DEF newer, delete, drop, unset, none
  <2>1. \A k \in newer : k \notin none =>
            /\ delete[k].do \in Changes /\ delete[k].key = k
            /\ drop[k].do = "drop" /\ drop[k].key = k
            /\ unset[k].do \in Logs /\ unset[k].key = k
            /\ Matches(delete[k].entry, unset[k].entry)
    BY <1>1, <1>4, <1>6, ConstantFacts DEF Matches
  <2>2. \A k \in newer : k \in none => delete[k] = Refuse(k) /\ drop[k] = Refuse(k) /\ unset[k] = Refuse(k)
    BY <2>0
  <2>4. Through(A, newer, none, delete)
    BY <1>1, <1>2, <1>5, <2>0, <2>1, <2>2, TriplesOnce
  <2>. HIDE DEF A
  <2>. QED  BY <1>1, <1>6, <2>0, <2>4 DEF Through
<1>8. ASSUME NEW k \in set
      PROVE  /\ restore[k] \in Plain /\ dropOld[k] \in Plain /\ setBack[k] \in Plain
             /\ k \in refused => restore[k] = Refuse(k) /\ dropOld[k] = Refuse(k) /\ setBack[k] = Refuse(k)
             /\ k \notin refused => restore[k] = Save(k, target[k]) /\ dropOld[k] = Drop(k) /\ setBack[k] = Log("set", k, target[k])
  <2>1. target[k] \in Entry \cup {NoValue} /\ k \in AllKeys
    BY DEF Held
  <2>2. CASE k \in refused
    <3>1. restore[k] = Refuse(k) /\ dropOld[k] = Refuse(k) /\ setBack[k] = Refuse(k)
      BY <2>1, <2>2
    <3>2. Refuse(k) \in Plain
      BY <2>1 DEF Refuse, Plain
    <3>. QED  BY <2>2, <3>1, <3>2
  <2>3. CASE k \notin refused
    <3>1. restore[k] = Save(k, target[k]) /\ dropOld[k] = Drop(k) /\ setBack[k] = Log("set", k, target[k])
      BY <2>1, <2>3
    <3>2. Save(k, target[k]) \in Plain /\ Drop(k) \in Plain /\ Log("set", k, target[k]) \in Plain
      BY <2>1, <2>3 DEF Save, Drop, Log, Plain
    <3>. QED  BY <2>3, <3>1, <3>2
  <2>. QED  BY <2>2, <2>3
<1>9. /\ B \in Seq(Plain)
      /\ \A k \in set \ refused : Once(B, k, "save", target[k]) /\ Swept(B, k)
      /\ \A k \in (AllKeys \ set) \cup refused : Quiet(B, k)
      /\ set \cap refused # {} => Refuses(B)
  <2>1. \A k \in set : restore[k] \in Plain /\ dropOld[k] \in Plain /\ setBack[k] \in Plain
    BY <1>8
  <2>. HIDE DEF restore, dropOld, setBack
  <2>2. ASSUME NEW k \in set \ refused
        PROVE  /\ restore[k].do = "save" /\ restore[k].key = k /\ restore[k].entry = target[k]
               /\ dropOld[k].do = "drop" /\ dropOld[k].key = k
               /\ setBack[k].do = "set" /\ setBack[k].key = k /\ setBack[k].entry = target[k]
               /\ Matches(target[k], target[k])
    <3>1. restore[k] = Save(k, target[k]) /\ dropOld[k] = Drop(k) /\ setBack[k] = Log("set", k, target[k])
      BY <1>8
    <3>2. target[k] # NoValue
      BY <1>1
    <3>. HIDE DEF refused
    <3>. QED  BY <3>1, <3>2 DEF Save, Drop, Log, Matches
  <2>3. \A k \in set : k \notin refused =>
            /\ restore[k].do \in Changes /\ restore[k].key = k
            /\ dropOld[k].do = "drop" /\ dropOld[k].key = k
            /\ setBack[k].do \in Logs /\ setBack[k].key = k
            /\ Matches(restore[k].entry, setBack[k].entry)
    BY <1>4, <2>2
  <2>4. \A k \in set : k \in refused => restore[k] = Refuse(k) /\ dropOld[k] = Refuse(k) /\ setBack[k] = Refuse(k)
    BY <1>1, <1>8
  <2>. HIDE DEF refused
  <2>5. Through(B, set, refused, restore)
    BY <1>1, <1>2, <2>1, <2>3, <2>4, TriplesOnce
  <2>. HIDE DEF B
  <2>. QED  BY <1>1, <2>2, <2>5 DEF Through
<1>10. Plain \subseteq Effect
  BY DEF Effect
<1>. HIDE DEF A, B
<1>11. A \in Seq(Effect) /\ B \in Seq(Effect) /\ P \in Seq(Plain)
  BY <1>7, <1>9, <1>10
<1>12. ASSUME NEW k \in AllKeys
       PROVE  \/ Quiet(P, k) /\ target[k] \in {NoValue, store[k]}
              \/ target[k] # NoValue /\ Swept(P, k) /\ \E doing : Once(P, k, doing, target[k])
  <2>1. CASE k \in newer
    <3>1. target[k] = Absent /\ target[k] # NoValue /\ k \notin set
      BY <2>1, ConstantFacts DEF Newer, Held
    <3>2. Quiet(B, k) /\ Once(A, k, "delete", target[k]) /\ Swept(A, k)
      BY <1>7, <1>9, <2>1, <3>1
    <3>3. Once(P, k, "delete", target[k]) /\ Swept(P, k)
      BY <1>11, <3>2, QuietLast, SweptInPart
    <3>. QED  BY <3>1, <3>3
  <2>2. CASE k \notin newer
    <3>1. Quiet(A, k)
      BY <1>7, <2>2
    <3>2. CASE k \in set \ refused
      <4>1. Once(B, k, "save", target[k]) /\ Swept(B, k)
        BY <1>9, <3>2
      <4>2. Once(P, k, "save", target[k]) /\ Swept(P, k)
        BY <1>11, <3>1, <4>1, QuietFirst, SweptInPart
      <4>. QED  BY <3>2, <4>2
    <3>3. CASE k \notin set \ refused
      <4>1. Quiet(P, k)
        <5>1. Quiet(B, k)
          BY <1>9, <3>3
        <5>. QED  BY <1>11, <3>1, <5>1, QuietFirst
      <4>2. target[k] \in {NoValue, store[k]}
        <5>1. CASE target[k] = Absent
          BY <2>2, <5>1 DEF Newer, Held
        <5>2. CASE target[k] # Absent
          BY <3>3, <5>2 DEF Held
        <5>. QED  BY <5>1, <5>2
      <4>. QED  BY <4>1, <4>2
    <3>. QED  BY <3>2, <3>3
  <2>. QED  BY <2>1, <2>2
<1>13. ASSUME NEW k \in set, target[k] = NoValue  PROVE Refuses(P)
  <2>1. k \in set \cap refused
    BY <1>1, <1>13
  <2>2. PICK i \in DOMAIN B : B[i].do = "refuse"
    BY <1>9, <2>1 DEF Refuses
  <2>3. Len(A) + i \in DOMAIN P /\ P[Len(A) + i] = B[i]
    BY <1>11, <2>2, Positions
  <2>. QED  BY <2>2, <2>3 DEF Refuses
<1>. HIDE DEF P
<1>. QED  BY <1>3, <1>11, <1>12, <1>13 DEF Restoring

LEMMA RollbackKeeps ==
    ASSUME ConstantsFit, IInv, Rollback
    PROVE  IInv'
<1>. DEFINE target  == Replay(checkpoint.rows)
            changed == {k \in Held(target) : store[k] # target[k]}
<1>1. PICK equal \in SUBSET (Held(target) \ changed) :
        \E away \in Orders(Newer(target)), back \in Orders(changed \cup equal) :
            Begin("rollback", System, RollbackSteps(target, away, back))
  BY DEF Rollback
<1>2. PICK away \in Orders(Newer(target)), back \in Orders(changed \cup equal) :
            Begin("rollback", System, RollbackSteps(target, away, back))
  BY <1>1
<1>3. /\ Idle /\ slots' = slots
      /\ store \in [AllKeys -> Entry \cup {Absent}]
      /\ slots \in [AllKeys -> Entry \cup {Absent}] /\ Cardinality(Held(slots)) <= Slots
      /\ audit \in Seq(Row) /\ checkpoint.rows \in 0..Len(audit)
  BY DEF Rollback, IInv, TypeInv, TypeOK
<1>4. /\ target = [k \in AllKeys |-> Latest(audit, checkpoint.rows, k)]
      /\ target \in [AllKeys -> Entry \cup {Absent, NoValue}]
  <2>1. target = [k \in AllKeys |-> Latest(audit, checkpoint.rows, k)]
    BY ReplayIsLatest
  <2>2. \A k \in AllKeys : Latest(audit, checkpoint.rows, k) \in Entry \cup {Absent, NoValue}
    BY <1>3, LatestTyped
  <2>. HIDE DEF target
  <2>. QED  BY <2>1, <2>2
<1>. DEFINE set == changed \cup equal
<1>. HIDE DEF target
<1>5. set \in SUBSET Held(target) /\ \A k \in Held(target) : store[k] # target[k] => k \in set
  OBVIOUS
<1>. HIDE DEF set
<1>6. back \in Orders(set)
  BY DEF set
<1>7. PICK P \in Seq(Plain) :
        /\ RollbackSteps(target, away, back) = P \o << Closing >>
        /\ \A k \in AllKeys :
             \/ Quiet(P, k) /\ target[k] \in {NoValue, store[k]}
             \/ target[k] # NoValue /\ Swept(P, k) /\ \E doing : Once(P, k, doing, target[k])
        /\ \A k \in set : target[k] = NoValue => Refuses(P)
  <2>1. Restoring(RollbackSteps(target, away, back), target, set)
    BY <1>3, <1>4, <1>5, <1>6, RollbackPlan
  <2>. QED  BY <2>1 DEF Restoring
<1>. DEFINE W == P \o << Closing >>
<1>8. Begin("rollback", System, W)
  BY <1>2, <1>7
<1>9. TypeInv'
  BY <1>3, <1>8, BeginTyped DEF IInv
<1>10. P \in Seq(Effect) /\ << Closing >> \in Seq(Effect) /\ W \in Seq(Effect)
  <2>1. P \in Seq(Effect) /\ << Closing >> \in Seq(Effect)
    BY DEF Effect
  <2>. QED  BY <2>1, Positions
<1>11. ASSUME NEW k \in AllKeys  PROVE Quiet(<< Closing >>, k)
  BY <1>11, ConstantFacts DEF Quiet, At, Closing, Log
<1>. HIDE DEF W
<1>12. /\ plan' = W /\ call' = [op |-> "rollback", key |-> System] /\ call'.op = "rollback"
       /\ store' = store /\ audit' = audit /\ torn' = torn /\ checkpoint' = checkpoint
  BY <1>8 DEF Begin
<1>13. ASSUME NEW k \in AllKeys  PROVE KeyInv(k)'
  <2>1. KeyInv(k) /\ RowFits(k)
    BY DEF IInv, KeyInv
  <2>2. Requested(k)' /\ LongTermKept(k)' /\ Noted(k)'
    BY <1>12, <2>1 DEF KeyInv, Requested, LongTermKept, Noted
  <2>3. target[k] = Latest(audit, checkpoint.rows, k)
    BY <1>4
  <2>4. CASE Quiet(P, k) /\ target[k] \in {NoValue, store[k]}
    <3>1. Quiet(W, k)
      BY <1>10, <1>11, <2>4, QuietFirst DEF W
    <3>2. Tidy(W, k, store[k], store[k])
      BY <3>1, QuietIsTidy
    <3>3. RowFits(k)'
      BY <1>3, <1>12, <2>1, <3>1, <3>2, BeginFits DEF Quiet
    <3>4. Course(k)'
      <4>1. CASE target[k] = NoValue
        <5>0. k \in set
          BY <1>3, <1>4, <1>5, <4>1, ConstantFacts DEF Held
        <5>1. PICK i \in DOMAIN P : P[i].do = "refuse"
          BY <1>7, <4>1, <5>0 DEF Refuses
        <5>2. i \in DOMAIN W /\ W[i] = P[i]
          BY <1>10, <5>1, Positions DEF W
        <5>3. Refuses(plan')
          BY <1>12, <5>1, <5>2 DEF Refuses
        <5>. QED  BY <5>3 DEF Course
      <4>2. CASE target[k] # NoValue /\ target[k] = store[k]
        BY <1>12, <2>3, <3>2, <4>2 DEF Course, Tidy
      <4>. QED  BY <2>4, <4>1, <4>2
    <3>. QED  BY <2>2, <3>3, <3>4 DEF KeyInv
  <2>5. CASE target[k] # NoValue /\ Swept(P, k) /\ \E doing : Once(P, k, doing, target[k])
    <3>1. Swept(W, k) /\ \E doing : Once(W, k, doing, target[k])
      BY <1>10, <1>11, <2>5, QuietLast, SweptInPart DEF W
    <3>2. Tidy(W, k, store[k], target[k]) /\ At(W, Logs, k) # {}
      BY <1>10, <3>1, OnceIsTidy
    <3>3. RowFits(k)'
      BY <1>3, <1>12, <2>1, <3>1, <3>2, BeginFits
    <3>4. Course(k)'
      BY <1>12, <2>3, <2>5, <3>2 DEF Course, Tidy
    <3>. QED  BY <2>2, <3>3, <3>4 DEF KeyInv
  <2>. QED  BY <1>7, <2>4, <2>5
<1>. QED  BY <1>9, <1>13 DEF IInv

\* An effect of the running call takes place.
LEMMA StepKeeps ==
    ASSUME ConstantsFit, IInv, Step
    PROVE  IInv'
<1>. DEFINE x == Head(plan)
            row == [op |-> x.do, key |-> x.key, entry |-> x.entry]
<1>1. /\ store \in [AllKeys -> Entry \cup {Absent}]
      /\ slots \in [AllKeys -> Entry \cup {Absent}] /\ Cardinality(Held(slots)) <= Slots
      /\ audit \in Seq(Row) /\ plan \in Seq(Effect)
      /\ checkpoint \in [rows : 0..Len(audit), store : [AllKeys -> Entry \cup {Absent}], torn : SUBSET AllKeys]
      /\ torn \subseteq AllKeys
      /\ call \in [op : {"none", "refused", "commit", "consolidate", "forget", "rollback"}, key : AllKeys \cup {System}]
      /\ \A i \in DOMAIN plan : plan[i] = Closing => i = Len(plan) /\ call.op = "rollback"
  BY DEF IInv, TypeInv, TypeOK, Closing
<1>2. /\ plan # << >> /\ x.do # "refuse" /\ plan' = Tail(plan)
      /\ store' = IF x.do \in Changes THEN [store EXCEPT ![x.key] = x.entry] ELSE store
      /\ slots' = IF x.do = "drop" THEN [slots EXCEPT ![x.key] = Absent] ELSE slots
      /\ audit' = IF x.do \in Logs THEN Append(audit, row) ELSE audit
      /\ torn' = IF x.do \in Logs THEN torn \ {x.key} ELSE torn
      /\ call' = IF Tail(plan) = << >> THEN Ended("none") ELSE call
      /\ checkpoint' = checkpoint
  BY DEF Step, Idle, Changes
<1>3. x \in Effect /\ Tail(plan) \in Seq(Effect)
  BY <1>1, <1>2, TailAt
<1>4. /\ x.do \in Changes => x.key \in AllKeys /\ x.entry \in Entry \cup {Absent}
      /\ x.do = "save" => x.entry # Absent
      /\ x.do = "drop" => x.key \in AllKeys
      /\ x.do \in Logs => row \in Row
      /\ x.do = "rollback" => x.key = System
  <2>1. CASE x \in Plain
    BY <2>1, ConstantFacts DEF Plain, Changes, Logs, Row
  <2>2. CASE x = Closing
    BY <2>2 DEF Closing, Log, Changes, Logs, Row
  <2>. QED  BY <1>3, <2>1, <2>2 DEF Effect
<1>5. Changes \cap Logs = {} /\ {"drop", "refuse"} \cap (Changes \cup Logs) = {}
  BY DEF Changes, Logs
<1>. HIDE DEF x
<1>6. \A k \in AllKeys : /\ store'[k] = After(x, k, store[k])
                         /\ slots'[k] = IF x.do = "drop" /\ x.key = k THEN Absent ELSE slots[k]
  BY <1>1, <1>2, <1>4 DEF After
<1>7. TypeInv'
  <2>1. store' \in [AllKeys -> Entry \cup {Absent}]
    BY <1>1, <1>2, <1>4
  <2>2. slots' \in [AllKeys -> Entry \cup {Absent}]
    BY <1>1, <1>2, <1>4
  <2>3. Cardinality(Held(slots')) <= Slots
    <3>1. Held(slots') \subseteq Held(slots)
      BY <1>1, <1>6, <2>2 DEF Held
    <3>. QED  BY <1>1, <2>2, <3>1, HeldFewer
  <2>4. audit' \in Seq(Row) /\ Len(audit') \in Nat /\ Len(audit) \in Nat /\ Len(audit) <= Len(audit')
    <3>. HIDE DEF row
    <3>. QED  BY <1>1, <1>2, <1>4
  <2>5. \A i \in DOMAIN audit' : audit'[i] \in Row
    BY <2>4
  <2>6. call' \in [op : {"none", "refused", "commit", "consolidate", "forget", "rollback"}, key : AllKeys \cup {System}]
    BY <1>1, <1>2 DEF Ended
  <2>7. torn' \subseteq AllKeys
    BY <1>1, <1>2
  <2>8. ASSUME NEW i \in DOMAIN plan', plan'[i] = Closing  PROVE i = Len(plan') /\ call'.op = "rollback"
    <3>1. /\ Len(plan) \in Nat \ {0} /\ DOMAIN plan = 1..Len(plan) /\ DOMAIN Tail(plan) = 1..Len(plan) - 1
          /\ Len(Tail(plan)) = Len(plan) - 1
          /\ \A j \in 1..Len(plan) - 1 : Tail(plan)[j] = plan[j + 1]
      BY <1>1, <1>2
    <3>2. i \in 1..Len(plan) - 1 /\ i + 1 \in DOMAIN plan /\ plan[i + 1] = Closing
      BY <1>2, <2>8, <3>1
    <3>3. i + 1 = Len(plan) /\ call.op = "rollback"
      BY <1>1, <3>2
    <3>4. Tail(plan) # << >>
      BY <3>1, <3>2
    <3>. QED  BY <1>2, <3>1, <3>2, <3>3, <3>4
  <2>9. checkpoint' \in [rows : 0..Len(audit'), store : [AllKeys -> Entry \cup {Absent}], torn : SUBSET AllKeys]
    BY <1>1, <1>2, <2>4
  <2>10. TypeOK'
    BY <2>1, <2>2, <2>3, <2>5, <2>6, <2>7 DEF TypeOK, Row
  <2>11. Idle' => call'.op # "rollback"
    BY <1>2 DEF Idle, Ended
  <2>. QED  BY <1>2, <1>3, <2>4, <2>8, <2>9, <2>10, <2>11 DEF TypeInv, Closing
<1>8. ASSUME NEW k \in AllKeys
      PROVE  /\ \A n \in 0..Len(audit) : Latest(audit', n, k) = Latest(audit, n, k)
             /\ Latest(audit', Len(audit'), k) = IF x.do \in Logs /\ x.key = k THEN x.entry ELSE Latest(audit, Len(audit), k)
  <2>1. CASE x.do \in Logs
    <3>1. row \in Row /\ row.key = x.key /\ row.op = x.do /\ row.entry = x.entry
      BY <1>4, <2>1
    <3>. HIDE DEF row
    <3>2. audit' = Append(audit, row) /\ Len(audit') = Len(audit) + 1
      BY <1>1, <1>2, <2>1
    <3>3. x.key = k => row.op # "rollback"
      BY <1>4, <3>1, ConstantFacts
    <3>4. \A n \in 0..Len(audit) : Latest(Append(audit, row), n, k) = Latest(audit, n, k)
      BY <1>1, <3>1, LatestAppend
    <3>5. Latest(Append(audit, row), Len(audit) + 1, k) =
            IF row.key = k /\ row.op # "rollback" THEN row.entry ELSE Latest(audit, Len(audit), k)
      BY <1>1, <3>1, LatestAppend
    <3>6. \A n \in 0..Len(audit) : Latest(audit', n, k) = Latest(audit, n, k)
      BY <3>2, <3>4
    <3>7. Latest(audit', Len(audit'), k) = IF x.key = k THEN x.entry ELSE Latest(audit, Len(audit), k)
      BY <3>1, <3>2, <3>3, <3>5
    <3>. QED  BY <2>1, <3>6, <3>7
  <2>2. CASE x.do \notin Logs
    BY <1>2, <2>2
  <2>. QED  BY <2>1, <2>2
<1>9. ASSUME NEW k \in AllKeys  PROVE KeyInv(k)'
  <2>1. RowFits(k) /\ Requested(k) /\ LongTermKept(k) /\ Noted(k) /\ Course(k)
    BY DEF IInv, KeyInv
  <2>2. /\ \A doing : \A i \in At(plan', doing, k) : i \in Nat /\ i > 0 /\ i + 1 \in At(plan, doing, k)
        /\ \A doing : 1 \in At(plan, doing, k) <=> x.do \in doing /\ x.key = k
    <3>1. \A doing : \A i \in At(Tail(plan), doing, k) : i \in Nat /\ i + 1 \in At(plan, doing, k)
      BY <1>1, <1>2, TailAt
    <3>2. \A doing : 1 \in At(plan, doing, k) <=> x.do \in doing /\ x.key = k
      BY <1>1, <1>2, TailAt DEF x
    <3>3. \A doing : \A i \in At(Tail(plan), doing, k) : i \in 1..Len(plan) - 1
      BY <1>1, <1>2, TailAt DEF At
    <3>. QED  BY <1>2, <3>1, <3>2, <3>3
  <2>3. k \in torn' <=> k \in torn /\ ~(x.do \in Logs /\ x.key = k)
    BY <1>2
  <2>4. call'.op \in {"commit", "consolidate", "forget", "rollback"} => call' = call
    BY <1>2 DEF Ended
  <2>5. plan' # << >> => call' = call
    BY <1>2
  <2>6. ASSUME NEW doing, NEW i \in At(plan', doing, k)  PROVE call' = call
    BY <2>5, <2>6, EmptyPlan
  <2>7. RowFits(k)'
    <3>1. PICK e :
            /\ Tidy(plan, k, store[k], e)
            /\ At(plan, Logs, k) = {} => k \in torn \/ Matches(e, Latest(audit, Len(audit), k))
            /\ slots[k] # Absent /\ (k \notin torn \/ At(plan, Logs, k) # {}) => e # Absent \/ Swept(plan, k)
      BY <2>1 DEF RowFits
    <3>2. /\ Tidy(plan', k, store'[k], e)
          /\ At(plan', Logs, k) = {} =>
                IF x.do \in Logs /\ x.key = k THEN Matches(e, x.entry) ELSE At(plan, Logs, k) = {}
          /\ Swept(plan, k) /\ ~(x.do = "drop" /\ x.key = k) => Swept(plan', k)
      BY <1>1, <1>2, <1>6, <3>1, TailTidy DEF x
    <3>3. At(plan', Logs, k) = {} => k \in torn' \/ Matches(e, Latest(audit', Len(audit'), k))
      BY <1>8, <2>3, <3>1, <3>2
    <3>4. ASSUME slots'[k] # Absent, k \notin torn' \/ At(plan', Logs, k) # {}
          PROVE  e # Absent \/ Swept(plan', k)
      <4>1. slots[k] # Absent /\ ~(x.do = "drop" /\ x.key = k)
        BY <1>6, <3>4
      <4>2. k \notin torn \/ At(plan, Logs, k) # {}
        BY <2>2, <2>3, <3>4
      <4>. QED  BY <3>1, <3>2, <4>1, <4>2
    <3>. QED  BY <3>2, <3>3, <3>4 DEF RowFits
  <2>8. Requested(k)'
    <3>1. SUFFICES ASSUME k \in UserKeys, call'.op # "rollback", call'.key # k
                   PROVE  /\ At(plan', {"delete"}, k) = {}
                          /\ \A i \in At(plan', {"save"}, k) :
                                /\ k \in torn' \/ store'[k] # Absent
                                /\ \A j \in At(plan', Logs, k) : i < j
      BY DEF Requested
    <3>2. ASSUME call' = call
          PROVE  /\ At(plan, {"delete"}, k) = {}
                 /\ \A i \in At(plan, {"save"}, k) :
                       /\ k \in torn \/ store[k] # Absent
                       /\ \A j \in At(plan, Logs, k) : i < j
      BY <2>1, <3>1, <3>2 DEF Requested
    <3>3. At(plan', {"delete"}, k) = {}
      BY <2>2, <2>6, <3>2
    <3>4. ASSUME NEW i \in At(plan', {"save"}, k)
          PROVE  k \in torn' \/ store'[k] # Absent
      <4>1. i \in Nat /\ i > 0 /\ i + 1 \in At(plan, {"save"}, k) /\ call' = call
        BY <2>2, <2>6
      <4>2. ~(x.do \in Logs /\ x.key = k)
        BY <2>2, <3>2, <4>1
      <4>3. ~(x.do = "delete" /\ x.key = k)
        BY <2>2, <3>2, <4>1
      <4>4. CASE x.do = "save" /\ x.key = k
        BY <1>4, <1>6, <4>4 DEF After, Changes
      <4>5. CASE ~(x.do = "save" /\ x.key = k)
        <5>1. store'[k] = store[k]
          BY <1>6, <4>3, <4>5 DEF After, Changes
        <5>. QED  BY <2>3, <3>2, <4>1, <4>2, <5>1
      <4>. QED  BY <4>4, <4>5
    <3>5. ASSUME NEW i \in At(plan', {"save"}, k), NEW j \in At(plan', Logs, k)  PROVE i < j
      <4>1. i \in Nat /\ j \in Nat /\ i + 1 \in At(plan, {"save"}, k) /\ j + 1 \in At(plan, Logs, k) /\ call' = call
        BY <2>2, <2>6
      <4>2. i + 1 < j + 1
        BY <3>2, <4>1
      <4>. QED  BY <4>1, <4>2
    <3>. QED  BY <3>3, <3>4, <3>5
  <2>9. LongTermKept(k)'
    <3>1. SUFFICES ASSUME call'.op # "rollback", call'.key # k, NEW i \in At(plan', Changes, k)
                   PROVE  /\ At(plan', Changes, k) = {i}
                          /\ store'[k] # Absent /\ store'[k].kind \in LongTerm =>
                                \E j \in DOMAIN plan' : i < j /\ plan'[j].key = k /\ plan'[j].entry = NoValue
      BY DEF LongTermKept
    <3>2. i \in Nat /\ i > 0 /\ i + 1 \in At(plan, Changes, k) /\ call.op # "rollback" /\ call.key # k
      BY <2>2, <2>6, <3>1
    <3>3. /\ At(plan, Changes, k) = {i + 1}
          /\ store[k] # Absent /\ store[k].kind \in LongTerm =>
                \E j \in DOMAIN plan : i + 1 < j /\ plan[j].key = k /\ plan[j].entry = NoValue
      BY <2>1, <3>2 DEF LongTermKept
    <3>4. ASSUME NEW j \in At(plan', Changes, k)  PROVE j = i
      <4>1. j \in Nat /\ j + 1 \in At(plan, Changes, k)
        BY <2>2
      <4>2. j + 1 = i + 1
        BY <3>3, <4>1
      <4>. QED  BY <3>2, <4>1, <4>2
    <3>5. store'[k] = store[k]
      BY <1>6, <2>2, <3>2, <3>3 DEF After
    <3>6. ASSUME NEW j \in DOMAIN plan, i + 1 < j, plan[j].key = k, plan[j].entry = NoValue
          PROVE  j - 1 \in DOMAIN plan' /\ i < j - 1 /\ plan'[j - 1].key = k /\ plan'[j - 1].entry = NoValue
      <4>1. j \in 1..Len(plan) /\ Len(plan) \in Nat
        BY <1>1
      <4>2. j - 1 \in 1..Len(plan) - 1 /\ i < j - 1
        BY <3>2, <3>6, <4>1
      <4>3. j - 1 \in DOMAIN Tail(plan) /\ Tail(plan)[j - 1] = plan[j]
        BY <1>1, <1>2, <4>1, <4>2
      <4>. QED  BY <1>2, <3>6, <4>2, <4>3
    <3>. QED  BY <3>1, <3>3, <3>4, <3>5, <3>6
  <2>10. Noted(k)'
    BY <1>1, <1>2, <1>8, <2>1 DEF Noted
  <2>11. Course(k)'
    <3>1. SUFFICES ASSUME call'.op = "rollback"
                   PROVE  \/ Refuses(plan')
                          \/ /\ Latest(audit', checkpoint'.rows, k) # NoValue
                             /\ Leaves(plan', k, store'[k], Latest(audit', checkpoint'.rows, k))
      BY DEF Course
    <3>2. call.op = "rollback"
      BY <2>4, <3>1
    <3>3. Latest(audit', checkpoint'.rows, k) = Latest(audit, checkpoint.rows, k)
      BY <1>1, <1>2, <1>8
    <3>4. CASE Refuses(plan)
      <4>1. PICK i \in DOMAIN plan : plan[i].do = "refuse"
        BY <3>4 DEF Refuses
      <4>2. i \in At(plan, {"refuse"}, plan[i].key) \ {1}
        BY <1>1, <1>2, <4>1, TailAt DEF At, x
      <4>3. i - 1 \in At(Tail(plan), {"refuse"}, plan[i].key)
        BY <1>1, <1>2, <4>2, TailAt
      <4>. QED  BY <1>2, <4>3 DEF At, Refuses
    <3>5. CASE /\ Latest(audit, checkpoint.rows, k) # NoValue
               /\ Leaves(plan, k, store[k], Latest(audit, checkpoint.rows, k))
      <4>1. Leaves(Tail(plan), k, After(x, k, store[k]), Latest(audit, checkpoint.rows, k))
        BY <1>1, <1>2, <3>5, TailLeaves DEF x
      <4>. QED  BY <1>2, <1>6, <3>3, <3>5, <4>1
    <3>. QED  BY <2>1, <3>2, <3>4, <3>5 DEF Course
  <2>. QED  BY <2>7, <2>8, <2>9, <2>10, <2>11 DEF KeyInv
<1>. QED  BY <1>7, <1>9 DEF IInv

\* A call that is cut short tears the keys it had not come to, and no others.
LEMMA CutShortKeeps ==
    ASSUME ConstantsFit, IInv, plan' = << >>, torn' = torn \cup Unfinished,
           call' = Ended("none") \/ call' = Ended("refused"),
           store' = store, audit' = audit, checkpoint' = checkpoint,
           slots' \in [AllKeys -> Entry \cup {Absent}], Cardinality(Held(slots')) <= Slots,
           \A k \in AllKeys : slots'[k] # Absent => slots[k] # Absent \/ store[k] # Absent
    PROVE  IInv'
<1>1. /\ plan \in Seq(Effect) /\ torn \subseteq AllKeys /\ audit \in Seq(Row)
  BY DEF IInv, TypeInv, TypeOK
<1>2. \A i \in DOMAIN plan : plan[i] \in Effect
  BY <1>1
<1>3. Unfinished \subseteq AllKeys
  <2>1. \A i \in DOMAIN plan : plan[i].key \in AllKeys \cup {System}
    BY <1>2 DEF Effect, Plain, Closing, Log
  <2>. QED  BY <2>1 DEF Unfinished
<1>4. ASSUME NEW k \in AllKeys, k \notin Unfinished  PROVE At(plan, Changes, k) = {} /\ At(plan, Logs, k) = {}
  <2>1. ASSUME NEW i \in DOMAIN plan, plan[i].key = k, plan[i].do \in Changes \cup Logs  PROVE FALSE
    <3>1. plan[i].do \notin {"drop", "refuse"}
      BY <2>1 DEF Changes, Logs
    <3>2. k # System
      BY ConstantFacts
    <3>. QED  BY <1>4, <2>1, <3>1, <3>2 DEF Unfinished
  <2>. QED  BY <2>1 DEF At
<1>5. call' \in [op : {"none", "refused", "commit", "consolidate", "forget", "rollback"}, key : AllKeys \cup {System}]
      /\ call'.op \in {"none", "refused"}
  BY DEF Ended
<1>6. TypeInv'
  <2>1. TypeOK'
    BY <1>1, <1>3, <1>5 DEF IInv, TypeInv, TypeOK
  <2>2. plan' \in Seq(Effect) /\ \A i \in DOMAIN plan' : FALSE
    OBVIOUS
  <2>3. /\ audit' \in Seq(Row)
        /\ checkpoint' \in [rows : 0..Len(audit'), store : [AllKeys -> Entry \cup {Absent}], torn : SUBSET AllKeys]
    BY DEF IInv, TypeInv
  <2>. QED  BY <1>5, <2>1, <2>2, <2>3 DEF TypeInv
<1>7. ASSUME NEW k \in AllKeys  PROVE KeyInv(k)'
  <2>1. RowFits(k) /\ Noted(k)
    BY DEF IInv, KeyInv
  <2>2. \A doing : At(plan', doing, k) = {}
    BY EmptyPlan
  <2>3. PICK e :
          /\ Tidy(plan, k, store[k], e)
          /\ At(plan, Logs, k) = {} => k \in torn \/ Matches(e, Latest(audit, Len(audit), k))
          /\ slots[k] # Absent /\ (k \notin torn \/ At(plan, Logs, k) # {}) => e # Absent \/ Swept(plan, k)
    BY <2>1 DEF RowFits
  <2>4. ASSUME k \notin torn'
        PROVE  /\ Matches(store[k], Latest(audit, Len(audit), k))
               /\ slots'[k] # Absent => store[k] # Absent
    <3>1. At(plan, Changes, k) = {} /\ At(plan, Logs, k) = {} /\ k \notin torn
      BY <1>4, <2>4
    <3>2. e = store[k]
      BY <2>3, <3>1 DEF Tidy, Leaves
    <3>3. ~Swept(plan, k)
      BY <3>1 DEF Swept
    <3>. QED  BY <2>3, <3>1, <3>2, <3>3
  <2>5. RowFits(k)'
    <3>1. Tidy(plan', k, store'[k], store'[k])
      BY <2>2, QuietIsTidy DEF Quiet
    <3>. QED  BY <2>2, <2>4, <3>1 DEF RowFits
  <2>6. Requested(k)' /\ LongTermKept(k)'
    BY <2>2 DEF Requested, LongTermKept
  <2>7. Noted(k)' /\ Course(k)'
    BY <1>5, <2>1 DEF Noted, Course
  <2>. QED  BY <2>5, <2>6, <2>7 DEF KeyInv
<1>. QED  BY <1>6, <1>7 DEF IInv

LEMMA RestartKeeps ==
    ASSUME ConstantsFit, IInv, Restart
    PROVE  IInv'
<1>. DEFINE of(kind) == {k \in Held(store) : store[k].kind = kind}
<1>1. PICK hydrated \in SUBSET of("working"), warmed \in SUBSET of("semantic") :
        /\ Cardinality(hydrated) + Cardinality(warmed) <= Slots
        /\ slots' = [k \in AllKeys |-> IF k \in hydrated \cup warmed THEN As(store[k], "working") ELSE Absent]
  BY DEF Restart
<1>2. /\ plan' = << >> /\ torn' = torn \cup Unfinished /\ call' = Ended("none")
      /\ store' = store /\ audit' = audit /\ checkpoint' = checkpoint
  BY DEF Restart, CutShort
<1>3. store \in [AllKeys -> Entry \cup {Absent}]
  BY DEF IInv, TypeInv, TypeOK
<1>4. hydrated \subseteq Held(store) /\ warmed \subseteq Held(store)
  OBVIOUS
<1>5. \A k \in hydrated \cup warmed : k \in AllKeys /\ store[k] # Absent /\ As(store[k], "working") \in Entry
  <2>1. \A k \in Held(store) : k \in AllKeys /\ store[k] # Absent /\ store[k] \in Entry
    BY <1>3 DEF Held
  <2>2. \A k \in Held(store) : As(store[k], "working") \in Entry
    BY <2>1 DEF As, Entry
  <2>. QED  BY <1>4, <2>1, <2>2
<1>6. slots' \in [AllKeys -> Entry \cup {Absent}]
  BY <1>1, <1>5
<1>7. Held(slots') \subseteq hydrated \cup warmed
  BY <1>1 DEF Held
<1>8. Cardinality(Held(slots')) <= Slots
  <2>1. IsFiniteSet(Held(store))
    BY <1>3, HeldFinite
  <2>2. IsFiniteSet(hydrated) /\ IsFiniteSet(warmed)
    BY <1>4, <2>1, FS_Subset
  <2>3. /\ IsFiniteSet(hydrated \cup warmed)
        /\ Cardinality(hydrated \cup warmed) = Cardinality(hydrated) + Cardinality(warmed) - Cardinality(hydrated \cap warmed)
    BY <2>2, FS_Union
  <2>4. IsFiniteSet(hydrated \cap warmed) /\ Cardinality(hydrated \cap warmed) \in Nat
    BY <2>2, FS_Intersection, FS_CardinalityType
  <2>5. /\ Cardinality(hydrated) \in Nat /\ Cardinality(warmed) \in Nat /\ Cardinality(hydrated \cup warmed) \in Nat
        /\ Cardinality(Held(slots')) \in Nat
        /\ Cardinality(Held(slots')) <= Cardinality(hydrated \cup warmed)
    BY <1>7, <2>2, <2>3, FS_Subset, FS_CardinalityType
  <2>. QED  BY <1>1, <2>3, <2>4, <2>5, ConstantFacts
<1>9. \A k \in AllKeys : slots'[k] # Absent => store[k] # Absent
  BY <1>1, <1>5
<1>. HIDE DEF of
<1>. QED  BY <1>2, <1>6, <1>8, <1>9, CutShortKeeps

LEMMA NoteMomentKeeps ==
    ASSUME ConstantsFit, IInv, NoteMoment
    PROVE  IInv'
<1>1. /\ Idle /\ checkpoint' = [rows |-> Len(audit), store |-> store, torn |-> torn]
      /\ UNCHANGED <<store, slots, audit, plan, call, faults, torn>>
  BY DEF NoteMoment
<1>2. /\ store \in [AllKeys -> Entry \cup {Absent}] /\ torn \subseteq AllKeys /\ audit \in Seq(Row)
      /\ call.op # "rollback"
  BY <1>1 DEF IInv, TypeInv, TypeOK
<1>3. TypeInv'
  <2>1. Len(audit) \in 0..Len(audit)
    BY <1>2
  <2>. QED  BY <1>1, <1>2, <2>1 DEF IInv, TypeInv, TypeOK, Idle, Held
<1>4. ASSUME NEW k \in AllKeys  PROVE KeyInv(k)'
  <2>1. RowFits(k) /\ Requested(k) /\ LongTermKept(k)
    BY DEF IInv, KeyInv
  <2>2. RowFits(k)' /\ Requested(k)' /\ LongTermKept(k)'
    BY <1>1, <2>1 DEF RowFits, Requested, LongTermKept
  <2>3. Noted(k)'
    BY <1>1, <2>1, BetweenCalls DEF Noted
  <2>4. Course(k)'
    BY <1>1, <1>2 DEF Course
  <2>. QED  BY <2>2, <2>3, <2>4 DEF KeyInv
<1>. QED  BY <1>3, <1>4 DEF IInv

-----------------------------------------------------------------------------
(* The invariant holds throughout *)

LEMMA InitIInv ==
    ASSUME ConstantsFit, Init
    PROVE  IInv
<1>1. store = [k \in AllKeys |-> Absent] /\ slots = [k \in AllKeys |-> Absent] /\ audit = << >> /\ plan = << >>
      /\ call = Ended("none") /\ torn = {} /\ checkpoint = [rows |-> 0, store |-> [k \in AllKeys |-> Absent], torn |-> {}]
  BY DEF Init
<1>2. TypeInv
  <2>1. Held(slots) = {}
    BY <1>1 DEF Held
  <2>2. Cardinality(Held(slots)) <= Slots
    BY <2>1, FS_EmptySet, ConstantFacts
  <2>3. TypeOK
    BY <1>1, <2>2 DEF TypeOK, Ended
  <2>4. audit \in Seq(Row) /\ Len(audit) = 0 /\ plan \in Seq(Effect) /\ \A i \in DOMAIN plan : FALSE
    BY <1>1
  <2>. QED  BY <1>1, <2>3, <2>4 DEF TypeInv, Ended
<1>3. ASSUME NEW k \in AllKeys  PROVE KeyInv(k)
  <2>1. \A doing : At(plan, doing, k) = {}
    BY <1>1, EmptyPlan
  <2>2. Latest(audit, 0, k) = Absent
    <3>1. Found(audit, 0, k) = {}
      BY DEF Found
    <3>. QED  BY <3>1 DEF Latest, LastOf
  <2>3. Matches(Absent, Absent) /\ Len(audit) = 0 /\ store[k] = Absent /\ slots[k] = Absent
    BY <1>1, ConstantFacts DEF Matches
  <2>4. Tidy(plan, k, store[k], Absent)
    BY <2>1, <2>3, QuietIsTidy DEF Quiet
  <2>5. RowFits(k)
    BY <2>2, <2>3, <2>4 DEF RowFits
  <2>6. Requested(k) /\ LongTermKept(k)
    BY <2>1 DEF Requested, LongTermKept
  <2>7. Noted(k) /\ Course(k)
    BY <1>1, <2>2, <2>3 DEF Noted, Course, Ended
  <2>. QED  BY <2>5, <2>6, <2>7 DEF KeyInv
<1>. QED  BY <1>2, <1>3 DEF IInv

LEMMA NextIInv ==
    ASSUME ConstantsFit, IInv, [Next]_vars
    PROVE  IInv'
<1>1. ASSUME NEW k \in UserKeys, NEW v \in Values, CommitWorking(k, v)  PROVE IInv'
  BY <1>1, CommitWorkingKeeps
<1>2. ASSUME NEW k \in UserKeys, NEW v \in Values, NEW kind \in CommitKinds, CommitLongTerm(k, v, kind)  PROVE IInv'
  BY <1>2, CommitLongTermKeeps
<1>3. CASE Consolidate
  BY <1>3, ConsolidateKeeps
<1>4. ASSUME NEW k \in UserKeys, Forget(k)  PROVE IInv'
  BY <1>4, ForgetKeeps
<1>5. CASE Rollback
  BY <1>5, RollbackKeeps
<1>6. CASE Step
  BY <1>6, StepKeeps
<1>0. slots \in [AllKeys -> Entry \cup {Absent}] /\ Cardinality(Held(slots)) <= Slots
  BY DEF IInv, TypeInv, TypeOK
<1>7. CASE Fail
  BY <1>0, <1>7, CutShortKeeps DEF Fail, CutShort
<1>8. CASE RefuseStep
  BY <1>0, <1>8, CutShortKeeps DEF RefuseStep
<1>9. CASE Restart
  BY <1>9, RestartKeeps
<1>10. CASE NoteMoment
  BY <1>10, NoteMomentKeeps
<1>11. CASE UNCHANGED vars
  <2>1. UNCHANGED <<store, slots, audit, plan, call, torn, checkpoint>>
    BY <1>11 DEF vars
  <2>2. TypeInv'
    BY <2>1 DEF IInv, TypeInv, TypeOK, Idle, Held
  <2>3. \A k \in AllKeys : KeyInv(k)'
    BY <2>1 DEF IInv, KeyInv, RowFits, Requested, LongTermKept, Noted, Course
  <2>. QED  BY <2>2, <2>3 DEF IInv
<1>. QED  BY <1>1, <1>2, <1>3, <1>4, <1>5, <1>6, <1>7, <1>8, <1>9, <1>10, <1>11 DEF Next

LEMMA Inductive ==
    ASSUME ConstantsFit
    PROVE  Spec => []IInv
<1>1. Init => IInv
  BY InitIInv
<1>2. IInv /\ [Next]_vars => IInv'
  BY NextIInv
<1>. QED  BY <1>1, <1>2, PTL DEF Spec

-----------------------------------------------------------------------------
(* The theorems *)

\* Every variable keeps its type, and the buffer of stateplane.py never holds
\* more than WorkingMemory.max_slots entries, across evictions and restarts.
THEOREM TypeCorrect ==
    ASSUME ConstantsFit
    PROVE  Spec => []TypeOK
<1>1. IInv => TypeOK
  BY DEF IInv, TypeInv
<1>. QED  BY <1>1, Inductive, PTL

\* Between calls the audit rows replay to the stored memories and every slot of
\* the buffer is backed by a stored row, whatever failed or restarted before,
\* but for keys whose last change was cut short.
THEOREM Covered ==
    ASSUME ConstantsFit
    PROVE  Spec => []StoreIsCovered
<1>1. ASSUME IInv  PROVE StoreIsCovered
  <2>1. SUFFICES ASSUME Idle  PROVE
            /\ \A k \in AllKeys \ torn :
                    IF Replay(Len(audit))[k] = NoValue THEN store[k] # Absent ELSE Replay(Len(audit))[k] = store[k]
            /\ \A k \in Held(slots) \ torn : store[k] # Absent
    BY DEF StoreIsCovered, AuditTracksStore, BufferIsBacked
  <2>2. ASSUME NEW k \in AllKeys
        PROVE  /\ k \in torn \/ Matches(store[k], Latest(audit, Len(audit), k))
               /\ slots[k] # Absent => k \in torn \/ store[k] # Absent
    BY <1>1, <2>1, BetweenCalls DEF IInv, KeyInv
  <2>3. \A k \in AllKeys : Replay(Len(audit))[k] = Latest(audit, Len(audit), k)
    BY ReplayIsLatest
  <2>4. Held(slots) \subseteq AllKeys /\ \A k \in Held(slots) : slots[k] # Absent
    BY <1>1 DEF IInv, TypeInv, TypeOK, Held
  <2>. QED  BY <2>2, <2>3, <2>4 DEF Matches
<1>. QED  BY <1>1, Inductive, PTL

\* Only a step of the running call changes the store or the audit log.
LEMMA OnlyStepsWrite ==
    ASSUME [Next]_vars, ~Step
    PROVE  store' = store /\ audit' = audit
<1>1. ASSUME NEW op, NEW key, NEW steps, Begin(op, key, steps)  PROVE store' = store /\ audit' = audit
  BY <1>1 DEF Begin
<1>2. ASSUME NEW k \in UserKeys, NEW v \in Values, CommitWorking(k, v)  PROVE \E steps : Begin("commit", k, steps)
  BY <1>2 DEF CommitWorking
<1>3. ASSUME NEW k \in UserKeys, NEW v \in Values, NEW kind \in CommitKinds, CommitLongTerm(k, v, kind)
      PROVE  \E steps : Begin("commit", k, steps)
  BY <1>3 DEF CommitLongTerm
<1>4. Consolidate => \E steps : Begin("consolidate", System, steps)
  BY DEF Consolidate
<1>5. ASSUME NEW k \in UserKeys, Forget(k)  PROVE \E steps : Begin("forget", k, steps)
  BY <1>5 DEF Forget
<1>6. Rollback => \E steps : Begin("rollback", System, steps)
  BY DEF Rollback
<1>7. Fail \/ RefuseStep \/ Restart \/ NoteMoment \/ UNCHANGED vars => store' = store /\ audit' = audit
  BY DEF Fail, RefuseStep, Restart, NoteMoment, vars
<1>. QED  BY <1>1, <1>2, <1>3, <1>4, <1>5, <1>6, <1>7 DEF Next

\* What a step does to k.
LEMMA StepWrites ==
    ASSUME ConstantsFit, IInv, Step
    PROVE  /\ Head(plan) \in Effect /\ plan \in Seq(Effect) /\ plan # << >>
           /\ \A doing, k : 1 \in At(plan, doing, k) <=> Head(plan).do \in doing /\ Head(plan).key = k
           /\ \A k \in AllKeys : store'[k] = After(Head(plan), k, store[k])
<1>1. plan \in Seq(Effect) /\ store \in [AllKeys -> Entry \cup {Absent}]
  BY DEF IInv, TypeInv, TypeOK
<1>2. plan # << >> /\ store' = IF Head(plan).do \in Changes THEN [store EXCEPT ![Head(plan).key] = Head(plan).entry] ELSE store
  BY DEF Step, Idle, Changes
<1>3. \A k \in AllKeys : store'[k] = After(Head(plan), k, store[k])
  BY <1>1, <1>2 DEF After
<1>. QED  BY <1>1, <1>2, <1>3, TailAt

\* Eviction and promotion, which a caller did not ask for, never bring back a
\* forgotten memory; and only a rollback, a call that names it, or the eviction of the
\* slot that shares its key changes a long-term row: no promotion does, alone or
\* inside a commit (stateplane.py:1797).
THEOREM NoHarmOnTheSide ==
    ASSUME ConstantsFit
    PROVE  Spec => SideEffectsAreSafe
<1>1. ASSUME IInv, [Next]_vars, NEW k \in UserKeys \ torn, store[k] = Absent, store'[k] # Absent
      PROVE  call.op = "rollback" \/ call.key = k
  <2>1. Step
    BY <1>1, OnlyStepsWrite
  <2>2. k \in AllKeys /\ Requested(k)
    BY <1>1, ConstantFacts DEF IInv, KeyInv
  <2>3. Head(plan).do \in Changes /\ Head(plan).key = k /\ store'[k] = Head(plan).entry
    BY <1>1, <2>1, <2>2, StepWrites DEF After
  <2>4. Head(plan).do # "delete"
    BY <1>1, <2>1, <2>3, StepWrites DEF Effect, Plain, Closing, Log
  <2>5. 1 \in At(plan, {"save"}, k)
    BY <1>1, <2>1, <2>3, <2>4, StepWrites DEF Changes
  <2>. QED  BY <1>1, <2>2, <2>5 DEF Requested
<1>2. ASSUME IInv, [Next]_vars, NEW k \in Held(store), store[k].kind \in LongTerm, store'[k] # store[k]
      PROVE  call.op = "rollback" \/ call.key = k \/ Evicts(plan, k)
  <2>1. Step
    BY <1>2, OnlyStepsWrite
  <2>2. k \in AllKeys /\ store[k] # Absent /\ LongTermKept(k)
    BY <1>2 DEF IInv, TypeInv, TypeOK, KeyInv, Held
  <2>3. 1 \in At(plan, Changes, k)
    BY <1>2, <2>1, <2>2, StepWrites DEF After
  <2>. QED  BY <1>2, <2>2, <2>3 DEF LongTermKept, Evicts
<1>3. IInv /\ [Next]_vars =>
        \A k \in UserKeys \ torn : store[k] = Absent /\ store'[k] # Absent => call.op = "rollback" \/ call.key = k
  BY <1>1
<1>4. IInv /\ [Next]_vars =>
        \A k \in Held(store) : store[k].kind \in LongTerm /\ store'[k] # store[k] =>
            call.op = "rollback" \/ call.key = k \/ Evicts(plan, k)
  BY <1>2
<1>. QED  BY <1>3, <1>4, Inductive, PTL DEF Spec, SideEffectsAreSafe, StoredOnlyByRequest, PromotionKeepsLongTerm

\* A rollback that gets to its own audit row has brought back exactly what was
\* stored at the noted moment, whatever was cut short, evicted, consolidated or
\* rolled back in between (mcp-server.md:180-184).
THEOREM RollbackRestores ==
    ASSUME ConstantsFit
    PROVE  Spec => PlaneRollbackRestores
<1>1. ASSUME IInv, [Next]_vars, Len(audit') > Len(audit), audit'[Len(audit')].op = "rollback",
             NEW k \in AllKeys \ checkpoint.torn
      PROVE  store'[k] = checkpoint.store[k]
  <2>0. audit \in Seq(Row) /\ Len(audit) \in Nat
    BY <1>1 DEF IInv, TypeInv
  <2>1. Step
    <3>1. audit' # audit
      BY <1>1, <2>0
    <3>. QED  BY <1>1, <3>1, OnlyStepsWrite
  <2>. DEFINE x == Head(plan)
              row == [op |-> x.do, key |-> x.key, entry |-> x.entry]
  <2>2. audit' = IF x.do \in Logs THEN Append(audit, row) ELSE audit
    BY <2>1 DEF Step
  <2>. HIDE DEF x, row
  <2>3. x.do \in Logs
    BY <1>1, <2>0, <2>2
  <2>4. audit'[Len(audit')] = row
    BY <2>0, <2>2, <2>3
  <2>5. x.do = "rollback"
    BY <1>1, <2>4 DEF row
  <2>6. x \in Effect /\ plan \in Seq(Effect) /\ plan # << >> /\ plan[1] = x /\ Len(plan) \in Nat \ {0}
    BY <1>1, <2>1, StepWrites DEF x
  <2>7. x = Closing
    BY <2>5, <2>6 DEF Effect, Plain
  <2>8. Len(plan) = 1 /\ call.op = "rollback"
    <3>1. \A i \in DOMAIN plan : plan[i] = Closing => i = Len(plan) /\ call.op = "rollback"
      BY <1>1 DEF IInv, TypeInv
    <3>2. 1 \in DOMAIN plan /\ plan[1] = Closing
      BY <2>6, <2>7
    <3>. QED  BY <3>1, <3>2
  <2>9. ~Refuses(plan) /\ At(plan, Changes, k) = {}
    BY <2>5, <2>6, <2>8 DEF Refuses, At, Changes
  <2>10. Course(k) /\ Noted(k)
    BY <1>1 DEF IInv, KeyInv
  <2>11. Latest(audit, checkpoint.rows, k) # NoValue /\ store[k] = Latest(audit, checkpoint.rows, k)
    BY <2>8, <2>9, <2>10 DEF Course, Leaves
  <2>12. checkpoint.store[k] = Latest(audit, checkpoint.rows, k)
    BY <1>1, <2>10, <2>11 DEF Noted, Matches
  <2>13. store'[k] = store[k]
    BY <1>1, <2>1, <2>5, StepWrites DEF After, Changes, x
  <2>. QED  BY <2>11, <2>12, <2>13
<1>2. IInv /\ [Next]_vars =>
        (Len(audit') > Len(audit) /\ audit'[Len(audit')].op = "rollback" =>
            \A k \in AllKeys \ checkpoint.torn : store'[k] = checkpoint.store[k])
  BY <1>1
<1>. QED  BY <1>2, Inductive, PTL DEF Spec, PlaneRollbackRestores

=============================================================================
