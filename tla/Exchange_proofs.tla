--------------------------- MODULE Exchange_proofs --------------------------
(***************************************************************************)
(* What is proved of the parts that MCExchange puts together, for every    *)
(* value of their constants: the limit on how fast clients are served, the *)
(* pages of memories a client walks over, the turns of an agent, and the   *)
(* beliefs that agents exchange.                                           *)
(***************************************************************************)
EXTENDS MCExchange, FiniteSetTheorems, WellFoundedInduction, SequenceTheorems, TLAPS

-----------------------------------------------------------------------------
(* The rate limiter *)

\* A bucket that is kept: it holds no more than an exact clock would grant, and
\* exactly that while the clock was not set back.
BucketIsFair(c) ==
    /\ bucket[c] \in [tokens : Int, idle : Int]
    /\ bucket[c].tokens \in -back..Burst /\ bucket[c].idle \in -back..RL!Longest
    /\ bucket[c].tokens + bucket[c].idle >= -back
    /\ RL!Refilled(bucket[c]) <= earned[c]
    /\ back = 0 => RL!Refilled(bucket[c]) = earned[c]

\* Who has no bucket has earned a full one.
Account(c) ==
    /\ earned[c] \in 0..Burst
    /\ bucket[c] = Nil => earned[c] = Burst
    /\ bucket[c] # Nil => BucketIsFair(c)

LimiterInv ==
    /\ back \in 0..MaxBack
    /\ bucket = [c \in Clients |-> bucket[c]] /\ earned = [c \in Clients |-> earned[c]]
    /\ \A c \in Clients : Account(c)
    /\ Cardinality(RL!Known) <= MaxEntries + 1

\* The limiter counts as the library does.
LEMMA LimiterSets == ASSUME NEW S PROVE RL!Cardinality(S) = Cardinality(S)
BY DEF RL!Cardinality, Cardinality

\* The clients are finitely many.
LEMMA FewClients == IsFiniteSet(Clients)
BY LimiterConstants DEF RL!ConstantsFit, RL!IsFiniteSet, IsFiniteSet

\* At first no client has a bucket.
LEMMA LimiterStarts == ASSUME RL!Init PROVE LimiterInv
<1>. USE LimiterConstants DEF RL!ConstantsFit
<1>1. RL!Known = {}
  BY DEF RL!Init, RL!Known
<1>2. Cardinality(RL!Known) = 0
  BY <1>1, FS_EmptySet
<1>. QED  BY <1>2 DEF RL!Init, LimiterInv, Account

\* A new bucket is full and fair.
LEMMA CallIsFair ==
    ASSUME LimiterInv, NEW b, NEW mine \in 0..Burst, NEW have,
           have = RL!Refilled(b), b \in [tokens : Int, idle : Int],
           b.tokens + b.idle >= -back, have <= mine, back = 0 => have = mine,
           NEW c \in Clients, bucket'[c] = RL!After(b, have), back' = back,
           earned'[c] = IF have >= Price THEN mine - Price ELSE mine
    PROVE  Account(c)' /\ bucket'[c] # Nil
<1>. USE LimiterConstants DEF RL!ConstantsFit
<1>1. back \in 0..MaxBack /\ b.tokens \in Int /\ b.idle \in Int
  BY DEF LimiterInv
<1>2. have \in Int /\ have <= Burst /\ have >= -back
  BY <1>1 DEF RL!Refilled, RL!Least
<1>3. CASE have >= Price
  <2>1. bucket'[c] = [tokens |-> have - Price, idle |-> 0]
    BY <1>3 DEF RL!After
  <2>2. bucket'[c] \in [tokens : Int, idle : Int] /\ bucket'[c].tokens = have - Price /\ bucket'[c].idle = 0
    BY <2>1, <1>2
  <2>3. RL!Refilled(bucket'[c]) = have - Price
    BY <2>2, <1>2, <1>3 DEF RL!Refilled, RL!Least
  <2>4. earned'[c] = mine - Price
    BY <1>3
  <2>. QED  BY <2>2, <2>3, <2>4, <1>1, <1>2, <1>3 DEF Account, BucketIsFair, RL!Longest
<1>4. CASE ~(have >= Price)
  <2>1. bucket'[c] = [tokens |-> have, idle |-> 0]
    BY <1>4 DEF RL!After
  <2>2. bucket'[c] \in [tokens : Int, idle : Int] /\ bucket'[c].tokens = have /\ bucket'[c].idle = 0
    BY <2>1, <1>2
  <2>3. RL!Refilled(bucket'[c]) = have
    BY <2>2, <1>2 DEF RL!Refilled, RL!Least
  <2>4. earned'[c] = mine
    BY <1>4
  <2>. QED  BY <2>2, <2>3, <2>4, <1>1, <1>2, <1>4 DEF Account, BucketIsFair, RL!Longest
<1>. QED  BY <1>3, <1>4

\* What an eviction keeps, and that it makes room.
LEMMA KeptFits ==
    ASSUME LimiterInv, NEW kept \in RL!Kept
    PROVE  kept \subseteq RL!Known /\ IsFiniteSet(kept) /\ Cardinality(kept) <= MaxEntries
<1>. USE LimiterConstants DEF RL!ConstantsFit
<1>1. IsFiniteSet(RL!Known)
  BY FewClients, FS_Subset DEF RL!Known
<1>2. kept \subseteq RL!Known
  BY DEF RL!Kept
<1>3. PICK n \in Nat : n = Cardinality(RL!Known)
  BY <1>1, FS_CardinalityType
<1>4. CASE n <= MaxEntries
  BY <1>1, <1>3, <1>4, LimiterSets DEF RL!Kept
<1>5. CASE ~(n <= MaxEntries)
  <2>1. n = MaxEntries + 1
    BY <1>3, <1>5 DEF LimiterInv
  <2>2. Cardinality(kept) = RL!KeptOf(n)
    BY <1>3, <1>5, LimiterSets DEF RL!Kept
  <2>3. n \div 2 <= MaxEntries
    BY <2>1
  <2>4. RL!KeptOf(n) <= MaxEntries
    BY <2>1, <2>3, <1>3 DEF RL!KeptOf, RL!Least
  <2>. QED  BY <1>1, <1>2, <2>2, <2>4, FS_Subset
<1>. QED  BY <1>4, <1>5

\* A call of a client.
LEMMA CallKeepsFair == ASSUME LimiterInv, NEW c \in Clients, RL!Call(c) PROVE LimiterInv'
<1>. USE LimiterConstants DEF RL!ConstantsFit
<1>. DEFINE b(kept) == IF c \in kept THEN bucket[c] ELSE [tokens |-> Burst, idle |-> 0]
            mine(kept, d) == IF d \in kept \/ d \notin RL!Known THEN earned[d] ELSE Burst
            have(kept) == RL!Refilled(b(kept))
<1>1. PICK kept \in RL!Kept :
        /\ bucket' = [d \in Clients |-> IF d = c THEN RL!After(b(kept), have(kept))
                                        ELSE IF d \in kept THEN bucket[d] ELSE Nil]
        /\ earned' = [d \in Clients |-> IF d = c /\ have(kept) >= Price THEN mine(kept, d) - Price ELSE mine(kept, d)]
        /\ back' = back
  BY DEF RL!Call
<1>2. kept \subseteq RL!Known /\ IsFiniteSet(kept) /\ Cardinality(kept) <= MaxEntries
  BY KeptFits
<1>3. Account(c)' /\ bucket'[c] # Nil
  <2>0. back \in 0..MaxBack
    BY DEF LimiterInv
  <2>1. CASE c \in kept
    <3>1. bucket[c] # Nil /\ Account(c)
      BY <2>1, <1>2 DEF RL!Known, LimiterInv
    <3>2. b(kept) = bucket[c] /\ mine(kept, c) = earned[c] /\ have(kept) = RL!Refilled(bucket[c])
      BY <2>1
    <3>3. bucket'[c] = RL!After(bucket[c], RL!Refilled(bucket[c]))
          /\ earned'[c] = IF RL!Refilled(bucket[c]) >= Price THEN earned[c] - Price ELSE earned[c]
      BY <1>1, <3>2
    <3>. QED  BY <3>1, <3>3, <1>1, CallIsFair DEF Account, BucketIsFair
  <2>2. CASE c \notin kept
    <3>1. PICK full : full = [tokens |-> Burst, idle |-> 0]
      OBVIOUS
    <3>2. full \in [tokens : Int, idle : Int] /\ full.tokens = Burst /\ full.idle = 0
      BY <3>1
    <3>3. RL!Refilled(full) = Burst
      BY <3>2 DEF RL!Refilled, RL!Least
    <3>4. mine(kept, c) = Burst
      BY <2>2 DEF RL!Known, LimiterInv, Account
    <3>5. b(kept) = full /\ have(kept) = Burst
      BY <2>2, <3>1, <3>3
    <3>6. bucket'[c] = RL!After(full, Burst)
          /\ earned'[c] = IF Burst >= Price THEN Burst - Price ELSE Burst
      BY <1>1, <3>4, <3>5
    <3>. QED  BY <3>2, <3>3, <3>6, <1>1, <2>0, CallIsFair
  <2>. QED  BY <2>1, <2>2
<1>4. ASSUME NEW d \in Clients, d # c PROVE Account(d)'
  <2>1. CASE d \in kept
    <3>1. bucket'[d] = bucket[d] /\ earned'[d] = earned[d] /\ back' = back
      BY <1>1, <1>4, <2>1
    <3>. QED  BY <3>1 DEF LimiterInv, Account, BucketIsFair
  <2>2. CASE d \notin kept
    <3>1. bucket'[d] = Nil /\ earned'[d] = mine(kept, d)
      BY <1>1, <1>4, <2>2
    <3>2. mine(kept, d) = Burst
      BY <2>2 DEF RL!Known, LimiterInv, Account
    <3>. QED  BY <3>1, <3>2 DEF Account
  <2>. QED  BY <2>1, <2>2
<1>5. Cardinality(RL!Known') <= MaxEntries + 1
  <2>1. RL!Known' \subseteq kept \cup {c}
    BY <1>1 DEF RL!Known
  <2>2. IsFiniteSet(kept \cup {c}) /\ Cardinality(kept \cup {c}) <= MaxEntries + 1
    BY <1>2, FS_AddElement, FS_CardinalityType
  <2>. QED  BY <2>1, <2>2, FS_Subset, FS_CardinalityType
<1>6. bucket' = [d \in Clients |-> bucket'[d]] /\ earned' = [d \in Clients |-> earned'[d]] /\ back' = back
  BY <1>1
<1>. HIDE DEF b, mine, have
<1>. QED  BY <1>3, <1>4, <1>5, <1>6 DEF LimiterInv

\* The clock goes on.
LEMMA TickKeepsFair == ASSUME LimiterInv, RL!Tick PROVE LimiterInv'
<1>. USE LimiterConstants DEF RL!ConstantsFit
<1>1. RL!Known' = RL!Known
  <2>1. ASSUME NEW c \in Clients, bucket[c] # Nil PROVE bucket'[c] # Nil
    <3>1. PICK b \in [tokens : Int, idle : Int] : b = bucket[c]
      BY <2>1 DEF LimiterInv, Account, BucketIsFair
    <3>2. PICK n : n = RL!Least(RL!Longest, b.idle + 1)
      OBVIOUS
    <3>3. bucket'[c] = [b EXCEPT !.idle = n]
      BY <2>1, <3>1, <3>2 DEF RL!Tick, RL!Older
    <3>4. n \in Int
      BY <3>1, <3>2, LimiterConstants DEF RL!Least, RL!Longest
    <3>. QED  BY <3>1, <3>3, <3>4
  <2>. QED  BY <2>1 DEF RL!Tick, RL!Older, RL!Known
<1>2. ASSUME NEW c \in Clients PROVE Account(c)'
  <2>0. back \in 0..MaxBack /\ Account(c) /\ back' = back
    BY DEF LimiterInv, RL!Tick
  <2>1. earned'[c] = RL!Least(Burst, earned[c] + 1)
    BY DEF RL!Tick
  <2>2. earned'[c] \in 0..Burst
    BY <2>0, <2>1 DEF RL!Least, Account
  <2>3. CASE bucket[c] = Nil
    BY <2>0, <2>1, <2>2, <2>3 DEF RL!Tick, RL!Older, RL!Least, Account
  <2>4. CASE bucket[c] # Nil
    <3>1. PICK b \in [tokens : Int, idle : Int] : b = bucket[c]
      BY <2>0, <2>4 DEF Account, BucketIsFair
    <3>2. PICK n \in Int : n = RL!Least(RL!Longest, b.idle + 1)
      BY <3>1 DEF RL!Least, RL!Longest
    <3>3. bucket'[c] = [b EXCEPT !.idle = n]
      BY <2>4, <3>1, <3>2 DEF RL!Tick, RL!Older
    <3>4. bucket'[c] \in [tokens : Int, idle : Int] /\ bucket'[c].tokens = b.tokens /\ bucket'[c].idle = n
      BY <3>1, <3>2, <3>3
    <3>5. b.tokens \in -back..Burst /\ b.idle \in -back..RL!Longest /\ b.tokens + b.idle >= -back
          /\ RL!Refilled(b) <= earned[c] /\ (back = 0 => RL!Refilled(b) = earned[c])
      BY <2>0, <2>4, <3>1 DEF Account, BucketIsFair
    <3>6. n \in -back..RL!Longest /\ b.tokens + n >= -back
      BY <2>0, <3>2, <3>5 DEF RL!Least, RL!Longest
    <3>7. RL!Refilled(bucket'[c]) = RL!Least(Burst, b.tokens + n)
      BY <3>4 DEF RL!Refilled
    <3>8. RL!Least(Burst, b.tokens + n) <= earned'[c]
      BY <2>0, <2>1, <3>2, <3>5 DEF RL!Least, RL!Longest, RL!Refilled, Account
    <3>9. back = 0 => RL!Least(Burst, b.tokens + n) = earned'[c]
      BY <2>0, <2>1, <3>2, <3>5 DEF RL!Least, RL!Longest, RL!Refilled, Account
    <3>10. bucket'[c] # Nil
      BY <3>4
    <3>. QED  BY <2>0, <2>2, <3>4, <3>5, <3>6, <3>7, <3>8, <3>9, <3>10 DEF Account, BucketIsFair, RL!Longest
  <2>. QED  BY <2>3, <2>4
<1>. QED  BY <1>1, <1>2 DEF LimiterInv, RL!Tick

\* The clock is set back.
LEMMA SetBackKeepsFair == ASSUME LimiterInv, RL!SetBack PROVE LimiterInv'
<1>. USE LimiterConstants DEF RL!ConstantsFit
<1>1. RL!Known' = RL!Known
  <2>1. ASSUME NEW c \in Clients, bucket[c] # Nil PROVE bucket'[c] # Nil
    <3>1. PICK b \in [tokens : Int, idle : Int] : b = bucket[c]
      BY <2>1 DEF LimiterInv, Account, BucketIsFair
    <3>2. PICK n : n = RL!Least(RL!Longest, b.idle + (-1))
      OBVIOUS
    <3>3. bucket'[c] = [b EXCEPT !.idle = n]
      BY <2>1, <3>1, <3>2 DEF RL!SetBack, RL!Older
    <3>4. n \in Int
      BY <3>1, <3>2, LimiterConstants DEF RL!Least, RL!Longest
    <3>. QED  BY <3>1, <3>3, <3>4
  <2>. QED  BY <2>1 DEF RL!SetBack, RL!Older, RL!Known
<1>2. back' \in 0..MaxBack /\ back' = back + 1 /\ back \in 0..MaxBack /\ earned' = earned
  BY DEF LimiterInv, RL!SetBack
<1>3. ASSUME NEW c \in Clients PROVE Account(c)'
  <2>0. Account(c)
    BY DEF LimiterInv
  <2>1. CASE bucket[c] = Nil
    BY <1>2, <2>0, <2>1 DEF RL!SetBack, RL!Older, Account
  <2>2. CASE bucket[c] # Nil
    <3>1. PICK b \in [tokens : Int, idle : Int] : b = bucket[c]
      BY <2>0, <2>2 DEF Account, BucketIsFair
    <3>2. PICK n \in Int : n = RL!Least(RL!Longest, b.idle + (-1))
      BY <3>1 DEF RL!Least, RL!Longest
    <3>3. bucket'[c] = [b EXCEPT !.idle = n]
      BY <2>2, <3>1, <3>2 DEF RL!SetBack, RL!Older
    <3>4. bucket'[c] \in [tokens : Int, idle : Int] /\ bucket'[c].tokens = b.tokens /\ bucket'[c].idle = n
      BY <3>1, <3>2, <3>3
    <3>5. b.tokens \in -back..Burst /\ b.idle \in -back..RL!Longest /\ b.tokens + b.idle >= -back
          /\ RL!Refilled(b) <= earned[c]
      BY <2>0, <2>2, <3>1 DEF Account, BucketIsFair
    <3>6. n = b.idle - 1
      BY <3>1, <3>2, <3>5 DEF RL!Least, RL!Longest
    <3>7. RL!Refilled(bucket'[c]) <= earned'[c]
      BY <1>2, <2>0, <3>4, <3>5, <3>6 DEF RL!Refilled, RL!Least, Account
    <3>8. bucket'[c] # Nil
      BY <3>4
    <3>. QED  BY <1>2, <2>0, <3>4, <3>5, <3>6, <3>7, <3>8 DEF Account, BucketIsFair, RL!Longest
  <2>. QED  BY <2>1, <2>2
<1>. QED  BY <1>1, <1>2, <1>3 DEF LimiterInv, RL!SetBack

\* The invariant says all that is promised of the buckets, and their types.
LEMMA FairWhileInv == ASSUME LimiterInv PROVE BucketsAreFair /\ RL!TypeOK
<1>. USE LimiterConstants DEF RL!ConstantsFit
<1>1. \A c \in Clients : earned[c] \in 0..Burst /\ (bucket[c] # Nil => BucketIsFair(c))
  BY DEF LimiterInv, Account
<1>2. BucketsAreFair
  BY <1>1 DEF BucketsAreFair, RL!NeverMoreThanEarned, RL!RefusedOnlyWhenSpent, BucketIsFair
<1>3. RL!TypeOK
  BY <1>1, LimiterSets DEF RL!TypeOK, RL!Known, LimiterInv, BucketIsFair
<1>. QED  BY <1>2, <1>3

\* However calls of all clients, ticks and settings of the clock follow each
\* other, and whichever buckets are dropped: nobody is served more than a burst
\* and what time has brought since, nobody is refused what it has earned while
\* the clock was not set back, and there is never more than one bucket over the
\* bound (RateLimiter.tla).
THEOREM BucketsAreAlwaysFair == MCSpec => [](BucketsAreFair /\ RL!TypeOK)
<1>1. MCInit => LimiterInv
  BY LimiterStarts DEF MCInit
<1>2. LimiterInv /\ [MCNext]_<<part, vars, lvars, svars, rvars, cvars, tvars, qvars, wvars>> => LimiterInv'
  <2>1. ASSUME LimiterInv, UNCHANGED rvars PROVE LimiterInv'
    BY <2>1 DEF rvars, LimiterInv, Account, BucketIsFair, RL!Known
  <2>2. ASSUME LimiterInv, MCNext PROVE RL!Next \/ UNCHANGED rvars
    BY <2>2 DEF MCNext
  <2>. QED  BY <2>1, <2>2, CallKeepsFair, TickKeepsFair, SetBackKeepsFair DEF RL!Next
<1>. QED  BY <1>1, <1>2, FairWhileInv, PTL DEF MCSpec

-----------------------------------------------------------------------------
(* Places in an order *)

\* R orders the elements of S, one after the other.
Ordered(R, S) ==
    /\ \A a \in S : <<a, a>> \notin R
    /\ \A a, b \in S : a # b => <<a, b>> \in R \/ <<b, a>> \in R
    /\ \A a, b, c \in S : <<a, b>> \in R /\ <<b, c>> \in R => <<a, c>> \in R

Below(R, S, x) == {y \in S : <<y, x>> \in R}

Place(R, S, x) == Cardinality(Below(R, S, x))

\* Places grow along the order, and there is one of each number.
LEMMA PlacesGrow ==
    ASSUME NEW S, IsFiniteSet(S), NEW R, Ordered(R, S)
    PROVE  /\ Cardinality(S) \in Nat
           /\ \A x \in S : Place(R, S, x) \in 0..Cardinality(S) - 1
           /\ \A x, y \in S : <<x, y>> \in R => Place(R, S, x) < Place(R, S, y)
           /\ \A i \in 1..Cardinality(S) : \E x \in S : Place(R, S, x) = i - 1
<1>. DEFINE c == Cardinality(S)
<1>1. c \in Nat
  BY FS_CardinalityType
<1>2. \A x \in S : IsFiniteSet(Below(R, S, x)) /\ Place(R, S, x) \in Nat
  BY FS_Subset, FS_CardinalityType DEF Below, Place
<1>3. ASSUME NEW x \in S, NEW T \in SUBSET S, x \in T, Below(R, S, x) \subseteq T
      PROVE  Place(R, S, x) < Cardinality(T)
  <2>1. IsFiniteSet(T) /\ Cardinality(T) \in Nat
    BY FS_Subset, FS_CardinalityType
  <2>2. x \notin Below(R, S, x)
    BY DEF Ordered, Below
  <2>3. Cardinality(Below(R, S, x)) <= Cardinality(T) /\ (Cardinality(Below(R, S, x)) = Cardinality(T) => FALSE)
    BY <1>3, <2>1, <2>2, FS_Subset
  <2>. QED  BY <1>2, <2>1, <2>3 DEF Place
<1>4. ASSUME NEW x \in S PROVE Place(R, S, x) \in 0..c - 1
  <2>1. Place(R, S, x) < Cardinality(S)
    BY <1>3 DEF Below
  <2>. QED  BY <1>1, <1>2, <2>1
<1>5. ASSUME NEW x \in S, NEW y \in S, <<x, y>> \in R PROVE Place(R, S, x) < Place(R, S, y)
  <2>1. Below(R, S, x) \subseteq Below(R, S, y) /\ x \in Below(R, S, y) /\ Below(R, S, y) \in SUBSET S
    BY <1>5 DEF Ordered, Below
  <2>. QED  BY <1>3, <2>1 DEF Place
<1>. DEFINE f == [x \in S |-> Place(R, S, x)]
<1>6. \A x, y \in S : f[x] = f[y] => x = y
  <2>1. ASSUME NEW x \in S, NEW y \in S, x # y PROVE Place(R, S, x) # Place(R, S, y)
    <3>1. Place(R, S, x) < Place(R, S, y) \/ Place(R, S, y) < Place(R, S, x)
      BY <1>5, <2>1 DEF Ordered
    <3>. QED  BY <1>2, <3>1
  <2>. QED  BY <2>1
<1>7. f \in Injection(S, 0..c - 1)
  <2>1. f \in [S -> 0..c - 1]
    BY <1>4
  <2>. HIDE DEF f
  <2>. QED  BY <1>6, <2>1 DEF Injection, IsInjective
<1>8. IsFiniteSet(0..c - 1) /\ Cardinality(0..c - 1) = c
  BY <1>1, FS_Interval
<1>9. f \in Surjection(S, 0..c - 1)
  BY <1>7, <1>8, FS_Injection
<1>10. ASSUME NEW i \in 1..c PROVE \E x \in S : Place(R, S, x) = i - 1
  <2>1. i - 1 \in 0..c - 1
    BY <1>1
  <2>2. PICK x \in S : f[x] = i - 1
    BY <1>9, <2>1 DEF Surjection
  <2>. QED  BY <2>2
<1>. QED  BY <1>1, <1>4, <1>5, <1>10

-----------------------------------------------------------------------------
(* Pages *)

\* Positions of entries.
Positions == [stamp : Nat, key : ML!MemKeys]

\* An order tells positions of different keys apart, one way only.
LEMMA OrderIsTotal ==
    ASSUME NEW order \in ML!Orders
    PROVE  /\ \A a \in Positions : ~ML!Before(order, a, a)
           /\ \A a, b \in Positions : a.key # b.key => ML!Before(order, a, b) \/ ML!Before(order, b, a)
           /\ \A a, b, c \in Positions : ML!Before(order, a, b) /\ ML!Before(order, b, c) => ML!Before(order, a, c)
<1>1. \A a \in Positions : a.stamp \in Int /\ a.key \in Int
  BY DEF Positions, ML!MemKeys
<1>2. CASE order = "key"
  <2>1. \A a, b : ML!Before(order, a, b) <=> a.key < b.key
    BY <1>2 DEF ML!Before
  <2>. QED  BY <1>1, <2>1
<1>3. CASE order = "newest"
  <2>1. \A a, b : ML!Before(order, a, b) <=> a.stamp > b.stamp \/ (a.stamp = b.stamp /\ a.key < b.key)
    BY <1>3 DEF ML!Before
  <2>. QED  BY <1>1, <2>1
<1>4. CASE order = "oldest"
  <2>1. \A a, b : ML!Before(order, a, b) <=> a.stamp < b.stamp \/ (a.stamp = b.stamp /\ a.key < b.key)
    BY <1>4 DEF ML!Before
  <2>. QED  BY <1>1, <2>1
<1>. QED  BY <1>2, <1>3, <1>4 DEF ML!Orders

\* A page of entries that are left, in their order and none of them skipped;
\* unless there are more, it has them all.
IsPage(order, left, entries, more) ==
    /\ entries \in Seq(left)
    /\ \A i, j \in 1..Len(entries) : i < j => ML!Before(order, entries[i], entries[j])
    /\ \A a \in left : \/ \E i \in 1..Len(entries) : entries[i] = a
                       \/ more /\ \A i \in 1..Len(entries) : ML!Before(order, entries[i], a)

Found(filter) ==
    {ML!At(k, memory[k]) : k \in {k \in ML!MemKeys : memory[k] # Nil /\ memory[k].source \in filter}}

Left(order, filter, cursor) == {a \in Found(filter) : cursor # Nil => ML!After(order, cursor, a)}

\* Cardinality is the same operator in an instance.
LEMMA ListingSets == ASSUME NEW S PROVE ML!Cardinality(S) = Cardinality(S)
BY DEF ML!Cardinality, Cardinality

\* What is found are positions, one for each key, and finitely many.
LEMMA FoundFits ==
    ASSUME time \in Nat, memory \in [ML!MemKeys -> [stamp : 1..time, source : Sources] \cup {Nil}], NEW filter
    PROVE  /\ Found(filter) \subseteq Positions /\ IsFiniteSet(Found(filter))
           /\ \A a \in Found(filter) : memory[a.key] # Nil /\ memory[a.key].source \in filter /\ a = ML!At(a.key, memory[a.key])
           /\ \A k \in ML!MemKeys : memory[k] # Nil /\ memory[k].source \in filter => ML!At(k, memory[k]) \in Found(filter)
<1>1. \A k \in ML!MemKeys : memory[k] # Nil => memory[k].stamp \in Nat
  OBVIOUS
<1>2. \A k : ML!At(k, memory[k]) = [stamp |-> memory[k].stamp, key |-> k]
  BY DEF ML!At
<1>3. \A a \in Found(filter) : a.key \in ML!MemKeys /\ memory[a.key] # Nil /\ memory[a.key].source \in filter
                               /\ a = ML!At(a.key, memory[a.key])
  <2>1. SUFFICES ASSUME NEW a \in Found(filter)
                 PROVE  /\ a.key \in ML!MemKeys /\ memory[a.key] # Nil /\ memory[a.key].source \in filter
                        /\ a = ML!At(a.key, memory[a.key])
    OBVIOUS
  <2>2. PICK k \in ML!MemKeys : memory[k] # Nil /\ memory[k].source \in filter /\ a = ML!At(k, memory[k])
    BY DEF Found
  <2>3. a.key = k
    BY <2>2 DEF ML!At
  <2>. QED  BY <2>2, <2>3
<1>4. Found(filter) \subseteq Positions
  <2>1. \A k \in ML!MemKeys : memory[k] # Nil => ML!At(k, memory[k]) \in Positions
    BY <1>1 DEF Positions, ML!At
  <2>. QED  BY <1>3, <2>1
<1>5. IsFiniteSet(ML!MemKeys) /\ LastKey \in Nat
  BY ListingConstants, FS_Interval DEF ML!ConstantsFit, ML!MemKeys
<1>6. IsFiniteSet(Found(filter))
  <2>. DEFINE f == [a \in Found(filter) |-> a.key]
  <2>1. f \in [Found(filter) -> ML!MemKeys]
    BY <1>3
  <2>2. \A a, b \in Found(filter) : f[a] = f[b] => a = b
    BY <1>3
  <2>. HIDE DEF f
  <2>3. f \in Injection(Found(filter), ML!MemKeys)
    BY <2>1, <2>2 DEF Injection, IsInjective
  <2>. QED  BY <1>5, <2>3, FS_Injection
<1>7. \A k \in ML!MemKeys : memory[k] # Nil /\ memory[k].source \in filter => ML!At(k, memory[k]) \in Found(filter)
  BY DEF Found
<1>. QED  BY <1>3, <1>4, <1>6, <1>7

\* What list_page returns.
LEMMA PagesAre ==
    ASSUME time \in Nat, memory \in [ML!MemKeys -> [stamp : 1..time, source : Sources] \cup {Nil}],
           NEW filter, NEW cursor, NEW order \in ML!Orders, NEW n \in Nat,
           NEW page, page = ML!ListPage(order, filter, cursor, n)
    PROVE  /\ IsPage(order, Left(order, filter, cursor), page, Len(page) = n)
           /\ Len(page) <= n
<1>. DEFINE S == Left(order, filter, cursor)
            R == {e \in S \X S : ML!Before(order, e[1], e[2])}
            m == IF n < Cardinality(S) THEN n ELSE Cardinality(S)
<1>1. S \subseteq Found(filter) /\ S \subseteq Positions /\ IsFiniteSet(S)
  BY FoundFits, FS_Subset DEF Left
<1>2. \A a, b \in S : a # b => a.key # b.key
  BY <1>1, FoundFits
<1>3. \A a, b \in S : <<a, b>> \in R <=> ML!Before(order, a, b)
  OBVIOUS
<1>4. S = {a \in Found(filter) : cursor # Nil => ML!After(order, cursor, a)}
  BY DEF Left
<1>. HIDE DEF S, R
<1>5. Ordered(R, S)
  BY <1>1, <1>2, <1>3, OrderIsTotal DEF Ordered
<1>6. \A a \in S : {b \in S : ML!Before(order, b, a)} = Below(R, S, a)
  BY <1>3 DEF Below
<1>7. \A a \in S : ML!Cardinality({b \in S : ML!Before(order, b, a)}) = Place(R, S, a)
  BY <1>6, ListingSets DEF Place
<1>8. /\ Cardinality(S) \in Nat
      /\ \A x \in S : Place(R, S, x) \in 0..Cardinality(S) - 1
      /\ \A x, y \in S : <<x, y>> \in R => Place(R, S, x) < Place(R, S, y)
      /\ \A i \in 1..Cardinality(S) : \E x \in S : Place(R, S, x) = i - 1
  BY <1>1, <1>5, PlacesGrow
<1>9. m \in Nat /\ m <= n /\ m <= Cardinality(S)
  BY <1>8
<1>10. page = [i \in 1..m |-> CHOOSE a \in S : ML!Cardinality({b \in S : ML!Before(order, b, a)}) = i - 1]
  <2>1. ML!Cardinality(S) = Cardinality(S)
    BY ListingSets
  <2>. QED  BY <1>4, <2>1 DEF ML!ListPage, Found
<1>. HIDE DEF m
<1>11. ASSUME NEW i \in 1..m PROVE page[i] \in S /\ Place(R, S, page[i]) = i - 1
  <2>1. i \in 1..Cardinality(S)
    BY <1>8, <1>9
  <2>2. \E a \in S : ML!Cardinality({b \in S : ML!Before(order, b, a)}) = i - 1
    BY <1>7, <1>8, <2>1
  <2>3. page[i] = CHOOSE a \in S : ML!Cardinality({b \in S : ML!Before(order, b, a)}) = i - 1
    BY <1>10
  <2>. QED  BY <1>7, <2>2, <2>3
<1>12. page \in Seq(S) /\ Len(page) = m
  <2>1. page \in [1..m -> S]
    BY <1>10, <1>11
  <2>. QED  BY <1>9, <2>1
<1>13. ASSUME NEW a \in S, NEW b \in S, Place(R, S, a) < Place(R, S, b)  PROVE ML!Before(order, a, b)
  <2>1. Place(R, S, a) \in Nat /\ Place(R, S, b) \in Nat
    BY <1>8
  <2>2. a # b /\ <<b, a>> \notin R
    BY <1>8, <1>13, <2>1
  <2>. QED  BY <1>3, <1>5, <2>2 DEF Ordered
<1>14. ASSUME NEW i \in 1..m, NEW j \in 1..m, i < j  PROVE ML!Before(order, page[i], page[j])
  BY <1>11, <1>13, <1>14
<1>15. ASSUME NEW a \in S, Place(R, S, a) < m  PROVE \E i \in 1..m : page[i] = a
  <2>1. PICK i \in 1..m : i - 1 = Place(R, S, a)
    BY <1>8, <1>9, <1>15
  <2>2. page[i] \in S /\ Place(R, S, page[i]) = Place(R, S, a)
    BY <1>11, <2>1
  <2>3. ASSUME page[i] # a PROVE FALSE
    <3>1. <<page[i], a>> \in R \/ <<a, page[i]>> \in R
      BY <1>5, <2>2, <2>3 DEF Ordered
    <3>2. Place(R, S, page[i]) < Place(R, S, a) \/ Place(R, S, a) < Place(R, S, page[i])
      BY <1>8, <2>2, <3>1
    <3>3. Place(R, S, a) \in Nat
      BY <1>8
    <3>. QED  BY <2>2, <3>2, <3>3
  <2>. QED  BY <2>3
<1>16. ASSUME NEW a \in S, ~(Place(R, S, a) < m)  PROVE m = n /\ \A i \in 1..m : ML!Before(order, page[i], a)
  <2>1. Place(R, S, a) \in 0..Cardinality(S) - 1
    BY <1>8
  <2>2. m # Cardinality(S)
    BY <1>8, <1>16, <2>1
  <2>3. m = n
    BY <2>2 DEF m
  <2>4. \A i \in 1..m : page[i] \in S /\ Place(R, S, page[i]) < Place(R, S, a)
    BY <1>9, <1>11, <1>16, <2>1
  <2>. QED  BY <1>13, <2>3, <2>4
<1>17. IsPage(order, S, page, Len(page) = n)
  BY <1>12, <1>14, <1>15, <1>16 DEF IsPage
<1>. QED  BY <1>9, <1>12, <1>17 DEF S

\* The entries of a page, one less than were fetched.
LEMMA EntriesAre ==
    ASSUME NEW order, NEW left, NEW bound \in Nat \ {0}, NEW page, IsPage(order, left, page, Len(page) = bound + 1),
           Len(page) <= bound + 1,
           NEW entries, entries = SubSeq(page, 1, IF bound < Len(page) THEN bound ELSE Len(page))
    PROVE  /\ IsPage(order, left, entries, ML!HasMore(page, bound))
           /\ Len(entries) <= bound /\ (ML!HasMore(page, bound) => Len(entries) > 0)
<1>. DEFINE m == IF bound < Len(page) THEN bound ELSE Len(page)
<1>1. page \in Seq(left) /\ Len(page) \in Nat
  BY DEF IsPage
<1>2. m \in Nat /\ m <= Len(page) /\ m <= bound
  BY <1>1
<1>3. /\ entries \in Seq(left) /\ Len(entries) = m
      /\ \A i \in 1..m : entries[i] = page[i]
  <2>. HIDE DEF m
  <2>1. entries = SubSeq(page, 1, m)
    BY DEF m
  <2>. QED  BY <1>1, <1>2, <2>1
<1>4. ML!HasMore(page, bound) <=> Len(page) = bound + 1
  BY <1>1 DEF ML!HasMore
<1>5. ML!HasMore(page, bound) => m = bound
  BY <1>1, <1>4
<1>6. ~ML!HasMore(page, bound) => m = Len(page)
  BY <1>1 DEF ML!HasMore
<1>. HIDE DEF m
<1>7. \A i, j \in 1..m : i < j => ML!Before(order, entries[i], entries[j])
  <2>1. \A i \in 1..m : i \in 1..Len(page)
    BY <1>1, <1>2
  <2>2. \A i, j \in 1..Len(page) : i < j => ML!Before(order, page[i], page[j])
    BY DEF IsPage
  <2>. QED  BY <1>3, <2>1, <2>2
<1>8. ASSUME NEW a \in left
      PROVE  \/ \E i \in 1..m : entries[i] = a
             \/ ML!HasMore(page, bound) /\ \A i \in 1..m : ML!Before(order, entries[i], a)
  <2>1. CASE \E i \in 1..m : page[i] = a
    BY <1>3, <2>1
  <2>2. ASSUME NEW i \in 1..Len(page), page[i] = a, i \notin 1..m
        PROVE  ML!HasMore(page, bound) /\ \A j \in 1..m : ML!Before(order, entries[j], a)
    <3>1. ML!HasMore(page, bound)
      BY <1>1, <1>2, <1>6, <2>2
    <3>2. \A j \in 1..m : j < i /\ j \in 1..Len(page)
      BY <1>1, <1>2, <2>2
    <3>. QED  BY <1>3, <2>2, <3>1, <3>2 DEF IsPage
  <2>3. CASE Len(page) = bound + 1 /\ \A i \in 1..Len(page) : ML!Before(order, page[i], a)
    <3>1. \A i \in 1..m : i \in 1..Len(page)
      BY <1>1, <1>2
    <3>. QED  BY <1>3, <1>4, <2>3, <3>1
  <2>. QED  BY <2>1, <2>2, <2>3 DEF IsPage
<1>9. Len(entries) = m /\ m <= bound /\ (ML!HasMore(page, bound) => m > 0)
  BY <1>2, <1>3, <1>5
<1>10. IsPage(order, left, entries, ML!HasMore(page, bound))
  BY <1>3, <1>7, <1>8 DEF IsPage
<1>. QED  BY <1>9, <1>10

-----------------------------------------------------------------------------
(* A walk *)

\* How often a sequence has an entry of a key.
NeverIn(s, k) == \A i \in 1..Len(s) : s[i].key # k

OnceIn(s, k) == \E i \in 1..Len(s) : s[i].key = k /\ \A j \in 1..Len(s) : s[j].key = k => j = i

\* What a memory was when the walk began.
Steadily == [stamp : Nat, source : Sources]

WalkTypes ==
    /\ time \in Nat /\ changes \in 0..MaxChanges
    /\ memory \in [ML!MemKeys -> [stamp : 1..time, source : Sources] \cup {Nil}]
    /\ steady \in [ML!MemKeys -> Steadily \cup {Nil}]
    /\ \A k \in ML!MemKeys : steady[k] # Nil => steady[k] = memory[k]
    /\ got \in Seq(Positions)
    /\ walk = [at |-> walk.at, order |-> walk.order, filter |-> walk.filter, wanted |-> walk.wanted,
               cursor |-> walk.cursor, seen |-> walk.seen, size |-> walk.size, attempt |-> walk.attempt]
    /\ walk.at \in {"none", "walking", "done", "unavailable", "gave up"}
    /\ walk.order \in ML!Orders /\ walk.wanted \in ML!MemKeys \cup {Nil}
    /\ walk.cursor \in Positions \cup {Nil} /\ walk.seen \subseteq Positions
    /\ walk.size \in 1..Len(Sizes) /\ walk.attempt \in 1..Attempts

\* The cursor is the last that was seen.
CursorIsLast ==
    /\ walk.cursor # Nil => walk.cursor \in walk.seen
    /\ \A c \in walk.seen : walk.cursor # Nil /\ (c = walk.cursor \/ ML!Before(walk.order, c, walk.cursor))

Passed(a) == walk.cursor # Nil /\ ~ML!After(walk.order, walk.cursor, a)

\* What did not change was told once if the walk is past it, and not yet otherwise.
ToldSoFar ==
    walk.at = "walking" /\ walk.wanted = Nil =>
        \A k \in ML!MemKeys : steady[k] # Nil =>
            IF steady[k].source \in walk.filter /\ Passed(ML!At(k, steady[k])) THEN OnceIn(got, k) ELSE NeverIn(got, k)

ToldInTheEnd ==
    walk.at = "done" =>
        \A k \in ML!MemKeys : steady[k] # Nil /\ (walk.wanted = Nil \/ walk.wanted = k) =>
            IF steady[k].source \in walk.filter THEN OnceIn(got, k) ELSE NeverIn(got, k)

\* Who looks for one key is not past it, and takes nothing else.
LooksForOne ==
    walk.wanted # Nil =>
        /\ walk.order = "key" /\ walk.filter = Sources
        /\ Len(got) <= 1 /\ \A i \in 1..Len(got) : got[i].key = walk.wanted
        /\ walk.at = "walking" => /\ got = << >>
                                  /\ steady[walk.wanted] # Nil => ~Passed(ML!At(walk.wanted, steady[walk.wanted]))

\* In key order, keys grow.
KeysGrow ==
    walk.order = "key" =>
        /\ \A i, j \in 1..Len(got) : i < j => got[i].key < got[j].key
        /\ walk.at = "walking" => \A i \in 1..Len(got) : walk.cursor # Nil /\ got[i].key <= walk.cursor.key

WalkInv ==
    /\ WalkTypes /\ CursorIsLast /\ ToldSoFar /\ ToldInTheEnd /\ LooksForOne /\ KeysGrow
    /\ walk.at = "none" => got = << >>

\* Before a walk nothing was told.
LEMMA WalkStarts == ASSUME ML!Init PROVE WalkInv
<1>. USE ListingConstants DEF ML!ConstantsFit
<1>1. /\ walk = [at |-> "none", order |-> "key", filter |-> {}, wanted |-> Nil,
                 cursor |-> Nil, seen |-> {}, size |-> 1, attempt |-> 1]
      /\ got = << >> /\ time = 0 /\ changes = 0
      /\ memory = [k \in ML!MemKeys |-> Nil] /\ steady = [k \in ML!MemKeys |-> Nil]
  BY DEF ML!Init, ML!Fresh
<1>2. 1 \in 1..Len(Sizes) /\ 1 \in 1..Attempts
  BY DEF ML!ConstantsFit
<1>3. WalkTypes
  BY <1>1, <1>2 DEF WalkTypes, ML!Orders
<1>. QED  BY <1>1, <1>3 DEF WalkInv, CursorIsLast, ToldSoFar, ToldInTheEnd, LooksForOne, KeysGrow

\* The other parts leave the walk alone.
LEMMA WalkStands == ASSUME WalkInv, UNCHANGED lvars PROVE WalkInv'
BY DEF lvars, WalkInv, WalkTypes, CursorIsLast, ToldSoFar, ToldInTheEnd, LooksForOne, KeysGrow, Passed

\* What others do only takes memories out of what did not change.
LEMMA ChangeKeeps ==
    ASSUME WalkInv, NEW k \in ML!MemKeys, NEW m \in [stamp : 1..time', source : Sources] \cup {Nil},
           time' \in Nat, time <= time', changes < MaxChanges, ML!Change(k, m)
    PROVE  WalkInv'
<1>. USE ListingConstants DEF ML!ConstantsFit
<1>1. /\ memory' = [memory EXCEPT ![k] = m] /\ steady' = [steady EXCEPT ![k] = Nil]
      /\ changes' \in {changes, changes + 1} /\ walk' = walk /\ got' = got
  BY DEF ML!Change
<1>0. /\ time \in Nat /\ changes \in 0..MaxChanges /\ MaxChanges \in Nat
      /\ memory \in [ML!MemKeys -> [stamp : 1..time, source : Sources] \cup {Nil}]
  BY DEF WalkInv, WalkTypes
<1>2. [stamp : 1..time, source : Sources] \subseteq [stamp : 1..time', source : Sources]
  <2>1. 1..time \subseteq 1..time'
    BY <1>0
  <2>. QED  BY <2>1
<1>3. \A n \in ML!MemKeys : steady'[n] # Nil => steady'[n] = steady[n] /\ n # k
  BY <1>1 DEF WalkInv, WalkTypes
<1>4. WalkTypes'
  <2>1. memory' \in [ML!MemKeys -> [stamp : 1..time', source : Sources] \cup {Nil}]
    BY <1>0, <1>1, <1>2
  <2>2. steady' \in [ML!MemKeys -> Steadily \cup {Nil}]
    BY <1>1 DEF WalkInv, WalkTypes
  <2>3. \A n \in ML!MemKeys : steady'[n] # Nil => steady'[n] = memory'[n]
    BY <1>1, <1>3 DEF WalkInv, WalkTypes
  <2>4. changes' \in 0..MaxChanges
    BY <1>0, <1>1
  <2>. QED  BY <1>1, <2>1, <2>2, <2>3, <2>4 DEF WalkInv, WalkTypes
<1>5. \A a : Passed(a)' <=> Passed(a)
  BY <1>1 DEF Passed
<1>6. ToldSoFar' /\ ToldInTheEnd'
  BY <1>1, <1>3 DEF WalkInv, ToldSoFar, ToldInTheEnd, Passed
<1>7. LooksForOne'
  BY <1>1, <1>3 DEF WalkInv, WalkTypes, LooksForOne, Passed
<1>. QED  BY <1>1, <1>4, <1>6, <1>7 DEF WalkInv, CursorIsLast, KeysGrow

\* What a longer sequence has of a key.
LEMMA JoinedTells ==
    ASSUME NEW s \in Seq(Positions), NEW t \in Seq(Positions), NEW k
    PROVE  /\ NeverIn(s, k) /\ NeverIn(t, k) => NeverIn(s \o t, k)
           /\ OnceIn(s, k) /\ NeverIn(t, k) => OnceIn(s \o t, k)
           /\ NeverIn(s, k) /\ OnceIn(t, k) => OnceIn(s \o t, k)
<1>. DEFINE l == Len(s)
            u == s \o t
<1>1. /\ l \in Nat /\ Len(t) \in Nat /\ Len(u) = l + Len(t)
      /\ \A i \in 1..l : u[i] = s[i]
      /\ \A i \in 1..Len(t) : u[l + i] = t[i]
  OBVIOUS
<1>2. \A j \in 1..Len(u) : j \in 1..l \/ \E i \in 1..Len(t) : j = l + i
  <2>1. SUFFICES ASSUME NEW j \in 1..Len(u), j \notin 1..l  PROVE \E i \in 1..Len(t) : j = l + i
    OBVIOUS
  <2>2. j - l \in 1..Len(t) /\ j = l + (j - l)
    BY <1>1, <2>1
  <2>. QED  BY <2>2
<1>3. \A i \in 1..l : i \in 1..Len(u)
  BY <1>1
<1>4. \A i \in 1..Len(t) : l + i \in 1..Len(u) /\ l + i \notin 1..l
  BY <1>1
<1>. HIDE DEF l, u
<1>5. ASSUME NeverIn(s, k), NeverIn(t, k)  PROVE NeverIn(u, k)
  BY <1>1, <1>2, <1>5 DEF NeverIn, l
<1>6. ASSUME OnceIn(s, k), NeverIn(t, k)  PROVE OnceIn(u, k)
  <2>1. PICK i \in 1..l : s[i].key = k /\ \A j \in 1..l : s[j].key = k => j = i
    BY <1>6 DEF OnceIn, l
  <2>2. \A j \in 1..Len(u) : u[j].key = k => j = i
    BY <1>1, <1>2, <1>6, <2>1 DEF NeverIn
  <2>. QED  BY <1>1, <1>3, <2>1, <2>2 DEF OnceIn
<1>7. ASSUME NeverIn(s, k), OnceIn(t, k)  PROVE OnceIn(u, k)
  <2>1. PICK i \in 1..Len(t) : t[i].key = k /\ \A j \in 1..Len(t) : t[j].key = k => j = i
    BY <1>7 DEF OnceIn
  <2>2. \A j \in 1..l : s[j].key # k
    BY <1>7 DEF NeverIn, l
  <2>3. \A j \in 1..Len(u) : u[j].key = k => j = l + i
    <3>1. ASSUME NEW j \in 1..l, u[j].key = k  PROVE FALSE
      BY <1>1, <2>2, <3>1
    <3>2. ASSUME NEW n \in 1..Len(t), u[l + n].key = k  PROVE n = i
      <4>1. u[l + n] = t[n]
        BY <1>1
      <4>. QED  BY <2>1, <3>2, <4>1
    <3>. QED  BY <1>2, <3>1, <3>2
  <2>4. u[l + i].key = k /\ l + i \in 1..Len(u)
    BY <1>1, <1>4, <2>1
  <2>. QED  BY <2>3, <2>4 DEF OnceIn
<1>. QED  BY <1>5, <1>6, <1>7 DEF u

\* What the entries of a page tell of a key.
LEMMA PageTells ==
    ASSUME WalkTypes, NEW filter, NEW cursor, NEW order \in ML!Orders, NEW entries, NEW more,
           IsPage(order, Left(order, filter, cursor), entries, more)
    PROVE  /\ entries \in Seq(Positions)
           /\ \A i \in 1..Len(entries) : entries[i] \in Left(order, filter, cursor) /\ entries[i] \in Found(filter)
           /\ \A k \in ML!MemKeys : (\E i \in 1..Len(entries) : entries[i].key = k) => OnceIn(entries, k)
           /\ \A i, j \in 1..Len(entries) : i # j => entries[i] # entries[j]
<1>1. /\ Found(filter) \subseteq Positions
      /\ \A a \in Found(filter) : a = ML!At(a.key, memory[a.key])
  BY FoundFits DEF WalkTypes
<1>2. Left(order, filter, cursor) \subseteq Found(filter)
  BY DEF Left
<1>3. entries \in Seq(Left(order, filter, cursor))
  BY DEF IsPage
<1>4. \A i \in 1..Len(entries) : entries[i] \in Left(order, filter, cursor) /\ entries[i] \in Found(filter) /\ entries[i] \in Positions
  BY <1>1, <1>2, <1>3
<1>5. entries \in Seq(Positions)
  <2>1. Left(order, filter, cursor) \subseteq Positions
    BY <1>1, <1>2
  <2>. QED  BY <1>3, <2>1
<1>6. ASSUME NEW i \in 1..Len(entries), NEW j \in 1..Len(entries), i # j  PROVE entries[i] # entries[j]
  <2>1. i < j \/ j < i
    BY <1>6
  <2>2. ML!Before(order, entries[i], entries[j]) \/ ML!Before(order, entries[j], entries[i])
    BY <2>1 DEF IsPage
  <2>. QED  BY <1>4, <2>2, OrderIsTotal
<1>7. ASSUME NEW k \in ML!MemKeys, NEW i \in 1..Len(entries), entries[i].key = k  PROVE OnceIn(entries, k)
  <2>1. \A j \in 1..Len(entries) : entries[j].key = k => entries[j] = entries[i]
    BY <1>1, <1>4, <1>7
  <2>. QED  BY <1>6, <1>7, <2>1 DEF OnceIn
<1>. QED  BY <1>4, <1>5, <1>6, <1>7

\* What of a memory that did not change is left, and told.
LEMMA SteadyIsLeft ==
    ASSUME WalkInv, NEW entries, NEW more,
           IsPage(walk.order, Left(walk.order, walk.filter, walk.cursor), entries, more),
           NEW k \in ML!MemKeys, steady[k] # Nil, NEW a, a = ML!At(k, steady[k])
    PROVE  /\ a \in Positions /\ a.key = k
           /\ NeverIn(entries, k) \/ OnceIn(entries, k)
           /\ steady[k].source \notin walk.filter => NeverIn(entries, k)
           /\ Passed(a) => NeverIn(entries, k)
           /\ steady[k].source \in walk.filter /\ ~Passed(a) =>
                 \/ \E i \in 1..Len(entries) : entries[i] = a
                 \/ NeverIn(entries, k) /\ more /\ \A i \in 1..Len(entries) : ML!Before(walk.order, entries[i], a)
<1>1. WalkTypes /\ walk.order \in ML!Orders /\ steady[k] = memory[k] /\ a = ML!At(k, memory[k])
  BY DEF WalkInv, WalkTypes
<1>2. a = [stamp |-> memory[k].stamp, key |-> k] /\ memory[k] \in [stamp : 1..time, source : Sources] /\ time \in Nat
  BY <1>1 DEF ML!At, WalkTypes
<1>3. a \in Positions /\ a.key = k
  BY <1>2 DEF Positions
<1>. DEFINE left == Left(walk.order, walk.filter, walk.cursor)
<1>4. /\ \A i \in 1..Len(entries) : entries[i] \in left /\ entries[i] \in Found(walk.filter)
      /\ (\E i \in 1..Len(entries) : entries[i].key = k) => OnceIn(entries, k)
  BY <1>1, PageTells
<1>5. \A b \in Found(walk.filter) : memory[b.key].source \in walk.filter /\ b = ML!At(b.key, memory[b.key])
  BY FoundFits DEF WalkInv, WalkTypes
<1>6. \A i \in 1..Len(entries) : entries[i].key = k => entries[i] = a /\ a \in left /\ memory[k].source \in walk.filter
  BY <1>1, <1>4, <1>5
<1>7. memory[k].source \in walk.filter => a \in Found(walk.filter)
  BY <1>1, FoundFits DEF WalkTypes
<1>8. \A b \in left : walk.cursor # Nil => ML!After(walk.order, walk.cursor, b)
  BY DEF Left
<1>9. Passed(a) => a \notin left
  BY <1>8 DEF Passed
<1>10. memory[k].source \in walk.filter /\ ~Passed(a) => a \in left
  BY <1>7 DEF Passed, Left
<1>11. a \in left => \/ \E i \in 1..Len(entries) : entries[i] = a
                     \/ more /\ \A i \in 1..Len(entries) : ML!Before(walk.order, entries[i], a)
  BY DEF IsPage
<1>12. (\A i \in 1..Len(entries) : entries[i].key # k) => NeverIn(entries, k)
  BY DEF NeverIn
<1>. HIDE DEF left
<1>13. (\A i \in 1..Len(entries) : entries[i] # a) => NeverIn(entries, k)
  BY <1>6, <1>12
<1>. QED  BY <1>1, <1>3, <1>4, <1>6, <1>9, <1>10, <1>11, <1>12, <1>13

\* The cursor's comparison is the order's, written the other way round.
LEMMA AfterIsBefore ==
    ASSUME NEW order \in ML!Orders, NEW c \in Positions, NEW a \in Positions
    PROVE  ML!After(order, c, a) <=> ML!Before(order, c, a)
<1>1. a.stamp \in Int /\ a.key \in Int /\ c.stamp \in Int /\ c.key \in Int
  BY DEF Positions, ML!MemKeys
<1>. QED  BY <1>1 DEF ML!Orders, ML!After, ML!Before

Grows(s) == \A i, j \in 1..Len(s) : i < j => s[i].key < s[j].key

\* Sequences that grow, one above the other, grow together.
LEMMA JoinedGrows ==
    ASSUME NEW s \in Seq(Positions), NEW t \in Seq(Positions), Grows(s), Grows(t),
           \A i \in 1..Len(s) : \A j \in 1..Len(t) : s[i].key < t[j].key
    PROVE  /\ Grows(s \o t)
           /\ \A i \in 1..Len(s \o t) : \/ \E j \in 1..Len(s) : (s \o t)[i] = s[j]
                                        \/ \E j \in 1..Len(t) : (s \o t)[i] = t[j]
<1>. DEFINE l == Len(s)
            u == s \o t
<1>1. /\ l \in Nat /\ Len(t) \in Nat /\ Len(u) = l + Len(t)
      /\ \A i \in 1..l : u[i] = s[i]
      /\ \A i \in 1..Len(t) : u[l + i] = t[i]
  OBVIOUS
<1>2. \A j \in 1..Len(u) : j \in 1..l \/ \E i \in 1..Len(t) : j = l + i
  <2>1. SUFFICES ASSUME NEW j \in 1..Len(u), j \notin 1..l  PROVE \E i \in 1..Len(t) : j = l + i
    OBVIOUS
  <2>2. j - l \in 1..Len(t) /\ j = l + (j - l)
    BY <1>1, <2>1
  <2>. QED  BY <2>2
<1>. HIDE DEF u, l
<1>3. ASSUME NEW i \in 1..Len(u), NEW j \in 1..Len(u), i < j  PROVE u[i].key < u[j].key
  <2>1. CASE i \in 1..l /\ j \in 1..l
    BY <1>1, <1>3, <2>1 DEF Grows, l
  <2>2. ASSUME i \in 1..l, NEW n \in 1..Len(t), j = l + n PROVE u[i].key < u[j].key
    BY <1>1, <2>2 DEF l
  <2>3. ASSUME NEW n \in 1..Len(t), i = l + n, NEW m \in 1..Len(t), j = l + m  PROVE u[i].key < u[j].key
    <3>1. n < m
      BY <1>1, <1>3, <2>3
    <3>2. u[i] = t[n] /\ u[j] = t[m]
      BY <1>1, <2>3
    <3>. QED  BY <3>1, <3>2 DEF Grows
  <2>4. ASSUME NEW n \in 1..Len(t), i = l + n, j \in 1..l  PROVE FALSE
    BY <1>1, <1>3, <2>4
  <2>. QED  BY <1>2, <2>1, <2>2, <2>3, <2>4
<1>4. ASSUME NEW i \in 1..Len(u)
      PROVE (\E j \in 1..l : u[i] = s[j]) \/ (\E j \in 1..Len(t) : u[i] = t[j])
  BY <1>1, <1>2
<1>. QED  BY <1>3, <1>4 DEF Grows, u, l

\* What a page adds to what the caller got.
LEMMA YieldedIs ==
    ASSUME NEW entries \in Seq(Positions)
    PROVE  /\ walk.wanted = Nil => ML!Yielded(entries) = entries
           /\ walk.wanted # Nil =>
                 \/ ML!Yielded(entries) = << >> /\ \A i \in 1..Len(entries) : entries[i].key # walk.wanted
                 \/ \E i \in 1..Len(entries) : entries[i].key = walk.wanted /\ ML!Yielded(entries) = <<entries[i]>>
<1>1. DOMAIN entries = 1..Len(entries)
  OBVIOUS
<1>. DEFINE with == {i \in DOMAIN entries : entries[i].key = walk.wanted}
<1>2. ML!Yielded(entries) = IF walk.wanted = Nil THEN entries
        ELSE IF with = {} THEN << >> ELSE <<entries[CHOOSE i \in with : TRUE]>>
  BY DEF ML!Yielded
<1>3. with # {} => (CHOOSE i \in with : TRUE) \in with
  OBVIOUS
<1>4. \A i : i \in with <=> i \in 1..Len(entries) /\ entries[i].key = walk.wanted
  BY <1>1
<1>. HIDE DEF with
<1>. QED  BY <1>2, <1>3, <1>4

\* The last of a page that is not the last page is a new cursor.
LEMMA CursorIsNew ==
    ASSUME WalkInv, NEW entries, NEW more, more \in BOOLEAN,
           IsPage(walk.order, Left(walk.order, walk.filter, walk.cursor), entries, more),
           Len(entries) > 0, NEW last, last = entries[Len(entries)]
    PROVE  /\ Len(entries) \in 1..Len(entries) /\ last \in Positions /\ last # Nil /\ last \notin walk.seen
           /\ walk.cursor # Nil => ML!Before(walk.order, walk.cursor, last)
<1>1. /\ walk.order \in ML!Orders /\ walk.cursor \in Positions \cup {Nil} /\ walk.seen \subseteq Positions /\ WalkTypes
  BY DEF WalkInv, WalkTypes
<1>2. /\ entries \in Seq(Positions)
      /\ \A i \in 1..Len(entries) : entries[i] \in Left(walk.order, walk.filter, walk.cursor)
  BY <1>1, PageTells
<1>3. Len(entries) \in 1..Len(entries)
  BY <1>2
<1>4. last \in Positions /\ last \in Left(walk.order, walk.filter, walk.cursor)
  BY <1>2, <1>3
<1>5. last # Nil
  BY <1>4, ListingConstants DEF Positions, ML!ConstantsFit
<1>6. walk.cursor # Nil => ML!Before(walk.order, walk.cursor, last)
  BY <1>1, <1>4, AfterIsBefore DEF Left
<1>7. ASSUME last \in walk.seen PROVE FALSE
  <2>1. walk.cursor # Nil /\ (last = walk.cursor \/ ML!Before(walk.order, last, walk.cursor))
    BY <1>7 DEF WalkInv, CursorIsLast
  <2>. QED  BY <1>1, <1>4, <1>6, <2>1, OrderIsTotal
<1>. QED  BY <1>3, <1>4, <1>5, <1>6, <1>7

\* In key order, what a walk has got and what a page adds grow together.
LEMMA KeysGrowOn ==
    ASSUME WalkInv, walk.at = "walking", walk.order = "key", walk.wanted = Nil, NEW entries, NEW more,
           IsPage(walk.order, Left(walk.order, walk.filter, walk.cursor), entries, more)
    PROVE  /\ Grows(got \o entries)
           /\ Len(entries) > 0 => \A i \in 1..Len(got \o entries) : (got \o entries)[i].key <= entries[Len(entries)].key
<1>1. /\ WalkTypes /\ got \in Seq(Positions) /\ walk.order \in ML!Orders /\ walk.cursor \in Positions \cup {Nil}
  BY DEF WalkInv, WalkTypes
<1>2. /\ entries \in Seq(Positions)
      /\ \A i \in 1..Len(entries) : entries[i] \in Left(walk.order, walk.filter, walk.cursor)
  BY <1>1, PageTells
<1>3. /\ Grows(got) /\ \A i \in 1..Len(got) : walk.cursor # Nil /\ got[i].key <= walk.cursor.key
  BY DEF WalkInv, KeysGrow, Grows
<1>4. \A a, b : ML!Before(walk.order, a, b) <=> a.key < b.key
  BY DEF ML!Before
<1>5. Grows(entries)
  BY <1>4 DEF IsPage, Grows
<1>6. \A a \in Positions : a.key \in Int
  BY DEF Positions, ML!MemKeys
<1>7. \A i \in 1..Len(entries) : entries[i] \in Positions
  BY <1>2
<1>8. \A i \in 1..Len(got) : got[i] \in Positions
  BY <1>1
<1>9. ASSUME NEW i \in 1..Len(got), NEW j \in 1..Len(entries)  PROVE got[i].key < entries[j].key
  <2>1. walk.cursor \in Positions /\ got[i].key <= walk.cursor.key
    BY <1>1, <1>3
  <2>2. ML!After(walk.order, walk.cursor, entries[j])
    BY <1>2, <2>1, <1>3 DEF Left
  <2>3. walk.cursor.key < entries[j].key
    BY <1>1, <1>4, <1>7, <2>1, <2>2, AfterIsBefore
  <2>. QED  BY <1>6, <1>7, <1>8, <2>1, <2>3
<1>10. /\ Grows(got \o entries)
       /\ \A i \in 1..Len(got \o entries) : \/ \E j \in 1..Len(got) : (got \o entries)[i] = got[j]
                                            \/ \E j \in 1..Len(entries) : (got \o entries)[i] = entries[j]
  BY <1>1, <1>2, <1>3, <1>5, <1>9, JoinedGrows
<1>11. ASSUME Len(entries) > 0, NEW i \in 1..Len(got \o entries)
       PROVE  (got \o entries)[i].key <= entries[Len(entries)].key
  <2>1. Len(entries) \in 1..Len(entries)
    BY <1>2, <1>11
  <2>2. \A j \in 1..Len(entries) : entries[j].key <= entries[Len(entries)].key
    <3>1. TAKE j \in 1..Len(entries)
    <3>2. j < Len(entries) \/ j = Len(entries)
      BY <1>2
    <3>. QED  BY <1>5, <1>6, <1>7, <2>1, <3>2 DEF Grows
  <2>3. \A j \in 1..Len(got) : got[j].key <= entries[Len(entries)].key
    BY <1>6, <1>7, <1>8, <1>9, <2>1
  <2>. QED  BY <1>10, <2>2, <2>3
<1>. QED  BY <1>10, <1>11

\* A page that is the last, or has what was looked for, ends the walk as it should.
LEMMA EndKeeps ==
    ASSUME WalkInv, walk.at = "walking", NEW entries, NEW more,
           IsPage(walk.order, Left(walk.order, walk.filter, walk.cursor), entries, more),
           NEW y, y = ML!Yielded(entries), more => walk.wanted # Nil /\ y # << >>,
           got' = got \o y, walk' = [walk EXCEPT !.at = "done"], UNCHANGED <<memory, time, steady, changes>>
    PROVE  WalkInv'
<1>1. /\ WalkTypes /\ got \in Seq(Positions) /\ walk.order \in ML!Orders
      /\ CursorIsLast /\ ToldSoFar /\ LooksForOne /\ KeysGrow
  BY DEF WalkInv, WalkTypes
<1>2. /\ walk'.at = "done" /\ walk'.order = walk.order /\ walk'.filter = walk.filter /\ walk'.wanted = walk.wanted
      /\ walk'.cursor = walk.cursor /\ walk'.seen = walk.seen /\ walk'.size = walk.size /\ walk'.attempt = walk.attempt
      /\ walk' = [at |-> walk'.at, order |-> walk'.order, filter |-> walk'.filter, wanted |-> walk'.wanted,
                  cursor |-> walk'.cursor, seen |-> walk'.seen, size |-> walk'.size, attempt |-> walk'.attempt]
  BY <1>1 DEF WalkTypes
<1>3. entries \in Seq(Positions)
  BY <1>1, PageTells
<1>4. /\ walk.wanted = Nil => y = entries
      /\ walk.wanted # Nil => \/ y = << >> /\ \A i \in 1..Len(entries) : entries[i].key # walk.wanted
                              \/ \E i \in 1..Len(entries) : entries[i].key = walk.wanted /\ y = <<entries[i]>>
  BY <1>3, YieldedIs
<1>5. y \in Seq(Positions)
  <2>1. \A i \in 1..Len(entries) : entries[i] \in Positions
    BY <1>3
  <2>2. \A e \in Positions : <<e>> \in Seq(Positions)
    OBVIOUS
  <2>3. << >> \in Seq(Positions)
    OBVIOUS
  <2>4. CASE walk.wanted = Nil
    BY <1>3, <1>4, <2>4
  <2>5. CASE walk.wanted # Nil
    BY <1>4, <2>1, <2>2, <2>3, <2>5
  <2>. QED  BY <2>4, <2>5
<1>6. walk.wanted # Nil => got = << >> /\ got' = y
  BY <1>1, <1>5 DEF LooksForOne
<1>7. WalkTypes'
  <2>1. got' \in Seq(Positions)
    BY <1>1, <1>5
  <2>. QED  BY <1>1, <1>2, <2>1 DEF WalkTypes
<1>8. CursorIsLast' /\ ToldSoFar'
  BY <1>1, <1>2 DEF CursorIsLast, ToldSoFar
<1>9. LooksForOne'
  <2>1. walk.wanted # Nil => Len(y) <= 1 /\ \A i \in 1..Len(y) : y[i].key = walk.wanted
    BY <1>4
  <2>. QED  BY <1>1, <1>2, <1>6, <2>1 DEF LooksForOne
<1>10. KeysGrow'
  <2>1. CASE walk.order = "key" /\ walk.wanted = Nil
    <3>1. Grows(got \o entries)
      BY <2>1, KeysGrowOn
    <3>. QED  BY <1>2, <1>4, <2>1, <3>1 DEF KeysGrow, Grows
  <2>2. CASE walk.wanted # Nil
    <3>1. Len(y) <= 1 /\ Len(y) \in Nat
      <4>1. Len(<< >>) = 0 /\ \A e : Len(<<e>>) = 1
        OBVIOUS
      <4>. QED  BY <1>4, <2>2, <4>1
    <3>2. \A i, j \in 1..Len(y) : i < j => y[i].key < y[j].key
      BY <3>1
    <3>. QED  BY <1>2, <1>6, <2>2, <3>2 DEF KeysGrow
  <2>. QED  BY <1>2, <2>1, <2>2 DEF KeysGrow
<1>11. ToldInTheEnd'
  <2>1. SUFFICES ASSUME NEW k \in ML!MemKeys, steady[k] # Nil, walk.wanted = Nil \/ walk.wanted = k
                 PROVE  IF steady[k].source \in walk.filter THEN OnceIn(got', k) ELSE NeverIn(got', k)
    BY <1>2 DEF ToldInTheEnd, OnceIn, NeverIn
  <2>2. PICK a : a = ML!At(k, steady[k])
    OBVIOUS
  <2>3. /\ a.key = k
        /\ NeverIn(entries, k) \/ OnceIn(entries, k)
        /\ steady[k].source \notin walk.filter => NeverIn(entries, k)
        /\ Passed(a) => NeverIn(entries, k)
        /\ steady[k].source \in walk.filter /\ ~Passed(a) => more \/ \E i \in 1..Len(entries) : entries[i] = a
    BY <2>1, <2>2, SteadyIsLeft
  <2>4. (\E i \in 1..Len(entries) : entries[i] = a) => OnceIn(entries, k)
    BY <2>3 DEF NeverIn
  <2>5. CASE walk.wanted = Nil
    <3>1. got' = got \o entries /\ ~more
      BY <1>4, <2>5
    <3>2. IF steady[k].source \in walk.filter /\ Passed(a) THEN OnceIn(got, k) ELSE NeverIn(got, k)
      BY <1>1, <2>1, <2>2, <2>5 DEF ToldSoFar
    <3>3. /\ NeverIn(got, k) /\ NeverIn(entries, k) => NeverIn(got', k)
          /\ OnceIn(got, k) /\ NeverIn(entries, k) => OnceIn(got', k)
          /\ NeverIn(got, k) /\ OnceIn(entries, k) => OnceIn(got', k)
      BY <1>1, <1>3, <3>1, JoinedTells
    <3>. QED  BY <2>3, <2>4, <3>1, <3>2, <3>3
  <2>6. CASE walk.wanted = k /\ walk.wanted # Nil
    <3>1. /\ walk.filter = Sources /\ ~Passed(a)
      BY <1>1, <2>1, <2>2, <2>6 DEF LooksForOne
    <3>2. steady[k].source \in Sources
      BY <1>1, <2>1 DEF WalkTypes
    <3>3. y # << >>
      <4>1. ASSUME y = << >> PROVE FALSE
        <5>1. \A i \in 1..Len(entries) : entries[i].key # walk.wanted
          BY <1>4, <2>6, <4>1
        <5>2. ~more
          BY <4>1
        <5>3. PICK i \in 1..Len(entries) : entries[i] = a
          BY <2>3, <3>1, <3>2, <5>2
        <5>. QED  BY <2>3, <2>6, <5>1, <5>3
      <4>. QED  BY <4>1
    <3>4. PICK i \in 1..Len(entries) : entries[i].key = k /\ y = <<entries[i]>>
      BY <1>4, <2>6, <3>3
    <3>5. Len(y) = 1 /\ y[1].key = k /\ 1 \in 1..Len(y) /\ \A j \in 1..Len(y) : j = 1
      BY <3>4
    <3>6. OnceIn(y, k)
      BY <3>5 DEF OnceIn
    <3>. QED  BY <1>6, <2>6, <3>1, <3>2, <3>6
  <2>. QED  BY <2>1, <2>5, <2>6
<1>. QED  BY <1>2, <1>7, <1>8, <1>9, <1>10, <1>11 DEF WalkInv

\* After a page that is not the last, the walk goes on behind its last entry.
LEMMA NextKeeps ==
    ASSUME WalkInv, walk.at = "walking", NEW entries,
           IsPage(walk.order, Left(walk.order, walk.filter, walk.cursor), entries, TRUE), Len(entries) > 0,
           NEW y, y = ML!Yielded(entries), walk.wanted # Nil => y = << >>,
           NEW last, last = entries[Len(entries)], got' = got \o y,
           walk' = [walk EXCEPT !.cursor = last, !.seen = @ \cup {last},
                                !.size = IF @ > 1 THEN @ - 1 ELSE 1, !.attempt = 1],
           UNCHANGED <<memory, time, steady, changes>>
    PROVE  WalkInv'
<1>1. /\ WalkTypes /\ got \in Seq(Positions) /\ walk.order \in ML!Orders /\ walk.cursor \in Positions \cup {Nil}
      /\ walk.seen \subseteq Positions
      /\ CursorIsLast /\ ToldSoFar /\ LooksForOne /\ KeysGrow
  BY DEF WalkInv, WalkTypes
<1>2. /\ walk'.at = "walking" /\ walk'.order = walk.order /\ walk'.filter = walk.filter /\ walk'.wanted = walk.wanted
      /\ walk'.cursor = last /\ walk'.seen = walk.seen \cup {last} /\ walk'.attempt = 1
      /\ walk'.size = IF walk.size > 1 THEN walk.size - 1 ELSE 1
      /\ walk' = [at |-> walk'.at, order |-> walk'.order, filter |-> walk'.filter, wanted |-> walk'.wanted,
                  cursor |-> walk'.cursor, seen |-> walk'.seen, size |-> walk'.size, attempt |-> walk'.attempt]
  BY <1>1 DEF WalkTypes
<1>3. entries \in Seq(Positions)
  BY <1>1, PageTells
<1>4. /\ Len(entries) \in 1..Len(entries) /\ last \in Positions /\ last # Nil /\ last \notin walk.seen
      /\ walk.cursor # Nil => ML!Before(walk.order, walk.cursor, last)
  BY CursorIsNew
<1>5. /\ walk.wanted = Nil => y = entries
      /\ walk.wanted # Nil => \A i \in 1..Len(entries) : entries[i].key # walk.wanted
  <2>1. \A e : <<e>> # << >>
    OBVIOUS
  <2>2. /\ walk.wanted = Nil => y = entries
        /\ walk.wanted # Nil =>
              \/ y = << >> /\ \A i \in 1..Len(entries) : entries[i].key # walk.wanted
              \/ \E i \in 1..Len(entries) : entries[i].key = walk.wanted /\ y = <<entries[i]>>
    BY <1>3, YieldedIs
  <2>. QED  BY <2>1, <2>2
<1>6. y \in Seq(Positions)
  <2>1. << >> \in Seq(Positions)
    OBVIOUS
  <2>2. walk.wanted # Nil => y = << >>
    OBVIOUS
  <2>. QED  BY <1>3, <1>5, <2>1, <2>2
<1>7. walk.wanted # Nil => got' = << >>
  BY <1>1 DEF LooksForOne
<1>8. /\ \A a \in Positions : ~ML!Before(walk.order, a, a)
      /\ \A a, b, c \in Positions : ML!Before(walk.order, a, b) /\ ML!Before(walk.order, b, c) => ML!Before(walk.order, a, c)
  BY <1>1, OrderIsTotal
<1>9. \A a \in Positions : /\ Passed(a)' <=> ~ML!Before(walk.order, last, a)
                           /\ Passed(a) <=> walk.cursor # Nil /\ ~ML!Before(walk.order, walk.cursor, a)
  BY <1>1, <1>2, <1>4, AfterIsBefore DEF Passed
<1>10. \A a \in Positions : Passed(a) => Passed(a)'
  BY <1>1, <1>4, <1>8, <1>9
<1>11. \A i \in 1..Len(entries) : entries[i] \in Positions /\ Passed(entries[i])'
  <2>1. TAKE i \in 1..Len(entries)
  <2>2. i = Len(entries) \/ i < Len(entries)
    BY <1>3
  <2>3. entries[i] = last \/ ML!Before(walk.order, entries[i], last)
    BY <1>4, <2>2 DEF IsPage
  <2>4. entries[i] \in Positions
    BY <1>3
  <2>. QED  BY <1>4, <1>8, <1>9, <2>3, <2>4
<1>12. WalkTypes'
  <2>1. got' \in Seq(Positions)
    BY <1>1, <1>6
  <2>2. walk'.size \in 1..Len(Sizes)
    <3>1. walk.size \in 1..Len(Sizes) /\ Len(Sizes) \in Nat
      BY <1>1, ListingConstants DEF WalkTypes, ML!ConstantsFit
    <3>. QED  BY <1>2, <3>1
  <2>3. 1 \in 1..Attempts
    BY ListingConstants DEF ML!ConstantsFit
  <2>. QED  BY <1>1, <1>2, <1>4, <2>1, <2>2, <2>3 DEF WalkTypes
<1>13. CursorIsLast'
  <2>1. ASSUME NEW c \in walk.seen PROVE ML!Before(walk.order, c, last)
    <3>1. walk.cursor # Nil /\ (c = walk.cursor \/ ML!Before(walk.order, c, walk.cursor))
      BY <1>1 DEF CursorIsLast
    <3>2. c \in Positions /\ walk.cursor \in Positions
      BY <1>1, <3>1
    <3>. QED  BY <1>4, <1>8, <3>1, <3>2
  <2>. QED  BY <1>2, <1>4, <2>1 DEF CursorIsLast
<1>14. ASSUME NEW k \in ML!MemKeys, steady[k] # Nil, NEW a, a = ML!At(k, steady[k])
       PROVE  /\ a \in Positions /\ a.key = k
              /\ NeverIn(entries, k) \/ OnceIn(entries, k)
              /\ steady[k].source \notin walk.filter => NeverIn(entries, k)
              /\ Passed(a) => NeverIn(entries, k)
              /\ steady[k].source \in walk.filter /\ ~Passed(a) =>
                     (\E i \in 1..Len(entries) : entries[i] = a) \/ (NeverIn(entries, k) /\ ~Passed(a)')
  <2>1. /\ a \in Positions /\ a.key = k
        /\ NeverIn(entries, k) \/ OnceIn(entries, k)
        /\ steady[k].source \notin walk.filter => NeverIn(entries, k)
        /\ Passed(a) => NeverIn(entries, k)
        /\ steady[k].source \in walk.filter /\ ~Passed(a) =>
                 \/ \E i \in 1..Len(entries) : entries[i] = a
                 \/ NeverIn(entries, k) /\ \A i \in 1..Len(entries) : ML!Before(walk.order, entries[i], a)
    BY <1>14, SteadyIsLeft, ZenonT(30)
  <2>2. (\A i \in 1..Len(entries) : ML!Before(walk.order, entries[i], a)) => ~Passed(a)'
    BY <1>4, <1>9, <2>1
  <2>. QED  BY <2>1, <2>2
<1>15. LooksForOne'
  <2>1. ASSUME walk.wanted # Nil, steady[walk.wanted] # Nil
        PROVE  ~Passed(ML!At(walk.wanted, steady[walk.wanted]))'
    <3>1. PICK k \in ML!MemKeys : k = walk.wanted
      BY <1>1, <2>1 DEF WalkTypes
    <3>2. PICK a : a = ML!At(k, steady[k])
      OBVIOUS
    <3>3. ~Passed(a) /\ walk.filter = Sources
      BY <1>1, <2>1, <3>1, <3>2 DEF LooksForOne
    <3>4. steady[k].source \in Sources
      BY <1>1, <2>1, <3>1 DEF WalkTypes
    <3>5. \A i \in 1..Len(entries) : entries[i].key # k
      BY <1>5, <2>1, <3>1
    <3>6. ~Passed(a)'
      BY <1>14, <2>1, <3>1, <3>2, <3>3, <3>4, <3>5
    <3>. QED  BY <1>2, <3>1, <3>2, <3>6 DEF Passed
  <2>. QED  BY <1>1, <1>2, <1>7, <2>1 DEF LooksForOne, Passed
<1>16. KeysGrow'
  <2>1. CASE walk.order = "key" /\ walk.wanted = Nil
    <3>1. /\ Grows(got \o entries)
          /\ \A i \in 1..Len(got \o entries) : (got \o entries)[i].key <= last.key
      BY <2>1, KeysGrowOn
    <3>. QED  BY <1>2, <1>4, <1>5, <2>1, <3>1 DEF KeysGrow, Grows
  <2>2. CASE walk.wanted # Nil
    BY <1>2, <1>7, <2>2 DEF KeysGrow
  <2>. QED  BY <1>2, <2>1, <2>2 DEF KeysGrow
<1>17. ToldSoFar'
  <2>1. SUFFICES ASSUME walk.wanted = Nil, NEW k \in ML!MemKeys, steady[k] # Nil, NEW a, a = ML!At(k, steady[k])
                 PROVE  IF steady[k].source \in walk.filter /\ Passed(a)' THEN OnceIn(got', k) ELSE NeverIn(got', k)
    BY <1>2 DEF ToldSoFar, OnceIn, NeverIn, Passed
  <2>2. IF steady[k].source \in walk.filter /\ Passed(a) THEN OnceIn(got, k) ELSE NeverIn(got, k)
    BY <1>1, <2>1 DEF ToldSoFar
  <2>3. /\ NeverIn(got, k) /\ NeverIn(entries, k) => NeverIn(got', k)
        /\ OnceIn(got, k) /\ NeverIn(entries, k) => OnceIn(got', k)
        /\ NeverIn(got, k) /\ OnceIn(entries, k) => OnceIn(got', k)
    BY <1>1, <1>3, <1>5, <2>1, JoinedTells
  <2>4. /\ a \in Positions /\ a.key = k
        /\ NeverIn(entries, k) \/ OnceIn(entries, k)
        /\ steady[k].source \notin walk.filter => NeverIn(entries, k)
        /\ Passed(a) => NeverIn(entries, k)
        /\ steady[k].source \in walk.filter /\ ~Passed(a) =>
               (\E i \in 1..Len(entries) : entries[i] = a) \/ (NeverIn(entries, k) /\ ~Passed(a)')
    BY <1>14, <2>1
  <2>5. (\E i \in 1..Len(entries) : entries[i] = a) => OnceIn(entries, k) /\ Passed(a)'
    <3>1. SUFFICES ASSUME NEW i \in 1..Len(entries), entries[i] = a  PROVE OnceIn(entries, k) /\ Passed(a)'
      OBVIOUS
    <3>2. ~NeverIn(entries, k)
      BY <2>4, <3>1 DEF NeverIn
    <3>3. Passed(a)'
      BY <1>2, <1>11, <3>1 DEF Passed
    <3>. QED  BY <2>4, <3>2, <3>3
  <2>6. Passed(a) => Passed(a)'
    BY <1>10, <2>4
  <2>. QED  BY <2>2, <2>3, <2>4, <2>5, <2>6
<1>18. ToldInTheEnd'
  BY <1>2 DEF ToldInTheEnd
<1>. QED  BY <1>2, <1>12, <1>13, <1>15, <1>16, <1>17, <1>18 DEF WalkInv

\* A walk that only waits, asks again or stops early has told what it had told.
LEMMA WaitKeeps ==
    ASSUME WalkInv, UNCHANGED <<memory, time, got, steady, changes>>,
           NEW at \in {"walking", "unavailable", "gave up"}, at = "walking" => walk.at = "walking",
           NEW size \in 1..Len(Sizes), NEW attempt \in 1..Attempts,
           walk' = [walk EXCEPT !.at = at, !.size = size, !.attempt = attempt]
    PROVE  WalkInv'
<1>1. WalkTypes
  BY DEF WalkInv
<1>2. /\ walk'.at = at /\ walk'.order = walk.order /\ walk'.filter = walk.filter /\ walk'.wanted = walk.wanted
      /\ walk'.cursor = walk.cursor /\ walk'.seen = walk.seen /\ walk'.size = size /\ walk'.attempt = attempt
      /\ walk' = [at |-> walk'.at, order |-> walk'.order, filter |-> walk'.filter, wanted |-> walk'.wanted,
                  cursor |-> walk'.cursor, seen |-> walk'.seen, size |-> walk'.size, attempt |-> walk'.attempt]
  BY <1>1 DEF WalkTypes
<1>3. WalkTypes'
  BY <1>1, <1>2 DEF WalkTypes
<1>4. CursorIsLast' /\ ToldInTheEnd' /\ KeysGrow'
  BY <1>2 DEF WalkInv, CursorIsLast, ToldInTheEnd, KeysGrow
<1>5. ToldSoFar' /\ LooksForOne'
  BY <1>2 DEF WalkInv, ToldSoFar, LooksForOne, Passed
<1>. QED  BY <1>2, <1>3, <1>4, <1>5 DEF WalkInv

\* A page, or the word that it is too large: a page of one entry never is.
LEMMA AnswerKeeps == ASSUME WalkInv, ML!Answer PROVE WalkInv'
<1>1. /\ WalkTypes /\ time \in Nat /\ walk.order \in ML!Orders /\ walk.size \in 1..Len(Sizes) /\ walk.attempt \in 1..Attempts
      /\ memory \in [ML!MemKeys -> [stamp : 1..time, source : Sources] \cup {Nil}]
  BY DEF WalkInv, WalkTypes
<1>2. /\ Sizes \in Seq(Nat \ {0}) /\ Sizes[Len(Sizes)] = 1 /\ Attempts \in Nat \ {0}
  BY ListingConstants DEF ML!ConstantsFit
<1>3. PICK bound : bound = Sizes[walk.size]
  OBVIOUS
<1>4. bound \in Nat \ {0}
  BY <1>1, <1>2, <1>3
<1>5. PICK page : page = ML!ListPage(walk.order, walk.filter, walk.cursor, bound + 1)
  OBVIOUS
<1>6. PICK entries : entries = SubSeq(page, 1, IF bound < Len(page) THEN bound ELSE Len(page))
  OBVIOUS
<1>7. /\ walk.at = "walking" /\ UNCHANGED <<memory, time, steady, changes>>
      /\ ML!AskSmaller(entries) \/ ML!TakePage(page, entries)
  BY <1>3, <1>5, <1>6 DEF ML!Answer
<1>8. PICK left : left = Left(walk.order, walk.filter, walk.cursor)
  OBVIOUS
<1>9. IsPage(walk.order, left, page, Len(page) = bound + 1) /\ Len(page) <= bound + 1
  <2>1. bound + 1 \in Nat
    BY <1>4
  <2>. QED  BY <1>1, <1>5, <1>8, <2>1, PagesAre
<1>10. PICK more \in BOOLEAN : more = ML!HasMore(page, bound)
  <2>1. ML!HasMore(page, bound) \in BOOLEAN
    BY DEF ML!HasMore
  <2>. QED  BY <2>1
<1>11. /\ IsPage(walk.order, left, entries, more)
       /\ Len(entries) <= bound /\ (more => Len(entries) > 0)
  BY <1>4, <1>6, <1>9, <1>10, EntriesAre
<1>12. ASSUME ML!AskSmaller(entries) PROVE WalkInv'
  <2>1. Len(entries) > 1 /\ got' = got
    BY <1>12 DEF ML!AskSmaller, ML!TooLarge
  <2>2. walk.size # Len(Sizes)
    <3>1. Len(entries) \in Nat
      BY <1>11 DEF IsPage
    <3>. QED  BY <1>2, <1>3, <1>11, <2>1, <3>1
  <2>3. walk.size + 1 \in 1..Len(Sizes) /\ 1 \in 1..Attempts
    BY <1>1, <1>2, <2>2
  <2>4. walk' = [walk EXCEPT !.size = walk.size + 1, !.attempt = 1]
    BY <1>12, <2>2 DEF ML!AskSmaller
  <2>5. walk' = [walk EXCEPT !.at = "walking", !.size = walk.size + 1, !.attempt = 1]
    BY <1>1, <1>7, <2>4 DEF WalkTypes
  <2>. QED  BY <1>7, <2>1, <2>3, <2>5, WaitKeeps
<1>13. ASSUME ML!TakePage(page, entries) PROVE WalkInv'
  <2>1. PICK y : y = ML!Yielded(entries)
    OBVIOUS
  <2>2. PICK last : last = entries[Len(entries)]
    OBVIOUS
  <2>3. ~more \/ (last # Nil /\ last \notin walk.seen)
    BY <1>8, <1>11, <2>2, CursorIsNew
  <2>4. /\ got' = got \o y
        /\ LET next == IF more THEN last ELSE Nil
           IN  walk' = IF next = Nil \/ (walk.wanted # Nil /\ y # << >>)
                           THEN [walk EXCEPT !.at = "done"]
                       ELSE IF next \in walk.seen THEN [walk EXCEPT !.at = "repeated cursor"]
                       ELSE [walk EXCEPT !.cursor = next, !.seen = @ \cup {next},
                                         !.size = IF @ > 1 THEN @ - 1 ELSE 1, !.attempt = 1]
    BY <1>3, <1>10, <1>13, <2>1, <2>2 DEF ML!TakePage
  <2>5. CASE ~more \/ (walk.wanted # Nil /\ y # << >>)
    <3>1. walk' = [walk EXCEPT !.at = "done"]
      BY <2>4, <2>5
    <3>. QED  BY <1>7, <1>8, <1>11, <2>1, <2>4, <2>5, <3>1, EndKeeps
  <2>6. CASE more /\ (walk.wanted # Nil => y = << >>)
    <3>1. walk' = [walk EXCEPT !.cursor = last, !.seen = @ \cup {last},
                               !.size = IF @ > 1 THEN @ - 1 ELSE 1, !.attempt = 1]
      BY <2>3, <2>4, <2>6
    <3>2. IsPage(walk.order, Left(walk.order, walk.filter, walk.cursor), entries, TRUE) /\ Len(entries) > 0
      BY <1>8, <1>11, <2>6
    <3>. QED  BY <1>7, <2>1, <2>2, <2>4, <2>6, <3>1, <3>2, NextKeeps
  <2>. QED  BY <2>5, <2>6
<1>. QED  BY <1>7, <1>12, <1>13

\* A walk starts with nothing told, and everything unchanged.
LEMMA StartKeeps ==
    ASSUME WalkInv, NEW order \in ML!Orders, NEW filter, NEW wanted \in ML!MemKeys \cup {Nil}, ML!Start(order, filter, wanted)
    PROVE  WalkInv'
<1>1. /\ walk.at = "none" /\ (wanted # Nil => order = "key" /\ filter = Sources)
      /\ walk' = [at |-> "walking", order |-> order, filter |-> filter, wanted |-> wanted,
                  cursor |-> Nil, seen |-> {}, size |-> 1, attempt |-> 1]
      /\ steady' = memory /\ UNCHANGED <<memory, time, got, changes>>
  BY DEF ML!Start, ML!Fresh
<1>2. WalkTypes /\ got = << >>
  BY <1>1 DEF WalkInv
<1>3. 1 \in 1..Len(Sizes) /\ 1 \in 1..Attempts
  BY ListingConstants DEF ML!ConstantsFit
<1>4. memory \in [ML!MemKeys -> Steadily \cup {Nil}]
  <2>0. time \in Nat
    BY <1>2 DEF WalkTypes
  <2>1. 1..time \subseteq Nat
    BY <2>0
  <2>2. [stamp : 1..time, source : Sources] \subseteq Steadily
    BY <2>1 DEF Steadily
  <2>. QED  BY <1>2, <2>2 DEF WalkTypes
<1>5. WalkTypes'
  BY <1>1, <1>2, <1>3, <1>4 DEF WalkTypes
<1>. QED  BY <1>1, <1>2, <1>5 DEF WalkInv, CursorIsLast, ToldSoFar, ToldInTheEnd, LooksForOne, KeysGrow, Passed, NeverIn

\* Every action keeps the invariant.
LEMMA WalkStays == ASSUME WalkInv, ML!Next PROVE WalkInv'
<1>1. /\ WalkTypes /\ time \in Nat /\ changes \in 0..MaxChanges /\ MaxChanges \in Nat /\ Attempts \in Nat \ {0}
      /\ walk.size \in 1..Len(Sizes) /\ walk.attempt \in 1..Attempts
      /\ memory \in [ML!MemKeys -> [stamp : 1..time, source : Sources] \cup {Nil}]
  BY ListingConstants DEF WalkInv, WalkTypes, ML!ConstantsFit
<1>2. ASSUME NEW k \in ML!MemKeys, NEW s \in Sources, ML!Put(k, s)  PROVE WalkInv'
  <2>1. PICK t \in {time, time + 1} \ {0} : time' = t /\ ML!Change(k, [stamp |-> t, source |-> s])
    BY <1>2 DEF ML!Put
  <2>2. changes < MaxChanges
    BY <1>2 DEF ML!Put
  <2>3. time' \in Nat /\ time <= time' /\ t \in 1..time'
    BY <1>1, <2>1
  <2>4. [stamp |-> t, source |-> s] \in [stamp : 1..time', source : Sources] \cup {Nil}
    BY <2>3
  <2>. QED  BY <2>1, <2>2, <2>3, <2>4, ChangeKeeps
<1>3. ASSUME NEW k \in ML!MemKeys, ML!Drop(k)  PROVE WalkInv'
  <2>1. changes < MaxChanges /\ ML!Change(k, Nil) /\ time' = time
    BY <1>3 DEF ML!Drop
  <2>2. time' \in Nat /\ time <= time'
    BY <1>1, <2>1
  <2>. QED  BY <2>1, <2>2, ChangeKeeps
<1>4. ASSUME NEW k \in ML!MemKeys, ML!PutBack(k)  PROVE WalkInv'
  <2>1. PICK t \in 1..memory[k].stamp - 1 : ML!Change(k, [memory[k] EXCEPT !.stamp = t])
    BY <1>4 DEF ML!PutBack
  <2>2. changes < MaxChanges /\ memory[k] # Nil /\ time' = time
    BY <1>4 DEF ML!PutBack
  <2>3. memory[k].stamp \in 1..time /\ memory[k] \in [stamp : 1..time, source : Sources]
    BY <1>1, <2>2
  <2>4. t \in 1..time
    BY <1>1, <2>1, <2>3
  <2>5. [memory[k] EXCEPT !.stamp = t] \in [stamp : 1..time', source : Sources] \cup {Nil}
    BY <2>2, <2>3, <2>4
  <2>6. time' \in Nat /\ time <= time'
    BY <1>1, <2>2
  <2>. QED  BY <2>1, <2>2, <2>5, <2>6, ChangeKeeps
<1>5. ASSUME NEW order \in ML!Orders, NEW filter, NEW wanted \in ML!MemKeys \cup {Nil}, ML!Start(order, filter, wanted)
      PROVE  WalkInv'
  BY <1>5, StartKeeps
<1>6. ASSUME ML!OldServiceAnswers PROVE WalkInv'
  <2>1. walk' = [walk EXCEPT !.at = "unavailable"] /\ UNCHANGED <<memory, time, got, steady, changes>>
    BY <1>6 DEF ML!OldServiceAnswers
  <2>2. walk' = [walk EXCEPT !.at = "unavailable", !.size = walk.size, !.attempt = walk.attempt]
    BY <1>1, <2>1 DEF WalkTypes
  <2>. QED  BY <1>1, <2>1, <2>2, WaitKeeps
<1>7. ASSUME ML!NoAnswer PROVE WalkInv'
  <2>1. /\ walk.at = "walking" /\ UNCHANGED <<memory, time, got, steady, changes>>
        /\ walk' = IF walk.attempt = Attempts THEN [walk EXCEPT !.at = "gave up"]
                   ELSE [walk EXCEPT !.attempt = walk.attempt + 1]
    BY <1>7 DEF ML!NoAnswer
  <2>2. CASE walk.attempt = Attempts
    <3>1. walk' = [walk EXCEPT !.at = "gave up", !.size = walk.size, !.attempt = walk.attempt]
      BY <1>1, <2>1, <2>2 DEF WalkTypes
    <3>. QED  BY <1>1, <2>1, <3>1, WaitKeeps
  <2>3. CASE walk.attempt # Attempts
    <3>1. walk.attempt + 1 \in 1..Attempts
      BY <1>1, <2>3
    <3>2. walk' = [walk EXCEPT !.at = "walking", !.size = walk.size, !.attempt = walk.attempt + 1]
      BY <1>1, <2>1, <2>3 DEF WalkTypes
    <3>. QED  BY <1>1, <2>1, <3>1, <3>2, WaitKeeps
  <2>. QED  BY <2>2, <2>3
<1>. QED  BY <1>2, <1>3, <1>4, <1>5, <1>6, <1>7, AnswerKeeps DEF ML!Next

\* How often a key was told.
LEMMA TimesAre ==
    ASSUME NEW k
    PROVE  /\ OnceIn(got, k) => ML!Times(k) = 1
           /\ NeverIn(got, k) => ML!Times(k) = 0
<1>. DEFINE at == {i \in 1..Len(got) : got[i].key = k}
<1>1. ML!Times(k) = Cardinality(at)
  BY ListingSets DEF ML!Times
<1>2. ASSUME OnceIn(got, k) PROVE ML!Times(k) = 1
  <2>1. PICK i \in 1..Len(got) : at = {i}
    BY <1>2 DEF OnceIn
  <2>. HIDE DEF at
  <2>. QED  BY <1>1, <2>1, FS_Singleton
<1>3. ASSUME NeverIn(got, k) PROVE ML!Times(k) = 0
  <2>1. at = {}
    BY <1>3 DEF NeverIn
  <2>. HIDE DEF at
  <2>. QED  BY <1>1, <2>1, FS_EmptySet
<1>. QED  BY <1>2, <1>3

\* The invariant says all that is promised of a walk, and its types.
LEMMA CompleteWhileInv == ASSUME WalkInv PROVE WalkIsComplete /\ ML!TypeOK
<1>1. WalkTypes /\ walk.at \in {"none", "walking", "done", "unavailable", "gave up"} /\ got \in Seq(Positions)
  BY DEF WalkInv, WalkTypes
<1>2. ML!UnchangedExactlyOnce
  BY TimesAre DEF WalkInv, ToldInTheEnd, ML!UnchangedExactlyOnce
<1>3. ML!KeyOrderNeverTwice
  <2>1. SUFFICES ASSUME walk.order = "key", NEW k \in ML!MemKeys PROVE ML!Times(k) <= 1
    BY DEF ML!KeyOrderNeverTwice
  <2>2. \A i \in 1..Len(got) : got[i].key \in Int
    <3>0. got \in Seq(Positions)
      BY <1>1
    <3>1. \A i \in 1..Len(got) : got[i] \in Positions
      BY <3>0
    <3>. QED  BY <3>1 DEF Positions, ML!MemKeys
  <2>3. NeverIn(got, k) \/ OnceIn(got, k)
    <3>1. SUFFICES ASSUME NEW i \in 1..Len(got), got[i].key = k PROVE OnceIn(got, k)
      BY DEF NeverIn
    <3>2. ASSUME NEW j \in 1..Len(got), got[j].key = k, j # i PROVE FALSE
      <4>1. i < j \/ j < i
        BY <3>2
      <4>2. got[i].key < got[j].key \/ got[j].key < got[i].key
        BY <2>1, <4>1 DEF WalkInv, KeysGrow
      <4>. QED  BY <2>2, <3>1, <3>2, <4>2
    <3>. QED  BY <3>1, <3>2 DEF OnceIn
  <2>. QED  BY <2>3, TimesAre
<1>4. ML!OnlyTroubleStopsAWalk
  BY <1>1 DEF ML!OnlyTroubleStopsAWalk
<1>5. ML!TypeOK
  <2>1. \A k \in ML!MemKeys : memory[k] # Nil => memory[k].stamp \in 1..time /\ memory[k].source \in Sources
    BY <1>1 DEF WalkTypes
  <2>. QED  BY <1>1, <2>1 DEF WalkInv, WalkTypes, CursorIsLast, ML!TypeOK
<1>. QED  BY <1>2, <1>3, <1>4, <1>5 DEF WalkIsComplete

\* Whatever is written, deleted and rolled back between two pages, however small
\* pages have to be, whichever responses are lost and whichever service answers:
\* a walk that ends has told each memory that matched and did not change exactly
\* once, in key order none is told twice, and no walk fails on the size of a page
\* or on a cursor it was given before (MemoryListing.tla).
THEOREM WalksAreAlwaysComplete == MCSpec => [](WalkIsComplete /\ ML!TypeOK)
<1>1. MCInit => WalkInv
  BY WalkStarts DEF MCInit
<1>2. WalkInv /\ [MCNext]_<<part, vars, lvars, svars, rvars, cvars, tvars, qvars, wvars>> => WalkInv'
  <2>1. ASSUME WalkInv, MCNext PROVE ML!Next \/ UNCHANGED lvars
    BY <2>1 DEF MCNext
  <2>. QED  BY <2>1, WalkStays, WalkStands
<1>. QED  BY <1>1, <1>2, CompleteWhileInv, PTL DEF MCSpec

-----------------------------------------------------------------------------
(* Turns of an agent *)

SaidKeys == {AT!UserKey(u) : u \in Inputs}

\* The commits a call makes.
Steps == [does : {"observe"}, key : SaidKeys] \cup [does : {"keep", "evidence"}, key : AT!StoreKeys]

CallsOfTurns ==
    [op : {"before"}, todo : Seq(Steps), input : Inputs, output : {Nil}]
    \cup [op : {"after", "keep"}, todo : Seq(Steps), input : Inputs, output : Outputs]
    \cup [op : {"finalize"}, todo : Seq(Steps), input : Inputs \cup {Nil}, output : Outputs \cup {Nil}]

Frames == [input : Inputs \cup {Nil}, output : Outputs \cup {Nil}, context : BOOLEAN,
           observed : SaidKeys \cup {Nil}, salience : BOOLEAN, written : SUBSET AT!StoreKeys]

TurnTypes ==
    /\ frame \in Frames /\ pending \in Seq(Events)
    /\ stored \subseteq AT!StoreKeys /\ dropped \subseteq AT!StoreKeys /\ missed \subseteq Events
    /\ raises \in 0..MaxRaises
    /\ ~AT!Idle => doing \in CallsOfTurns

\* It is still to be committed.
ToCommit(todo, key) == \E i \in 1..Len(todo) : todo[i].key = key

\* What the session has written, and what it was told is worth keeping, is stored
\* or was forgotten since; a call has stored what it was about, or still will.
TurnInv ==
    /\ TurnTypes
    /\ frame.written \subseteq stored \cup dropped
    /\ handed \subseteq stored \cup dropped
    /\ ~AT!Idle /\ doing.op = "before" =>
           AT!UserKey(doing.input) \in stored \/ ToCommit(doing.todo, AT!UserKey(doing.input))
    /\ ~AT!Idle /\ doing.op = "keep" =>
           \A i \in DOMAIN AT!Proposed(doing.input, doing.output) :
               LET key == AT!KeptKey(AT!Proposed(doing.input, doing.output)[i])
               IN  key \in stored \cup dropped \/ ToCommit(doing.todo, key)

\* Before the first call.
LEMMA TurnsStart == ASSUME AT!Init PROVE TurnInv
<1>1. /\ frame = [input |-> Nil, output |-> Nil, context |-> FALSE,
                  observed |-> Nil, salience |-> FALSE, written |-> {}]
      /\ pending = << >> /\ stored = {} /\ doing = Nil /\ raises = 0 /\ dropped = {} /\ missed = {} /\ handed = {}
  BY DEF AT!Init, AT!NewFrame
<1>2. frame \in Frames
  BY <1>1 DEF Frames
<1>3. 0 \in 0..MaxRaises
  BY TurnConstants DEF AT!ConstantsFit
<1>4. TurnTypes
  BY <1>1, <1>2, <1>3 DEF TurnTypes, AT!Idle
<1>. QED  BY <1>1, <1>4 DEF TurnInv, AT!Idle

\* What an input is worth are memories with keys.
LEMMA WorthHasKeys ==
    ASSUME NEW u \in Inputs, NEW o
    PROVE  /\ AT!Proposed(u, o) \in Seq(AT!SX!ToSet(AT!Proposed(u, o)))
           /\ \A i \in DOMAIN AT!Proposed(u, o) : AT!KeptKey(AT!Proposed(u, o)[i]) \in AT!StoreKeys
<1>1. Worth[u] \in Seq(AT!SX!ToSet(Worth[u]))
  BY TurnConstants DEF AT!ConstantsFit
<1>2. \A i \in DOMAIN Worth[u] : AT!KeptKey(Worth[u][i]) \in AT!StoreKeys
  BY DEF AT!StoreKeys, AT!SX!ToSet
<1>3. AT!Proposed(u, o) = << >> \/ AT!Proposed(u, o) = Worth[u]
  BY DEF AT!Proposed
<1>4. << >> \in Seq(AT!SX!ToSet(<< >>)) /\ DOMAIN << >> = {}
  OBVIOUS
<1>5. CASE AT!Proposed(u, o) = << >>
  BY <1>4, <1>5
<1>6. CASE AT!Proposed(u, o) = Worth[u]
  BY <1>1, <1>2, <1>6
<1>. QED  BY <1>3, <1>5, <1>6

\* Cardinality is the same operator in an instance.
LEMMA TurnSets == ASSUME NEW S PROVE AT!Cardinality(S) = Cardinality(S)
BY DEF AT!Cardinality, Cardinality

\* What is proposed is written before or one of the commits to make, and these
\* are commits of memories.
LEMMA ProposalsAreMade ==
    ASSUME NEW f, NEW u \in Inputs, NEW o, NEW steps, steps = AT!ProposalSteps(f, u, o)
    PROVE  /\ steps \in Seq(Steps)
           /\ \A i \in DOMAIN AT!Proposed(u, o) :
                 LET key == AT!KeptKey(AT!Proposed(u, o)[i])
                 IN  key \in f.written \/ ToCommit(steps, key)
<1>1. PICK worth : worth = AT!Proposed(u, o)
  OBVIOUS
<1>2. /\ worth \in Seq(AT!SX!ToSet(worth))
      /\ \A i \in DOMAIN worth : AT!KeptKey(worth[i]) \in AT!StoreKeys
  BY <1>1, WorthHasKeys
<1>3. DOMAIN worth = 1..Len(worth) /\ Len(worth) \in Nat
  BY <1>2
<1>. DEFINE fresh == {i \in DOMAIN worth : AT!KeptKey(worth[i]) \notin f.written}
            R == {e \in fresh \X fresh : e[1] < e[2]}
            c == Cardinality(fresh)
            nth(n) == CHOOSE i \in fresh : Place(R, fresh, i) = n - 1
<1>4. fresh \subseteq 1..Len(worth) /\ IsFiniteSet(fresh)
  <2>1. fresh \subseteq 1..Len(worth)
    BY <1>3
  <2>2. IsFiniteSet(1..Len(worth))
    BY <1>3, FS_Interval
  <2>. HIDE DEF fresh
  <2>. QED  BY <2>1, <2>2, FS_Subset
<1>5. Ordered(R, fresh)
  <2>1. \A a, b \in fresh : <<a, b>> \in R <=> a < b
    OBVIOUS
  <2>2. \A a \in fresh : a \in Int
    BY <1>4
  <2>. HIDE DEF fresh, R
  <2>. QED  BY <2>1, <2>2 DEF Ordered
<1>6. \A i \in fresh : AT!Cardinality({j \in fresh : j < i}) = Place(R, fresh, i)
  <2>1. \A i \in fresh : {j \in fresh : j < i} = Below(R, fresh, i)
    BY DEF Below
  <2>. QED  BY <2>1, TurnSets DEF Place
<1>7. steps = [n \in 1..c |-> [does |-> "keep", key |-> AT!KeptKey(worth[nth(n)])]]
  <2>1. steps = [n \in 1..AT!Cardinality(fresh) |->
                   [does |-> "keep",
                    key |-> AT!KeptKey(worth[CHOOSE i \in fresh : AT!Cardinality({j \in fresh : j < i}) = n - 1])]]
    BY <1>1 DEF AT!ProposalSteps
  <2>2. AT!Cardinality(fresh) = c
    BY TurnSets
  <2>3. \A n : (CHOOSE i \in fresh : AT!Cardinality({j \in fresh : j < i}) = n - 1) = nth(n)
    BY <1>6
  <2>. HIDE DEF fresh, c, nth
  <2>. QED  BY <2>1, <2>2, <2>3
<1>8. /\ c \in Nat
      /\ \A i \in fresh : Place(R, fresh, i) \in 0..c - 1
      /\ \A n \in 1..c : \E i \in fresh : Place(R, fresh, i) = n - 1
      /\ \A a, b \in fresh : <<a, b>> \in R => Place(R, fresh, a) < Place(R, fresh, b)
  <2>. HIDE DEF fresh, R
  <2>. QED  BY <1>4, <1>5, PlacesGrow
<1>9. \A n \in 1..c : nth(n) \in fresh /\ Place(R, fresh, nth(n)) = n - 1
  BY <1>8
<1>10. \A i \in fresh : AT!KeptKey(worth[i]) \in AT!StoreKeys
  BY <1>2
<1>11. \A i \in DOMAIN worth : i \in fresh \/ AT!KeptKey(worth[i]) \in f.written
  OBVIOUS
<1>. HIDE DEF fresh, R, c, nth
<1>12. \A n \in 1..c : steps[n] \in Steps /\ steps[n].key = AT!KeptKey(worth[nth(n)])
  BY <1>7, <1>9, <1>10 DEF Steps
<1>13. steps \in Seq(Steps) /\ Len(steps) = c
  BY <1>7, <1>8, <1>12
<1>14. ASSUME NEW i \in fresh PROVE ToCommit(steps, AT!KeptKey(worth[i]))
  <2>1. PICK n \in 1..c : n - 1 = Place(R, fresh, i)
    BY <1>8
  <2>2. nth(n) \in fresh /\ Place(R, fresh, nth(n)) = Place(R, fresh, i)
    BY <1>9, <2>1
  <2>3. nth(n) = i
    <3>1. SUFFICES ASSUME nth(n) # i PROVE FALSE
      OBVIOUS
    <3>2. <<nth(n), i>> \in R \/ <<i, nth(n)>> \in R
      BY <1>5, <2>2, <3>1 DEF Ordered
    <3>3. Place(R, fresh, i) \in Nat
      BY <1>8
    <3>. QED  BY <1>8, <2>2, <3>2, <3>3
  <2>. QED  BY <1>12, <1>13, <2>3 DEF ToCommit
<1>. QED  BY <1>1, <1>11, <1>13, <1>14

\* What is to be committed is the next or remains.
LEMMA OneLess ==
    ASSUME NEW todo \in Seq(Steps), todo # << >>
    PROVE  /\ Head(todo) \in Steps /\ Tail(todo) \in Seq(Steps)
           /\ \A key : ToCommit(todo, key) => Head(todo).key = key \/ ToCommit(Tail(todo), key)
<1>1. /\ Len(todo) \in Nat /\ Head(todo) = todo[1] /\ Head(todo) \in Steps /\ Tail(todo) \in Seq(Steps)
      /\ Len(Tail(todo)) = Len(todo) - 1
      /\ \A i \in 1..Len(todo) - 1 : Tail(todo)[i] = todo[i + 1]
  BY HeadTailProperties
<1>2. ASSUME NEW key, NEW i \in 1..Len(todo), todo[i].key = key, i # 1  PROVE ToCommit(Tail(todo), key)
  <2>1. i - 1 \in 1..Len(todo) - 1 /\ (i - 1) + 1 = i
    BY <1>1, <1>2
  <2>2. Tail(todo)[i - 1] = todo[i]
    BY <1>1, <2>1
  <2>. QED  BY <1>1, <1>2, <2>1, <2>2 DEF ToCommit
<1>. QED  BY <1>1, <1>2 DEF ToCommit

\* The user's turn is stored, or the one commit to make.
LEMMA ObservesOrHas ==
    ASSUME NEW f, NEW u \in Inputs, NEW steps, steps = AT!ObserveSteps(f, u)
    PROVE  /\ steps \in Seq(Steps)
           /\ AT!UserKey(u) \in stored \/ ToCommit(steps, AT!UserKey(u))
<1>1. AT!UserKey(u) \in SaidKeys
  BY DEF SaidKeys
<1>2. PICK step : step = [does |-> "observe", key |-> AT!UserKey(u)]
  OBVIOUS
<1>3. step \in Steps /\ step.key = AT!UserKey(u)
  BY <1>1, <1>2 DEF Steps
<1>4. (AT!UserKey(u) \in stored /\ steps = << >>) \/ steps = <<step>>
  BY <1>2 DEF AT!ObserveSteps
<1>5. ASSUME steps = <<step>> PROVE steps \in Seq(Steps) /\ ToCommit(steps, AT!UserKey(u))
  <2>1. <<step>> \in Seq(Steps) /\ Len(<<step>>) = 1 /\ <<step>>[1] = step
    BY <1>3
  <2>2. 1 \in 1..Len(steps) /\ steps[1].key = AT!UserKey(u)
    BY <1>3, <1>5, <2>1
  <2>. QED  BY <1>5, <2>1, <2>2 DEF ToCommit
<1>6. << >> \in Seq(Steps)
  OBVIOUS
<1>. QED  BY <1>4, <1>5, <1>6

\* The texts a frame holds.
LEMMA HeardFits ==
    ASSUME frame \in Frames, NEW u \in Inputs \cup {Nil}, NEW o \in Outputs \cup {Nil}, NEW f, f = AT!Heard(frame, u, o)
    PROVE  /\ f \in Frames /\ f.written = frame.written /\ f.context = frame.context /\ f.observed = frame.observed
           /\ f.salience = frame.salience
BY DEF AT!Heard, Frames

\* A call that begins, or goes on, with commits to make.
LEMMA CallKeeps ==
    ASSUME TurnInv, NEW op, NEW todo, NEW u, NEW o, NEW begun, begun = AT!Call(op, todo, u, o), begun \in CallsOfTurns,
           doing' = begun, frame' \in Frames, frame'.written = frame.written,
           pending' \in Seq(Events), UNCHANGED <<stored, dropped, missed, handed>>, raises' = raises,
           op = "before" => AT!UserKey(u) \in stored \/ ToCommit(todo, AT!UserKey(u)),
           op = "keep" => \A i \in DOMAIN AT!Proposed(u, o) :
               LET key == AT!KeptKey(AT!Proposed(u, o)[i])
               IN  key \in stored \cup dropped \/ ToCommit(todo, key)
    PROVE  TurnInv'
<1>1. begun = [op |-> op, todo |-> todo, input |-> u, output |-> o]
  BY DEF AT!Call
<1>2. TurnTypes'
  BY DEF TurnInv, TurnTypes
<1>3. doing'.op = op /\ doing'.todo = todo /\ doing'.input = u /\ doing'.output = o
  BY <1>1
<1>. QED  BY <1>2, <1>3 DEF TurnInv, ToCommit

\* Before the model is called the turn of the user is observed, or is stored.
LEMMA BeforeKeeps == ASSUME TurnInv, NEW u \in Inputs, AT!BeforeModelCall(u) PROVE TurnInv'
<1>1. PICK steps : steps = AT!ObserveSteps(frame, u)
  OBVIOUS
<1>2. PICK f : f = AT!Heard(frame, u, Nil)
  OBVIOUS
<1>3. /\ frame' = [f EXCEPT !.context = TRUE] /\ doing' = AT!Call("before", steps, u, Nil)
      /\ UNCHANGED <<pending, stored, raises, dropped, missed, handed>>
  BY <1>1, <1>2 DEF AT!BeforeModelCall
<1>4. f \in Frames /\ f.written = frame.written
  BY <1>2, HeardFits DEF TurnInv, TurnTypes
<1>5. frame' \in Frames /\ frame'.written = frame.written
  BY <1>3, <1>4 DEF Frames
<1>6. steps \in Seq(Steps) /\ (AT!UserKey(u) \in stored \/ ToCommit(steps, AT!UserKey(u)))
  BY <1>1, ObservesOrHas
<1>7. AT!Call("before", steps, u, Nil) \in CallsOfTurns
  BY <1>6 DEF AT!Call, CallsOfTurns
<1>8. pending' \in Seq(Events)
  BY <1>3 DEF TurnInv, TurnTypes
<1>9. PICK begun : begun = AT!Call("before", steps, u, Nil)
  OBVIOUS
<1>10. begun \in CallsOfTurns /\ doing' = begun
  BY <1>3, <1>7, <1>9
<1>11. AT!UserKey(u) \in stored \/ ToCommit(steps, AT!UserKey(u))
  BY <1>6
<1>12. UNCHANGED <<stored, dropped, missed, handed>> /\ raises' = raises
  BY <1>3
<1>. QED  BY <1>5, <1>8, <1>9, <1>10, <1>11, <1>12, CallKeeps

\* After the model was called the events of tools are committed.
LEMMA AfterKeeps == ASSUME TurnInv, NEW u \in Inputs, NEW o \in Outputs, AT!AfterModelCall(u, o) PROVE TurnInv'
<1>1. PICK steps : steps = AT!EvidenceSteps(pending)
  OBVIOUS
<1>2. /\ doing' = AT!Call("after", steps, u, o) /\ pending' = << >>
      /\ UNCHANGED <<frame, stored, raises, dropped, missed, handed>>
  BY <1>1 DEF AT!AfterModelCall
<1>3. pending \in Seq(Events) /\ frame \in Frames
  BY DEF TurnInv, TurnTypes
<1>4. steps = [i \in 1..Len(pending) |-> [does |-> "evidence", key |-> AT!ToolKey(pending[i])]]
  BY <1>1, <1>3 DEF AT!EvidenceSteps
<1>5. \A i \in 1..Len(pending) : [does |-> "evidence", key |-> AT!ToolKey(pending[i])] \in Steps
  BY <1>3 DEF Steps, AT!StoreKeys
<1>6. Len(pending) \in Nat
  BY <1>3
<1>7. steps \in Seq(Steps)
  BY <1>4, <1>5, <1>6
<1>8. AT!Call("after", steps, u, o) \in CallsOfTurns
  BY <1>7 DEF AT!Call, CallsOfTurns
<1>9. pending' \in Seq(Events)
  BY <1>2
<1>. QED  BY <1>2, <1>3, <1>8, <1>9, CallKeeps

\* What a response is worth was written by the session, or is to be committed.
LEMMA AssimilateKeeps == ASSUME TurnInv, AT!Assimilate PROVE TurnInv'
<1>1. ~AT!Idle /\ doing.op = "after" /\ doing \in CallsOfTurns /\ frame \in Frames
  BY DEF TurnInv, TurnTypes, AT!Assimilate
<1>2. PICK u \in Inputs : u = doing.input
  BY <1>1 DEF CallsOfTurns
<1>3. PICK o \in Outputs : o = doing.output
  BY <1>1 DEF CallsOfTurns
<1>4. PICK steps : steps = AT!ProposalSteps(frame, u, o)
  OBVIOUS
<1>5. PICK f : f = AT!Heard(frame, u, o)
  OBVIOUS
<1>6. /\ frame' = [f EXCEPT !.salience = TRUE] /\ doing' = AT!Call("keep", steps, u, o)
      /\ UNCHANGED <<pending, stored, raises, dropped, missed, handed>>
  BY <1>2, <1>3, <1>4, <1>5 DEF AT!Assimilate
<1>7. f \in Frames /\ f.written = frame.written
  BY <1>1, <1>5, HeardFits
<1>8. frame' \in Frames /\ frame'.written = frame.written
  BY <1>6, <1>7 DEF Frames
<1>9. /\ steps \in Seq(Steps)
      /\ \A i \in DOMAIN AT!Proposed(u, o) :
            LET key == AT!KeptKey(AT!Proposed(u, o)[i])
            IN  key \in frame.written \/ ToCommit(steps, key)
  BY <1>4, ProposalsAreMade
<1>10. \A i \in DOMAIN AT!Proposed(u, o) :
            LET key == AT!KeptKey(AT!Proposed(u, o)[i])
            IN  key \in stored \cup dropped \/ ToCommit(steps, key)
  BY <1>9 DEF TurnInv
<1>11. AT!Call("keep", steps, u, o) \in CallsOfTurns
  BY <1>9 DEF AT!Call, CallsOfTurns
<1>. QED  BY <1>6, <1>8, <1>10, <1>11, CallKeeps DEF TurnInv, TurnTypes

\* The missing steps of a turn are begun.
LEMMA FinalizeKeeps ==
    ASSUME TurnInv, NEW u \in Inputs \cup {Nil}, NEW o \in Outputs \cup {Nil}, AT!FinalizeTurn(u, o) PROVE TurnInv'
<1>1. PICK f : f = AT!Heard(frame, u, o)
  OBVIOUS
<1>2. PICK steps : steps = IF f.input # Nil /\ f.observed = Nil THEN AT!ObserveSteps(f, f.input) ELSE << >>
  OBVIOUS
<1>3. /\ frame' = [f EXCEPT !.context = @ \/ f.input # Nil]
      /\ doing' = AT!Call("finalize", steps, f.input, f.output)
      /\ UNCHANGED <<pending, stored, raises, dropped, missed, handed>>
  BY <1>1, <1>2 DEF AT!FinalizeTurn
<1>4. f \in Frames /\ f.written = frame.written
  BY <1>1, HeardFits DEF TurnInv, TurnTypes
<1>5. /\ frame' \in Frames /\ frame'.written = frame.written
      /\ f.input \in Inputs \cup {Nil} /\ f.output \in Outputs \cup {Nil}
  BY <1>3, <1>4 DEF Frames
<1>6. steps \in Seq(Steps)
  <2>1. f.input # Nil => AT!ObserveSteps(f, f.input) \in Seq(Steps)
    BY <1>5, ObservesOrHas
  <2>2. << >> \in Seq(Steps)
    OBVIOUS
  <2>. QED  BY <1>2, <2>1, <2>2
<1>7. AT!Call("finalize", steps, f.input, f.output) \in CallsOfTurns
  BY <1>5, <1>6 DEF AT!Call, CallsOfTurns
<1>. QED  BY <1>3, <1>5, <1>7, CallKeeps DEF TurnInv, TurnTypes

\* A turn is finalized with its response, or is complete.
LEMMA ResponseKeeps == ASSUME TurnInv, AT!FinalizeResponse PROVE TurnInv'
<1>1. /\ ~AT!Idle /\ doing.op = "finalize" /\ doing \in CallsOfTurns /\ frame \in Frames
      /\ UNCHANGED <<frame, pending, stored, raises, dropped, missed, handed>>
  BY DEF TurnInv, TurnTypes, AT!FinalizeResponse
<1>2. doing = [op |-> "finalize", todo |-> doing.todo, input |-> doing.input, output |-> doing.output]
      /\ doing.todo \in Seq(Steps) /\ doing.input \in Inputs \cup {Nil} /\ doing.output \in Outputs \cup {Nil}
  BY <1>1 DEF CallsOfTurns
<1>3. CASE doing.input # Nil /\ doing.output # Nil /\ ~frame.salience
  <2>1. doing' = AT!Call("after", doing.todo, doing.input, doing.output)
    BY <1>2, <1>3 DEF AT!FinalizeResponse, AT!Call
  <2>2. AT!Call("after", doing.todo, doing.input, doing.output) \in CallsOfTurns
    BY <1>2, <1>3 DEF AT!Call, CallsOfTurns
  <2>. QED  BY <1>1, <2>1, <2>2, CallKeeps DEF TurnInv, TurnTypes
<1>4. CASE doing' = Nil
  BY <1>1, <1>4 DEF TurnInv, TurnTypes, AT!Idle
<1>. QED  BY <1>3, <1>4 DEF AT!FinalizeResponse

\* A commit stores what was first to be committed; the rest remains.
LEMMA CommitKeeps == ASSUME TurnInv, AT!Commit PROVE TurnInv'
<1>1. /\ ~AT!Idle /\ doing \in CallsOfTurns /\ frame \in Frames /\ doing.todo # << >>
      /\ doing.todo \in Seq(Steps)
  BY DEF TurnInv, TurnTypes, AT!Commit, CallsOfTurns
<1>2. PICK step : step = Head(doing.todo)
  OBVIOUS
<1>3. PICK todo : todo = Tail(doing.todo)
  OBVIOUS
<1>4. /\ step \in Steps /\ todo \in Seq(Steps)
      /\ \A key : ToCommit(doing.todo, key) => step.key = key \/ ToCommit(todo, key)
  BY <1>1, <1>2, <1>3, OneLess
<1>5. /\ stored' = stored \cup {step.key} /\ dropped' = dropped \ {step.key}
      /\ frame' = CASE step.does = "observe"  -> [frame EXCEPT !.observed = step.key]
                    [] step.does = "keep"     -> [frame EXCEPT !.written = frame.written \cup {step.key}]
                    [] step.does = "evidence" -> frame
      /\ doing' = [doing EXCEPT !.todo = todo]
      /\ UNCHANGED <<pending, raises, missed, handed>>
  BY <1>2, <1>3 DEF AT!Commit
<1>6. /\ doing' \in CallsOfTurns /\ doing'.op = doing.op /\ doing'.input = doing.input
      /\ doing'.output = doing.output /\ doing'.todo = todo
  BY <1>1, <1>4, <1>5 DEF CallsOfTurns
<1>7. step.key \in AT!StoreKeys /\ step.does \in {"observe", "keep", "evidence"}
      /\ (step.does = "observe" => step.key \in SaidKeys)
  BY <1>4 DEF Steps, SaidKeys, AT!StoreKeys
<1>8. frame' \in Frames /\ frame'.written \subseteq frame.written \cup {step.key}
  BY <1>1, <1>5, <1>7 DEF Frames
<1>9. stored \cup dropped \cup {step.key} \subseteq stored' \cup dropped'
  BY <1>5
<1>10. TurnTypes'
  BY <1>5, <1>6, <1>7, <1>8 DEF TurnInv, TurnTypes
<1>11. frame'.written \subseteq stored' \cup dropped' /\ handed' \subseteq stored' \cup dropped'
  BY <1>5, <1>8, <1>9 DEF TurnInv
<1>12. doing.op = "before" => AT!UserKey(doing.input) \in stored' \/ ToCommit(todo, AT!UserKey(doing.input))
  BY <1>1, <1>4, <1>5 DEF TurnInv
<1>13. doing.op = "keep" =>
           \A i \in DOMAIN AT!Proposed(doing.input, doing.output) :
               LET key == AT!KeptKey(AT!Proposed(doing.input, doing.output)[i])
               IN  key \in stored' \cup dropped' \/ ToCommit(todo, key)
  BY <1>1, <1>4, <1>9 DEF TurnInv
<1>. QED  BY <1>6, <1>10, <1>11, <1>12, <1>13 DEF TurnInv, ToCommit

\* A call that returns has committed what it was about.
LEMMA ReturnKeeps == ASSUME TurnInv, AT!Return PROVE TurnInv'
<1>1. /\ ~AT!Idle /\ doing.todo = << >> /\ doing' = Nil /\ UNCHANGED <<frame, pending, stored, raises, dropped, missed>>
  BY DEF AT!Return
<1>2. TurnTypes'
  BY <1>1 DEF TurnInv, TurnTypes, AT!Idle
<1>3. \A key : ~ToCommit(doing.todo, key)
  BY <1>1 DEF ToCommit
<1>4. doing.op = "keep" => {AT!KeptKey(m) : m \in AT!SX!ToSet(AT!Proposed(doing.input, doing.output))} \subseteq stored \cup dropped
  BY <1>1, <1>3 DEF TurnInv, AT!SX!ToSet
<1>5. handed' \subseteq stored \cup dropped
  BY <1>4 DEF TurnInv, AT!Return
<1>. QED  BY <1>1, <1>2, <1>5 DEF TurnInv, AT!Idle

\* Every step of a session keeps the invariant.
LEMMA TurnsGoOn == ASSUME TurnInv, AT!Next PROVE TurnInv'
<1>1. TurnTypes /\ frame \in Frames /\ pending \in Seq(Events) /\ raises \in 0..MaxRaises /\ MaxRaises \in Nat
  BY TurnConstants DEF TurnInv, TurnTypes, AT!ConstantsFit
<1>2. ASSUME NEW u \in Inputs, AT!PrepareRaises(u)  PROVE TurnInv'
  <2>1. /\ AT!Idle /\ raises' = raises + 1 /\ raises < MaxRaises /\ frame' = AT!Heard(frame, u, Nil)
        /\ UNCHANGED <<pending, stored, doing, dropped, missed, handed>>
    BY <1>2 DEF AT!PrepareRaises
  <2>2. frame' \in Frames /\ frame'.written = frame.written
    BY <1>1, <2>1, HeardFits
  <2>3. raises' \in 0..MaxRaises
    BY <1>1, <2>1
  <2>. QED  BY <1>1, <2>1, <2>2, <2>3 DEF TurnInv, TurnTypes, AT!Idle
<1>3. ASSUME NEW e \in Events, AT!ObserveToolEvent(e)  PROVE TurnInv'
  <2>1. /\ AT!Idle /\ pending' = Append(pending, e) /\ UNCHANGED <<frame, stored, doing, raises, dropped, missed, handed>>
    BY <1>3 DEF AT!ObserveToolEvent
  <2>2. pending' \in Seq(Events)
    BY <1>1, <2>1
  <2>. QED  BY <1>1, <2>1, <2>2 DEF TurnInv, TurnTypes, AT!Idle
<1>4. ASSUME AT!Raise PROVE TurnInv'
  <2>1. /\ doing' = Nil /\ raises' = raises + 1 /\ raises < MaxRaises /\ UNCHANGED <<frame, pending, stored, dropped, handed>>
        /\ missed' \subseteq missed \cup Events
    BY <1>4 DEF AT!Raise
  <2>2. raises' \in 0..MaxRaises
    BY <1>1, <2>1
  <2>. QED  BY <1>1, <2>1, <2>2 DEF TurnInv, TurnTypes, AT!Idle
<1>5. ASSUME AT!ForgetElsewhere PROVE TurnInv'
  <2>1. /\ AT!Idle /\ UNCHANGED <<frame, pending, doing, raises, missed, handed>>
        /\ stored' \cup dropped' = stored \cup dropped
    BY <1>5 DEF AT!ForgetElsewhere
  <2>2. stored' \subseteq AT!StoreKeys /\ dropped' \subseteq AT!StoreKeys
    BY <1>1, <2>1 DEF TurnTypes
  <2>. QED  BY <1>1, <2>1, <2>2 DEF TurnInv, TurnTypes, AT!Idle
<1>. QED  BY <1>2, <1>3, <1>4, <1>5, BeforeKeeps, AfterKeeps, AssimilateKeeps, FinalizeKeeps, ResponseKeeps,
             CommitKeeps, ReturnKeeps DEF AT!Next

\* The other parts leave the turns alone.
LEMMA TurnsStand == ASSUME TurnInv, UNCHANGED tvars PROVE TurnInv'
BY DEF tvars, TurnInv, TurnTypes, AT!Idle

\* What the invariant says of what is stored.
LEMMA KeptWhileInv == ASSUME TurnInv PROVE AT!WorthIsKept /\ AT!TypeOK
BY DEF TurnInv, TurnTypes, AT!WorthIsKept, AT!TypeOK, Frames, SaidKeys, AT!SX!ToSet

\* Whatever a session does, whichever commits raise and whatever is forgotten in
\* between: what a completed response was found to be worth is stored or was
\* forgotten since, and when before_model_call returns the user's turn is stored
\* (AgentTurn.tla).
THEOREM TurnsAreAlwaysKept == MCSpec => TurnsAreKept /\ []AT!TypeOK
<1>1. MCInit => TurnInv
  BY TurnsStart DEF MCInit
<1>2. TurnInv /\ [MCNext]_<<part, vars, lvars, svars, rvars, cvars, tvars, qvars, wvars>> => TurnInv'
  <2>1. ASSUME TurnInv, MCNext PROVE AT!Next \/ UNCHANGED tvars
    BY <2>1 DEF MCNext
  <2>. QED  BY <2>1, TurnsGoOn, TurnsStand
<1>3. TurnInv => [~AT!Idle /\ doing.op = "before" /\ AT!Return => AT!UserKey(doing.input) \in stored]_AT!tvars
  <2>1. SUFFICES ASSUME TurnInv, ~AT!Idle, doing.op = "before", AT!Return PROVE AT!UserKey(doing.input) \in stored
    OBVIOUS
  <2>2. \A key : ~ToCommit(doing.todo, key)
    BY <2>1 DEF ToCommit, AT!Return
  <2>. QED  BY <2>1, <2>2 DEF TurnInv
<1>. QED  BY <1>1, <1>2, <1>3, KeptWhileInv, PTL DEF MCSpec, TurnsAreKept, AT!UserTurnIsStored

-----------------------------------------------------------------------------
(* Agents that exchange beliefs *)

\* Of finitely many in an order one comes first.
LEMMA OneIsFirst ==
    ASSUME NEW S, IsFiniteSet(S), S # {}, NEW R, Ordered(R, S)
    PROVE  \E x \in S : \A y \in S : y # x => <<x, y>> \in R
<1>1. /\ Cardinality(S) \in Nat
      /\ \A x \in S : Place(R, S, x) \in 0..Cardinality(S) - 1
      /\ \A x, y \in S : <<x, y>> \in R => Place(R, S, x) < Place(R, S, y)
      /\ \A i \in 1..Cardinality(S) : \E x \in S : Place(R, S, x) = i - 1
  BY PlacesGrow
<1>2. 1 \in 1..Cardinality(S)
  <2>1. PICK x \in S : TRUE
    OBVIOUS
  <2>2. Place(R, S, x) \in 0..Cardinality(S) - 1
    BY <1>1
  <2>. QED  BY <1>1, <2>2
<1>3. PICK x \in S : Place(R, S, x) = 0
  BY <1>1, <1>2
<1>4. ASSUME NEW y \in S, y # x PROVE <<x, y>> \in R
  <2>1. Place(R, S, y) \in Nat
    BY <1>1
  <2>2. ~(Place(R, S, y) < Place(R, S, x))
    BY <1>3, <2>1
  <2>. QED  BY <1>1, <1>4, <2>2 DEF Ordered
<1>. QED  BY <1>4

\* Of finitely many numbers with a rank one comes first: it ranks highest, and
\* of several such it is the least.
LEMMA OneRanksFirst ==
    ASSUME NEW S, IsFiniteSet(S), S # {}, S \subseteq Int, NEW rank \in [S -> Int]
    PROVE  \E x \in S : \A y \in S : rank[x] > rank[y] \/ (rank[x] = rank[y] /\ x <= y)
<1>. DEFINE R == {e \in S \X S : rank[e[1]] > rank[e[2]] \/ (rank[e[1]] = rank[e[2]] /\ e[1] < e[2])}
<1>1. \A x, y \in S : <<x, y>> \in R <=> rank[x] > rank[y] \/ (rank[x] = rank[y] /\ x < y)
  OBVIOUS
<1>2. \A x \in S : x \in Int
  OBVIOUS
<1>. HIDE DEF R
<1>3. Ordered(R, S)
  <2>1. \A a \in S : <<a, a>> \notin R
    BY <1>1, <1>2
  <2>2. \A a, b \in S : a # b => <<a, b>> \in R \/ <<b, a>> \in R
    BY <1>1, <1>2
  <2>3. \A a, b, c \in S : <<a, b>> \in R /\ <<b, c>> \in R => <<a, c>> \in R
    BY <1>1, <1>2
  <2>. QED  BY <2>1, <2>2, <2>3 DEF Ordered
<1>4. PICK x \in S : \A y \in S : y # x => <<x, y>> \in R
  BY <1>3, OneIsFirst
<1>5. \A y \in S : rank[x] > rank[y] \/ (rank[x] = rank[y] /\ x <= y)
  <2>1. TAKE y \in S
  <2>2. rank[x] = rank[x] /\ x <= x
    BY <1>2
  <2>3. CASE y = x
    BY <2>2, <2>3
  <2>4. CASE y # x
    <3>1. rank[x] > rank[y] \/ (rank[x] = rank[y] /\ x < y)
      BY <1>1, <1>4, <2>4
    <3>. QED  BY <1>2, <3>1
  <2>. QED  BY <2>3, <2>4
<1>. QED  BY <1>5

SyncTypes ==
    /\ registered \subseteq Agents /\ caughtUp \subseteq registered /\ calls \in Nat
    /\ rely \in [Agents -> 0..MaxRely]
    /\ belief \in [Agents -> [Subjects -> BS!Entries \cup {Nil}]]
    /\ vclock \in [Agents -> [Subjects -> Nat]]

\* Who has caught up has the newest beliefs; who is not registered has none.
SyncInv ==
    /\ SyncTypes
    /\ \A a \in Agents \ registered, k \in Subjects : belief[a][k] = Nil
    /\ PullsCatchUp

\* Cardinality is the same operator in an instance.
LEMMA SyncSets == ASSUME NEW S PROVE BS!Cardinality(S) = Cardinality(S)
BY DEF BS!Cardinality, Cardinality

\* A list names agents in some order.
LEMMA ListsAre ==
    ASSUME NEW list \in BS!Lists
    PROVE  /\ list \in Seq(Agents) /\ DOMAIN list = 1..Len(list) /\ Len(list) \in Nat
           /\ IsFiniteSet(DOMAIN list) /\ DOMAIN list \subseteq Int
           /\ \A x : x \in BS!SX!Range(list) <=> \E i \in DOMAIN list : list[i] = x
<1>1. PICK S \in SUBSET Agents : list \in BS!SX!SetToSeqs(S)
  BY DEF BS!Lists
<1>2. PICK n : n = BS!SX!Cardinality(S)
  OBVIOUS
<1>3. list \in [1..n -> S]
  BY <1>1, <1>2 DEF BS!SX!SetToSeqs
<1>4. n \in Nat
  <2>1. IsFiniteSet(S)
    BY SyncConstants, FS_Subset DEF BS!ConstantsFit, BS!IsFiniteSet, IsFiniteSet
  <2>2. n = Cardinality(S)
    BY <1>2 DEF BS!SX!Cardinality, Cardinality
  <2>. QED  BY <2>1, <2>2, FS_CardinalityType
<1>5. list \in Seq(Agents) /\ Len(list) = n /\ DOMAIN list = 1..n
  BY <1>3, <1>4
<1>6. IsFiniteSet(1..n)
  BY <1>4, FS_Interval
<1>. QED  BY <1>4, <1>5, <1>6 DEF BS!SX!Range

Beliefs == BS!Entries \cup {Nil}

MadeOf(e) == IF e = Nil THEN 0 ELSE e.made

\* An entry is newer than another if it was made later, no entry being the oldest.
LEMMA NewerIsLater ==
    ASSUME NEW x \in Beliefs, NEW y \in Beliefs
    PROVE  /\ MadeOf(x) \in Nat /\ (x # Nil <=> MadeOf(x) >= 1)
           /\ BS!Newer(x, y) <=> MadeOf(x) > MadeOf(y)
<1>1. Nil \notin BS!Entries /\ MaxMade \in Nat
  BY SyncConstants DEF BS!ConstantsFit
<1>2. \A e \in BS!Entries : e.made \in 1..MaxMade
  BY DEF BS!Entries
<1>3. \A e \in Beliefs : MadeOf(e) \in Nat /\ (e # Nil <=> MadeOf(e) >= 1)
  BY <1>1, <1>2 DEF Beliefs, MadeOf
<1>4. x # Nil => MadeOf(x) = x.made
  BY DEF MadeOf
<1>5. y # Nil => MadeOf(y) = y.made
  BY DEF MadeOf
<1>6. y = Nil => MadeOf(y) = 0
  BY DEF MadeOf
<1>7. MadeOf(x) \in Nat /\ MadeOf(y) \in Nat /\ (x # Nil <=> MadeOf(x) >= 1) /\ (y # Nil <=> MadeOf(y) >= 1)
  BY <1>3
<1>8. CASE x = Nil
  BY <1>7, <1>8 DEF BS!Newer
<1>9. CASE x # Nil /\ y = Nil
  BY <1>6, <1>7, <1>9 DEF BS!Newer
<1>10. CASE x # Nil /\ y # Nil
  BY <1>4, <1>5, <1>7, <1>10 DEF BS!Newer
<1>. QED  BY <1>7, <1>8, <1>9, <1>10

\* Taking what is newer than what one has by then, of one offer after the other.
Takes(I, offered, mine, taken, new) ==
    /\ IsFiniteSet(I) /\ I \subseteq Nat /\ mine \in Beliefs /\ offered \in [I -> Beliefs] /\ taken \in SUBSET I
    /\ \A i \in I : i \in taken <=> BS!Newer(offered[i], mine) /\ \A j \in I : j < i => BS!Newer(offered[i], offered[j])
    /\ taken = {} => new = mine
    /\ taken # {} => \E i \in taken : new = offered[i] /\ \A j \in taken : j <= i

\* ... ends with the newest.
LEMMA NewestIsTaken ==
    ASSUME NEW I, NEW offered, NEW mine, NEW taken, NEW new, Takes(I, offered, mine, taken, new)
    PROVE  /\ new = mine \/ \E i \in I : new = offered[i] /\ new # Nil
           /\ MadeOf(new) >= MadeOf(mine)
           /\ \A i \in I : MadeOf(new) >= MadeOf(offered[i])
<1>. USE DEF Takes
<1>1. PICK made \in [I -> Nat] : made = [i \in I |-> MadeOf(offered[i])]
  <2>1. \A i \in I : MadeOf(offered[i]) \in Nat
    BY NewerIsLater
  <2>. QED  BY <2>1
<1>2. PICK m \in Nat : m = MadeOf(mine)
  BY NewerIsLater
<1>3. \A i \in I : /\ (BS!Newer(offered[i], mine) <=> made[i] > m)
                   /\ offered[i] # Nil <=> made[i] >= 1
                   /\ \A j \in I : BS!Newer(offered[i], offered[j]) <=> made[i] > made[j]
  BY <1>1, <1>2, NewerIsLater
<1>4. \A i : i \in taken <=> i \in I /\ made[i] > m /\ \A j \in I : j < i => made[i] > made[j]
  BY <1>3
<1>5. CASE \A i \in I : made[i] <= m
  <2>1. taken = {}
    <3>1. ASSUME NEW i \in taken PROVE FALSE
      <4>1. i \in I /\ made[i] > m
        BY <1>4, <3>1
      <4>2. made[i] \in Nat /\ made[i] <= m
        BY <1>5, <4>1
      <4>. QED  BY <4>1, <4>2
    <3>. QED  BY <3>1
  <2>2. new = mine
    BY <2>1
  <2>3. \A i \in I : MadeOf(offered[i]) = made[i] /\ made[i] <= m /\ made[i] \in Nat
    BY <1>1, <1>5
  <2>4. MadeOf(new) = m /\ m >= m
    BY <1>2, <2>2
  <2>. QED  BY <1>2, <2>2, <2>3, <2>4
<1>6. CASE \E i \in I : ~(made[i] <= m)
  <2>1. PICK x \in I : \A y \in I : made[x] > made[y] \/ (made[x] = made[y] /\ x <= y)
    <3>1. made \in [I -> Int] /\ I \subseteq Int /\ I # {}
      BY <1>6
    <3>. QED  BY <3>1, OneRanksFirst
  <2>2. made[x] > m
    BY <1>6, <2>1
  <2>3. x \in taken
    BY <1>4, <2>1, <2>2
  <2>4. \A j \in taken : j <= x
    <3>1. SUFFICES ASSUME NEW j \in taken, ~(j <= x) PROVE FALSE
      OBVIOUS
    <3>2. j \in I /\ x < j /\ made[j] > made[x]
      BY <1>4, <3>1
    <3>. QED  BY <2>1, <3>2
  <2>5. \A i \in taken : (\A j \in taken : j <= i) => i = x
    BY <1>4, <2>3, <2>4
  <2>7. new = offered[x]
    BY <2>3, <2>5
  <2>8. MadeOf(new) = made[x] /\ new # Nil
    BY <1>1, <1>3, <2>2, <2>7
  <2>9. \A i \in I : made[x] >= made[i] /\ made[i] = MadeOf(offered[i])
    BY <1>1, <2>1
  <2>10. made[x] >= m
    <3>1. made[x] \in Nat
      BY <2>1
    <3>. QED  BY <2>2, <3>1
  <2>11. MadeOf(new) >= MadeOf(mine)
    BY <1>2, <2>8, <2>10
  <2>12. \A i \in I : MadeOf(new) >= MadeOf(offered[i])
    BY <2>8, <2>9
  <2>. QED  BY <2>1, <2>7, <2>8, <2>11, <2>12
<1>. QED  BY <1>5, <1>6

\* What a pull makes of the puller's beliefs, and what it leaves.
LEMMA PullIs ==
    ASSUME SyncTypes, NEW a \in Agents, NEW sources \in BS!Lists, NEW since \in 1..MaxMade, BS!Pull(a, sources, since)
    PROVE  /\ a \in registered /\ UNCHANGED <<registered, rely>> /\ calls' \in Nat
           /\ caughtUp' = IF since = 1 /\ registered \ {a} \subseteq BS!SX!Range(sources)
                          THEN caughtUp \cup {a} ELSE caughtUp
           /\ belief' \in [Agents -> [Subjects -> Beliefs]] /\ vclock' \in [Agents -> [Subjects -> Nat]]
           /\ \A b \in Agents \ {a} : belief'[b] = belief[b]
           /\ \A k \in Subjects :
                 /\ \/ belief'[a][k] = belief[a][k]
                    \/ \E b \in BS!SX!Range(sources) : belief'[a][k] = belief[b][k] /\ belief[b][k] # Nil
                 /\ MadeOf(belief'[a][k]) >= MadeOf(belief[a][k])
                 /\ since = 1 => \A b \in BS!SX!Range(sources) : MadeOf(belief'[a][k]) >= MadeOf(belief[b][k])
<1>. DEFINE I == DOMAIN sources
            offered(i, k) == IF BS!Holds(sources[i], k) /\ belief[sources[i]][k].made >= since
                             THEN belief[sources[i]][k] ELSE Nil
            taken(k) == {i \in I : /\ BS!Newer(offered(i, k), belief[a][k])
                                   /\ \A j \in 1..i - 1 : BS!Newer(offered(i, k), offered(j, k))}
            after(k) == IF taken(k) = {} THEN belief[a][k]
                        ELSE offered(CHOOSE i \in taken(k) : \A j \in taken(k) : j <= i, k)
<1>1. /\ sources \in Seq(Agents) /\ I = 1..Len(sources) /\ Len(sources) \in Nat
      /\ IsFiniteSet(I) /\ \A x : x \in BS!SX!Range(sources) <=> \E i \in I : sources[i] = x
  BY ListsAre
<1>2. /\ a \in registered /\ UNCHANGED <<registered, rely>> /\ calls' = calls + 1
      /\ caughtUp' = IF since = 1 /\ registered \ {a} \subseteq BS!SX!Range(sources)
                     THEN caughtUp \cup {a} ELSE caughtUp
      /\ belief' = [belief EXCEPT ![a] = [k \in Subjects |-> after(k)]]
      /\ vclock' = [vclock EXCEPT ![a] = [k \in Subjects |-> vclock[a][k] + BS!Cardinality(taken(k))]]
  BY DEF BS!Pull, BS!Call
<1>. HIDE DEF after, taken
<1>3. ASSUME NEW k \in Subjects
      PROVE  /\ \/ after(k) = belief[a][k]
                \/ \E b \in BS!SX!Range(sources) : after(k) = belief[b][k] /\ belief[b][k] # Nil
             /\ MadeOf(after(k)) >= MadeOf(belief[a][k]) /\ after(k) \in Beliefs
             /\ since = 1 => \A b \in BS!SX!Range(sources) : MadeOf(after(k)) >= MadeOf(belief[b][k])
             /\ BS!Cardinality(taken(k)) \in Nat
  <2>1. \A b \in Agents : belief[b][k] \in Beliefs
    BY DEF SyncTypes, Beliefs
  <2>2. \A i \in I : sources[i] \in Agents
    BY <1>1
  <2>3. \A i \in I : offered(i, k) \in Beliefs /\ (offered(i, k) # Nil => offered(i, k) = belief[sources[i]][k])
    BY <2>1, <2>2 DEF Beliefs
  <2>4. PICK f \in [I -> Beliefs] : f = [i \in I |-> offered(i, k)]
    BY <2>3
  <2>5. \A i \in I : f[i] = offered(i, k) /\ \A j : j \in 1..i - 1 <=> j \in I /\ j < i
    BY <1>1, <2>4
  <2>6. taken(k) = {i \in I : BS!Newer(f[i], belief[a][k]) /\ \A j \in I : j < i => BS!Newer(f[i], f[j])}
    <3>. HIDE DEF offered, I
    <3>. QED  BY <2>5 DEF taken
  <2>7. PICK new : new = after(k)
    OBVIOUS
  <2>8. PICK t : t = taken(k)
    OBVIOUS
  <2>9. /\ t = {} => new = belief[a][k]
        /\ t # {} => \E i \in t : new = f[i] /\ \A j \in t : j <= i
    <3>1. t \subseteq I /\ IsFiniteSet(t) /\ \A i \in t : i \in Int
      BY <1>1, <2>6, <2>8, FS_Subset
    <3>2. ASSUME t # {} PROVE \E i \in t : \A j \in t : j <= i
      <4>1. PICK g \in [t -> Int] : g = [i \in t |-> i]
        BY <3>1
      <4>2. PICK x \in t : \A y \in t : g[x] > g[y] \/ (g[x] = g[y] /\ x <= y)
        BY <3>1, <3>2, OneRanksFirst
      <4>3. \A y \in t : y <= x
        BY <3>1, <4>1, <4>2
      <4>. QED  BY <4>3
    <3>3. PICK last : last = CHOOSE i \in t : \A j \in t : j <= i
      OBVIOUS
    <3>4. t # {} => last \in t /\ \A j \in t : j <= last
      BY <3>2, <3>3
    <3>5. new = IF t = {} THEN belief[a][k] ELSE offered(last, k)
      BY <2>7, <2>8, <3>3 DEF after
    <3>. HIDE DEF offered, I
    <3>. QED  BY <2>5, <3>1, <3>4, <3>5
  <2>10. /\ new = belief[a][k] \/ \E i \in I : new = f[i] /\ new # Nil
         /\ MadeOf(new) >= MadeOf(belief[a][k])
         /\ \A i \in I : MadeOf(new) >= MadeOf(f[i])
    <3>1. PICK J : J = I
      OBVIOUS
    <3>2. PICK mine : mine = belief[a][k]
      OBVIOUS
    <3>3. IsFiniteSet(J) /\ J \subseteq Nat /\ mine \in Beliefs /\ f \in [J -> Beliefs] /\ t \in SUBSET J
      BY <1>1, <2>1, <2>6, <2>8, <3>1, <3>2
    <3>4. \A i \in J : i \in t <=> BS!Newer(f[i], mine) /\ \A j \in J : j < i => BS!Newer(f[i], f[j])
      BY <2>6, <2>8, <3>1, <3>2
    <3>5. /\ t = {} => new = mine
          /\ t # {} => \E i \in t : new = f[i] /\ \A j \in t : j <= i
      BY <2>9, <3>2
    <3>6. /\ new = mine \/ \E i \in J : new = f[i] /\ new # Nil
          /\ MadeOf(new) >= MadeOf(mine)
          /\ \A i \in J : MadeOf(new) >= MadeOf(f[i])
      <4>1. Takes(J, f, mine, t, new)
        BY <3>3, <3>4, <3>5 DEF Takes
      <4>. QED  BY <4>1, NewestIsTaken
    <3>. QED  BY <3>1, <3>2, <3>6
  <2>11. new = belief[a][k] \/ \E b \in BS!SX!Range(sources) : new = belief[b][k] /\ belief[b][k] # Nil
    <3>. HIDE DEF offered, I
    <3>. QED  BY <1>1, <2>3, <2>5, <2>10
  <2>12. new \in Beliefs
    <3>1. \A b \in BS!SX!Range(sources) : b \in Agents
      BY <1>1, <2>2
    <3>. QED  BY <2>1, <2>11, <3>1
  <2>13. ASSUME since = 1, NEW b \in BS!SX!Range(sources)  PROVE MadeOf(new) >= MadeOf(belief[b][k])
    <3>1. PICK i \in I : sources[i] = b
      BY <1>1, <2>13
    <3>2. belief[b][k] \in Beliefs
      BY <2>1, <2>2, <3>1
    <3>3. belief[b][k] # Nil => belief[b][k].made >= 1
      BY <3>2, NewerIsLater DEF MadeOf
    <3>4. offered(i, k) = belief[b][k]
      BY <2>13, <3>1, <3>3 DEF BS!Holds
    <3>. QED  BY <2>5, <2>10, <3>4
  <2>14. BS!Cardinality(t) \in Nat
    <3>1. IsFiniteSet(t)
      BY <1>1, <2>6, <2>8, FS_Subset
    <3>. QED  BY <3>1, SyncSets, FS_CardinalityType
  <2>. QED  BY <2>7, <2>8, <2>10, <2>11, <2>12, <2>13, <2>14
<1>4. belief'[a] = [k \in Subjects |-> after(k)] /\ \A b \in Agents \ {a} : belief'[b] = belief[b]
  BY <1>2 DEF SyncTypes
<1>5. belief' \in [Agents -> [Subjects -> Beliefs]]
  <2>1. [k \in Subjects |-> after(k)] \in [Subjects -> Beliefs]
    BY <1>3
  <2>. QED  BY <1>2, <2>1 DEF SyncTypes, Beliefs
<1>6. vclock' \in [Agents -> [Subjects -> Nat]]
  <2>1. \A k \in Subjects : vclock[a][k] + BS!Cardinality(taken(k)) \in Nat
    BY <1>3 DEF SyncTypes
  <2>2. [k \in Subjects |-> vclock[a][k] + BS!Cardinality(taken(k))] \in [Subjects -> Nat]
    BY <2>1
  <2>. QED  BY <1>2, <2>2 DEF SyncTypes
<1>7. calls' \in Nat
  BY <1>2 DEF SyncTypes
<1>8. \A k \in Subjects : belief'[a][k] = after(k)
  BY <1>4
<1>. QED  BY <1>2, <1>3, <1>4, <1>5, <1>6, <1>7, <1>8

\* Whoever wins a vote is one of those with most votes.
LEMMA WinnerLeads ==
    ASSUME SyncTypes, NEW voters \in BS!Lists, BS!SX!Range(voters) \subseteq registered,
           NEW k \in Subjects, BS!Disputed(voters, k)
    PROVE  \E i \in BS!Ballot(voters, k) :
              /\ BS!Winner(voters, k) = belief[voters[i]][k]
              /\ \A j \in BS!Ballot(voters, k) : BS!Votes(voters, k, belief[voters[i]][k].value)
                                                   >= BS!Votes(voters, k, belief[voters[j]][k].value)
<1>1. /\ voters \in Seq(Agents) /\ DOMAIN voters = 1..Len(voters) /\ Len(voters) \in Nat
      /\ IsFiniteSet(DOMAIN voters) /\ DOMAIN voters \subseteq Int
      /\ \A x : x \in BS!SX!Range(voters) <=> \E i \in DOMAIN voters : voters[i] = x
  BY ListsAre
<1>2. PICK ballot : ballot = BS!Ballot(voters, k)
  OBVIOUS
<1>3. ballot \subseteq DOMAIN voters /\ IsFiniteSet(ballot) /\ ballot \subseteq Int /\ ballot # {}
  BY <1>1, <1>2, FS_Subset DEF BS!Ballot, BS!Disputed
<1>4. PICK entry : entry = [i \in ballot |-> belief[voters[i]][k]]
  OBVIOUS
<1>5. \A i \in ballot : entry[i] = belief[voters[i]][k] /\ entry[i] \in BS!Entries /\ voters[i] \in registered
  BY <1>1, <1>2, <1>3, <1>4 DEF BS!Ballot, BS!Holds, SyncTypes
<1>6. ASSUME NEW v PROVE BS!Votes(voters, k, v) \in Nat
  <2>1. {i \in BS!Ballot(voters, k) : belief[voters[i]][k].value = v} \subseteq ballot
    BY <1>2
  <2>2. IsFiniteSet({i \in BS!Ballot(voters, k) : belief[voters[i]][k].value = v})
    BY <1>3, <2>1, FS_Subset
  <2>. QED  BY <2>2, FS_CardinalityType, SyncSets DEF BS!Votes
<1>7. PICK votes \in [ballot -> Int] : votes = [i \in ballot |-> BS!Votes(voters, k, entry[i].value)]
  <2>1. \A i \in ballot : BS!Votes(voters, k, entry[i].value) \in Int
    BY <1>6
  <2>. QED  BY <2>1
<1>8. PICK leading : leading = {i \in ballot : \A j \in ballot : votes[i] >= votes[j]}
  OBVIOUS
<1>9. leading \subseteq ballot /\ IsFiniteSet(leading) /\ leading \subseteq Int
  BY <1>3, <1>8, FS_Subset
<1>10. leading # {}
  <2>1. PICK x \in ballot : \A y \in ballot : votes[x] > votes[y] \/ (votes[x] = votes[y] /\ x <= y)
    BY <1>3, OneRanksFirst
  <2>2. \A y \in ballot : votes[x] >= votes[y]
    BY <2>1
  <2>. QED  BY <1>8, <2>2
<1>11. PICK tied \in BOOLEAN : tied <=> \E i, j \in leading : entry[i].value # entry[j].value
  OBVIOUS
<1>12. \A i \in ballot : BS!Behind(voters, entry[i]) \in Int
  <2>1. TAKE i \in ballot
  <2>2. voters[Len(voters)] \in Agents
    BY <1>1, <1>3
  <2>3. \A a \in Agents : rely[a] \in Int
    BY SyncConstants DEF SyncTypes, BS!ConstantsFit
  <2>4. registered \subseteq Agents
    BY DEF SyncTypes
  <2>. QED  BY <2>2, <2>3, <2>4 DEF BS!Behind
<1>13. PICK rank \in [leading -> Int] : rank = [i \in leading |-> IF tied THEN BS!Behind(voters, entry[i]) ELSE 0]
  <2>1. \A i \in leading : (IF tied THEN BS!Behind(voters, entry[i]) ELSE 0) \in Int
    BY <1>9, <1>12
  <2>. QED  BY <2>1
<1>. DEFINE First(i) == CHOOSE n \in leading : /\ entry[n].value = entry[i].value
                                               /\ \A m \in leading : entry[m].value = entry[i].value => n <= m
<1>14. ASSUME NEW i \in leading PROVE First(i) \in Int
  <2>1. PICK S : S = {m \in leading : entry[m].value = entry[i].value}
    OBVIOUS
  <2>2. IsFiniteSet(S) /\ S # {} /\ S \subseteq Int /\ S \subseteq leading
    BY <1>9, <2>1, FS_Subset
  <2>3. PICK zero \in [S -> Int] : zero = [m \in S |-> 0]
    <3>1. \A m \in S : 0 \in Int
      OBVIOUS
    <3>2. [m \in S |-> 0] \in [S -> Int]
      BY <3>1
    <3>. QED  BY <3>2
  <2>4. PICK n \in S : \A m \in S : zero[n] > zero[m] \/ (zero[n] = zero[m] /\ n <= m)
    BY <2>2, OneRanksFirst
  <2>5. \A m \in S : n <= m
    BY <2>3, <2>4
  <2>6. n \in leading /\ entry[n].value = entry[i].value /\ \A m \in leading : entry[m].value = entry[i].value => n <= m
    BY <2>1, <2>5
  <2>7. First(i) \in leading
    BY <2>6
  <2>. QED  BY <1>9, <2>7
<1>15. PICK first \in [leading -> Int] : first = [i \in leading |-> First(i)]
  BY <1>14
<1>. DEFINE R == {e \in leading \X leading : \/ rank[e[1]] > rank[e[2]]
                                             \/ rank[e[1]] = rank[e[2]] /\ first[e[1]] < first[e[2]]
                                             \/ rank[e[1]] = rank[e[2]] /\ first[e[1]] = first[e[2]] /\ e[1] < e[2]}
<1>16. \A i, j \in leading : <<i, j>> \in R <=> \/ rank[i] > rank[j]
                                                \/ rank[i] = rank[j] /\ first[i] < first[j]
                                                \/ rank[i] = rank[j] /\ first[i] = first[j] /\ i < j
  OBVIOUS
<1>17. \A i \in leading : i \in Int /\ rank[i] \in Int /\ first[i] \in Int
  BY <1>9
<1>. HIDE DEF R, First
<1>18. Ordered(R, leading)
  <2>1. \A a \in leading : <<a, a>> \notin R
    BY <1>16, <1>17
  <2>2. \A a, b \in leading : a # b => <<a, b>> \in R \/ <<b, a>> \in R
    BY <1>16, <1>17
  <2>3. \A a, b, c \in leading : <<a, b>> \in R /\ <<b, c>> \in R => <<a, c>> \in R
    BY <1>16, <1>17
  <2>. QED  BY <2>1, <2>2, <2>3 DEF Ordered
<1>19. PICK x \in leading : \A y \in leading : y # x => <<x, y>> \in R
  BY <1>9, <1>10, <1>18, OneIsFirst
<1>. DEFINE Better(i, j) == \/ rank[i] > rank[j]
                            \/ rank[i] = rank[j] /\ (first[i] < first[j] \/ (first[i] = first[j] /\ i <= j))
<1>20. \A y \in leading : Better(x, y)
  <2>1. TAKE y \in leading
  <2>2. CASE y = x
    BY <1>17, <2>2
  <2>3. CASE y # x
    <3>1. <<x, y>> \in R
      BY <1>19, <2>3
    <3>2. \/ rank[x] > rank[y]
          \/ rank[x] = rank[y] /\ first[x] < first[y]
          \/ rank[x] = rank[y] /\ first[x] = first[y] /\ x < y
      BY <1>16, <3>1
    <3>3. first[x] = first[y] /\ x < y => x <= y
      BY <1>17
    <3>. QED  BY <3>2, <3>3
  <2>. QED  BY <2>2, <2>3
<1>21. BS!Winner(voters, k) = belief[voters[CHOOSE i \in leading : \A j \in leading : Better(i, j)]][k]
  <2>. DEFINE lead == {i \in BS!Ballot(voters, k) : \A j \in BS!Ballot(voters, k) :
                       BS!Votes(voters, k, belief[voters[i]][k].value) >= BS!Votes(voters, k, belief[voters[j]][k].value)}
              Tied == \E i, j \in lead : belief[voters[i]][k].value # belief[voters[j]][k].value
              FirstOf(i) == CHOOSE n \in lead :
                                /\ belief[voters[n]][k].value = belief[voters[i]][k].value
                                /\ \A m \in lead : belief[voters[m]][k].value = belief[voters[i]][k].value => n <= m
              RankOf(i) == IF Tied THEN BS!Behind(voters, belief[voters[i]][k]) ELSE 0
              BetterThan(i, j) == \/ RankOf(i) > RankOf(j)
                                  \/ RankOf(i) = RankOf(j) /\ (FirstOf(i) < FirstOf(j) \/ (FirstOf(i) = FirstOf(j) /\ i <= j))
  <2>0. BS!Winner(voters, k) = belief[voters[CHOOSE i \in lead : \A j \in lead : BetterThan(i, j)]][k]
    BY DEF BS!Winner
  <2>1. lead = leading
    BY <1>2, <1>5, <1>7, <1>8
  <2>. HIDE DEF lead
  <2>2. Tied <=> tied
    BY <1>5, <1>9, <1>11, <2>1
  <2>. HIDE DEF Tied
  <2>3. BS!Winner(voters, k) = belief[voters[CHOOSE i \in leading : \A j \in leading : BetterThan(i, j)]][k]
    <3>. HIDE DEF BetterThan
    <3>. QED  BY <2>0, <2>1
  <2>4. \A i \in leading : RankOf(i) = rank[i] /\ FirstOf(i) = first[i]
    <3>1. TAKE i \in leading
    <3>2. RankOf(i) = rank[i]
      BY <1>5, <1>9, <1>13, <2>2
    <3>3. FirstOf(i) = First(i)
      <4>1. \A n \in leading : entry[n].value = belief[voters[n]][k].value
        BY <1>5, <1>9
      <4>2. entry[i].value = belief[voters[i]][k].value
        BY <4>1
      <4>. QED  BY <2>1, <4>1, <4>2 DEF First
    <3>. QED  BY <1>15, <3>2, <3>3
  <2>. HIDE DEF RankOf, FirstOf
  <2>5. \A i, j \in leading : BetterThan(i, j) <=> Better(i, j)
    BY <2>4
  <2>. HIDE DEF BetterThan, Better
  <2>. QED  BY <2>3, <2>5
<1>. HIDE DEF Better
<1>22. PICK w : w = CHOOSE i \in leading : \A j \in leading : Better(i, j)
  OBVIOUS
<1>23. w \in leading
  BY <1>20, <1>22
<1>24. w \in ballot /\ \A j \in ballot : votes[w] >= votes[j]
  BY <1>8, <1>23
<1>25. BS!Winner(voters, k) = belief[voters[w]][k]
  BY <1>21, <1>22
<1>26. \A j \in ballot : votes[j] = BS!Votes(voters, k, belief[voters[j]][k].value)
  BY <1>5, <1>7
<1>. QED  BY <1>2, <1>24, <1>25, <1>26

\* When a belief was made, as the property says it and as the proofs do.
LEMMA MadeIs == ASSUME NEW a, NEW k PROVE BS!Made(a, k) = MadeOf(belief[a][k])
BY DEF BS!Made, MadeOf, BS!Holds

\* Beliefs that change hands while nobody has caught up.
LEMMA ExchangeKeeps ==
    ASSUME SyncInv, registered \subseteq registered', registered' \subseteq Agents, caughtUp' = {}, calls' \in Nat,
           rely' \in [Agents -> 0..MaxRely],
           belief' \in [Agents -> [Subjects -> BS!Entries \cup {Nil}]],
           vclock' \in [Agents -> [Subjects -> Nat]],
           \A a \in Agents \ registered : belief'[a] = belief[a]
    PROVE  SyncInv'
<1>1. SyncTypes'
  BY DEF SyncTypes
<1>2. PullsCatchUp'
  BY DEF PullsCatchUp, BS!PullsCatchUp
<1>. QED  BY <1>1, <1>2 DEF SyncInv

\* Nobody holds a belief at first.
LEMMA SyncStarts == ASSUME BS!Init PROVE SyncInv
<1>1. /\ registered = {} /\ rely = [a \in Agents |-> 0] /\ belief = [a \in Agents |-> [k \in Subjects |-> Nil]]
      /\ vclock = [a \in Agents |-> [k \in Subjects |-> 0]] /\ calls = 0 /\ caughtUp = {}
  BY DEF BS!Init
<1>2. 0 \in 0..MaxRely
  BY SyncConstants DEF BS!ConstantsFit
<1>3. SyncTypes
  BY <1>1, <1>2 DEF SyncTypes
<1>. QED  BY <1>1, <1>3 DEF SyncInv, PullsCatchUp, BS!PullsCatchUp

\* An agent that registers holds nothing yet.
LEMMA RegisterKeeps == ASSUME SyncInv, NEW a \in Agents, NEW r \in 0..MaxRely, BS!Register(a, r) PROVE SyncInv'
<1>1. /\ registered' = registered \cup {a} /\ rely' = [rely EXCEPT ![a] = r] /\ caughtUp' = {}
      /\ UNCHANGED <<belief, vclock, calls>>
  BY DEF BS!Register
<1>2. SyncTypes
  BY DEF SyncInv
<1>3. rely' \in [Agents -> 0..MaxRely]
  BY <1>1, <1>2 DEF SyncTypes
<1>4. registered' \subseteq Agents /\ calls' \in Nat
  BY <1>1, <1>2 DEF SyncTypes
<1>. QED  BY <1>1, <1>2, <1>3, <1>4, ExchangeKeeps DEF SyncTypes

\* A belief that is pushed may be newer than what others have, so nobody has caught up.
LEMMA PushKeeps == ASSUME SyncInv, NEW a \in Agents, NEW e \in BS!Entries, BS!Push(a, e) PROVE SyncInv'
<1>1. SyncTypes
  BY DEF SyncInv
<1>2. PICK k \in Subjects : k = e.subject
  BY DEF BS!Entries
<1>3. /\ a \in registered /\ caughtUp' = {} /\ UNCHANGED <<registered, rely>> /\ calls' = calls + 1
      /\ vclock' = [vclock EXCEPT ![a][k] = @ + 1]
      /\ belief' \in {belief, [belief EXCEPT ![a][k] = e]}
  BY <1>2 DEF BS!Push, BS!Call
<1>4. vclock' \in [Agents -> [Subjects -> Nat]]
  BY <1>1, <1>3 DEF SyncTypes
<1>5. [belief EXCEPT ![a][k] = e] \in [Agents -> [Subjects -> BS!Entries \cup {Nil}]]
  BY <1>1 DEF SyncTypes
<1>6. belief' \in [Agents -> [Subjects -> BS!Entries \cup {Nil}]]
  BY <1>1, <1>3, <1>5 DEF SyncTypes
<1>7. \A b \in Agents \ registered : belief'[b] = belief[b]
  BY <1>1, <1>3 DEF SyncTypes
<1>8. registered' \subseteq Agents /\ calls' \in Nat
  BY <1>1, <1>3 DEF SyncTypes
<1>. QED  BY <1>1, <1>3, <1>4, <1>6, <1>7, <1>8, ExchangeKeeps DEF SyncTypes

\* Who pulls from all others has the newest of what they hold.
LEMMA PullKeeps ==
    ASSUME SyncInv, NEW a \in Agents, NEW sources \in BS!Lists, NEW since \in 1..MaxMade, BS!Pull(a, sources, since)
    PROVE  SyncInv'
<1>1. SyncTypes /\ registered \subseteq Agents /\ caughtUp \subseteq registered
  BY DEF SyncInv, SyncTypes
<1>2. /\ a \in registered /\ UNCHANGED <<registered, rely>> /\ calls' \in Nat
      /\ caughtUp' = IF since = 1 /\ registered \ {a} \subseteq BS!SX!Range(sources)
                     THEN caughtUp \cup {a} ELSE caughtUp
      /\ belief' \in [Agents -> [Subjects -> Beliefs]] /\ vclock' \in [Agents -> [Subjects -> Nat]]
      /\ \A b \in Agents \ {a} : belief'[b] = belief[b]
      /\ \A k \in Subjects :
            /\ \/ belief'[a][k] = belief[a][k]
               \/ \E b \in BS!SX!Range(sources) : belief'[a][k] = belief[b][k] /\ belief[b][k] # Nil
            /\ MadeOf(belief'[a][k]) >= MadeOf(belief[a][k])
            /\ since = 1 => \A b \in BS!SX!Range(sources) : MadeOf(belief'[a][k]) >= MadeOf(belief[b][k])
  BY <1>1, PullIs
<1>3. SyncTypes'
  BY <1>1, <1>2 DEF SyncTypes, Beliefs
<1>4. \A b \in Agents \ registered', k \in Subjects : belief'[b][k] = Nil
  BY <1>2 DEF SyncInv
<1>5. \A b \in BS!SX!Range(sources) : b \in Agents
  BY ListsAre
<1>6. \A b \in Agents, k \in Subjects : belief[b][k] \in Beliefs /\ belief'[b][k] \in Beliefs
  BY <1>1, <1>2 DEF SyncTypes, Beliefs
<1>7. \A b \in Agents, k \in Subjects : MadeOf(belief[b][k]) \in Nat /\ MadeOf(belief'[b][k]) \in Nat
  BY <1>6, NewerIsLater
<1>8. \A c \in caughtUp, b \in registered, k \in Subjects : MadeOf(belief[c][k]) >= MadeOf(belief[b][k])
  BY MadeIs DEF SyncInv, PullsCatchUp, BS!PullsCatchUp
<1>9. ASSUME NEW c \in caughtUp', NEW b \in registered, NEW k \in Subjects
      PROVE  MadeOf(belief'[c][k]) >= MadeOf(belief'[b][k])
  <2>1. c \in caughtUp \/ (c = a /\ since = 1 /\ registered \ {a} \subseteq BS!SX!Range(sources))
    BY <1>2
  <2>2. b \in Agents /\ c \in Agents
    BY <1>1, <1>2, <2>1
  <2>3. CASE b = c
    BY <1>7, <2>2, <2>3
  <2>4. CASE b # c /\ c = a /\ c \notin caughtUp
    <3>1. MadeOf(belief'[a][k]) >= MadeOf(belief[b][k]) /\ belief'[b] = belief[b]
      BY <1>2, <2>1, <2>2, <2>4
    <3>. QED  BY <2>4, <3>1
  <2>5. CASE b # c /\ c = a /\ c \in caughtUp
    <3>1. MadeOf(belief'[a][k]) >= MadeOf(belief[a][k]) /\ MadeOf(belief[a][k]) >= MadeOf(belief[b][k]) /\ belief'[b] = belief[b]
      BY <1>2, <1>8, <2>2, <2>5
    <3>. QED  BY <1>7, <2>2, <2>5, <3>1
  <2>6. CASE b # c /\ c # a /\ b = a
    <3>1. c \in caughtUp /\ belief'[c] = belief[c]
      BY <1>2, <2>1, <2>2, <2>6
    <3>2. \E d \in registered : belief'[a][k] = belief[d][k]
      <4>1. CASE belief'[a][k] = belief[a][k]
        BY <1>2, <4>1
      <4>2. ASSUME NEW d \in BS!SX!Range(sources), belief'[a][k] = belief[d][k], belief[d][k] # Nil
            PROVE  \E n \in registered : belief'[a][k] = belief[n][k]
        <5>1. d \in registered
          BY <1>5, <4>2 DEF SyncInv
        <5>. QED  BY <4>2, <5>1
      <4>. QED  BY <1>2, <4>1, <4>2
    <3>. QED  BY <1>8, <2>6, <3>1, <3>2
  <2>7. CASE b # c /\ c # a /\ b # a
    <3>1. c \in caughtUp /\ belief'[c] = belief[c] /\ belief'[b] = belief[b]
      BY <1>2, <2>1, <2>2, <2>7
    <3>. QED  BY <1>8, <3>1
  <2>. QED  BY <2>3, <2>4, <2>5, <2>6, <2>7
<1>10. PullsCatchUp'
  <2>1. \A b, k : BS!Made(b, k)' = MadeOf(belief'[b][k])
    BY DEF BS!Made, MadeOf, BS!Holds
  <2>. QED  BY <1>2, <1>9, <2>1 DEF PullsCatchUp, BS!PullsCatchUp
<1>. QED  BY <1>3, <1>4, <1>10 DEF SyncInv

\* What a merge makes of the two.
LEMMA MergeIs ==
    ASSUME SyncTypes, NEW a \in Agents, NEW b \in Agents, BS!Merge(a, b)
    PROVE  /\ a # b /\ a \in registered /\ b \in registered /\ caughtUp' = {} /\ UNCHANGED <<registered, rely>>
           /\ calls' \in Nat
           /\ belief' \in [Agents -> [Subjects -> BS!Entries \cup {Nil}]]
           /\ vclock' \in [Agents -> [Subjects -> Nat]]
           /\ \A c \in Agents \ {a, b} : belief'[c] = belief[c]
           /\ \A k \in Subjects : BS!Holds(a, k) /\ BS!Holds(b, k) =>
                 /\ belief'[a][k] = IF belief[a][k].value # belief[b][k].value /\ BS!Wins(b, a)
                                    THEN belief[b][k] ELSE belief[a][k]
                 /\ belief'[b][k] = IF belief[a][k].value # belief[b][k].value /\ BS!Wins(a, b)
                                    THEN belief[a][k] ELSE belief[b][k]
<1>. DEFINE differ(x, y) == x # Nil /\ y # Nil /\ x.value # y.value
            forB(k) == belief[a][k] # Nil /\ (belief[b][k] = Nil \/ (differ(belief[a][k], belief[b][k]) /\ BS!Wins(a, b)))
            forA(k) == belief[b][k] # Nil /\ (belief[a][k] = Nil \/ (differ(belief[a][k], belief[b][k]) /\ BS!Wins(b, a)))
            ticks(mine, theirs) == IF theirs # Nil /\ (mine = Nil \/ differ(mine, theirs)) THEN 1 ELSE 0
            newA == [k \in Subjects |-> IF forA(k) THEN belief[b][k] ELSE belief[a][k]]
            newB == [k \in Subjects |-> IF forB(k) THEN belief[a][k] ELSE belief[b][k]]
            clockA == [k \in Subjects |-> vclock[a][k] + ticks(belief[a][k], belief[b][k])]
            clockB == [k \in Subjects |-> vclock[b][k] + ticks(belief[b][k], belief[a][k])]
<1>1. /\ a # b /\ a \in registered /\ b \in registered /\ caughtUp' = {} /\ UNCHANGED <<registered, rely>>
      /\ calls' = calls + 1
  BY DEF BS!Merge, BS!Call
<1>2. belief' = [belief EXCEPT ![a] = newA, ![b] = newB]
  BY DEF BS!Merge
<1>3. vclock' = [vclock EXCEPT ![a] = clockA, ![b] = clockB]
  BY <1>1 DEF BS!Merge, SyncTypes
<1>4. \A c \in Agents : belief[c] \in [Subjects -> BS!Entries \cup {Nil}] /\ vclock[c] \in [Subjects -> Nat]
  BY DEF SyncTypes
<1>5. newA \in [Subjects -> BS!Entries \cup {Nil}] /\ newB \in [Subjects -> BS!Entries \cup {Nil}]
  <2>1. \A k \in Subjects : belief[a][k] \in BS!Entries \cup {Nil} /\ belief[b][k] \in BS!Entries \cup {Nil}
    BY <1>4
  <2>. HIDE DEF forA, forB
  <2>. QED  BY <2>1
<1>6. clockA \in [Subjects -> Nat] /\ clockB \in [Subjects -> Nat]
  <2>1. \A x, y : ticks(x, y) \in {0, 1}
    OBVIOUS
  <2>2. \A k \in Subjects : vclock[a][k] \in Nat /\ vclock[b][k] \in Nat
    BY <1>4
  <2>. HIDE DEF ticks
  <2>3. \A k \in Subjects : /\ vclock[a][k] + ticks(belief[a][k], belief[b][k]) \in Nat
                            /\ vclock[b][k] + ticks(belief[b][k], belief[a][k]) \in Nat
    BY <2>1, <2>2
  <2>. QED  BY <2>3
<1>7. \A k \in Subjects : /\ newA[k] = IF forA(k) THEN belief[b][k] ELSE belief[a][k]
                          /\ newB[k] = IF forB(k) THEN belief[a][k] ELSE belief[b][k]
  OBVIOUS
<1>. HIDE DEF newA, newB, clockA, clockB
<1>8. /\ belief' \in [Agents -> [Subjects -> BS!Entries \cup {Nil}]] /\ vclock' \in [Agents -> [Subjects -> Nat]]
  BY <1>2, <1>3, <1>5, <1>6 DEF SyncTypes
<1>9. belief'[a] = newA /\ belief'[b] = newB /\ \A c \in Agents \ {a, b} : belief'[c] = belief[c]
  BY <1>1, <1>2 DEF SyncTypes
<1>10. calls' \in Nat
  BY <1>1 DEF SyncTypes
<1>11. ASSUME NEW k \in Subjects, BS!Holds(a, k), BS!Holds(b, k)
       PROVE  /\ belief'[a][k] = IF belief[a][k].value # belief[b][k].value /\ BS!Wins(b, a)
                                    THEN belief[b][k] ELSE belief[a][k]
              /\ belief'[b][k] = IF belief[a][k].value # belief[b][k].value /\ BS!Wins(a, b)
                                    THEN belief[a][k] ELSE belief[b][k]
  BY <1>7, <1>9, <1>11 DEF BS!Holds
<1>. QED  BY <1>1, <1>8, <1>9, <1>10, <1>11

\* After a merge nobody has caught up.
LEMMA MergeKeeps == ASSUME SyncInv, NEW a \in Agents, NEW b \in Agents, BS!Merge(a, b) PROVE SyncInv'
<1>1. SyncTypes
  BY DEF SyncInv
<1>2. /\ a \in registered /\ b \in registered /\ caughtUp' = {} /\ UNCHANGED <<registered, rely>> /\ calls' \in Nat
      /\ belief' \in [Agents -> [Subjects -> BS!Entries \cup {Nil}]] /\ vclock' \in [Agents -> [Subjects -> Nat]]
      /\ \A c \in Agents \ {a, b} : belief'[c] = belief[c]
  BY <1>1, MergeIs
<1>3. \A c \in Agents \ registered : belief'[c] = belief[c]
  BY <1>2
<1>4. registered \subseteq registered' /\ registered' \subseteq Agents /\ rely' \in [Agents -> 0..MaxRely]
  BY <1>1, <1>2 DEF SyncTypes
<1>. QED  BY <1>2, <1>3, <1>4, ExchangeKeeps

\* After a vote nobody has caught up; its winner is a belief of a voter.
LEMMA ConsensusKeeps == ASSUME SyncInv, NEW voters \in BS!Lists, BS!Consensus(voters) PROVE SyncInv'
<1>1. SyncTypes
  BY DEF SyncInv
<1>2. /\ caughtUp' = {} /\ UNCHANGED <<registered, rely, vclock>> /\ calls' = calls + 1
      /\ BS!SX!Range(voters) \subseteq registered
      /\ belief' = [a \in Agents |-> [k \in Subjects |-> IF a \in BS!SX!Range(voters) /\ BS!Disputed(voters, k)
                                                         THEN BS!Winner(voters, k) ELSE belief[a][k]]]
  BY DEF BS!Consensus, BS!Call
<1>3. ASSUME NEW k \in Subjects, BS!Disputed(voters, k)  PROVE BS!Winner(voters, k) \in BS!Entries
  <2>1. PICK i \in BS!Ballot(voters, k) : BS!Winner(voters, k) = belief[voters[i]][k]
    BY <1>1, <1>2, <1>3, WinnerLeads
  <2>2. i \in DOMAIN voters /\ belief[voters[i]][k] # Nil
    BY DEF BS!Ballot, BS!Holds
  <2>3. voters[i] \in Agents
    BY <2>2, ListsAre
  <2>. QED  BY <1>1, <2>1, <2>2, <2>3 DEF SyncTypes
<1>4. ASSUME NEW a \in Agents
      PROVE  [k \in Subjects |-> IF a \in BS!SX!Range(voters) /\ BS!Disputed(voters, k)
                                 THEN BS!Winner(voters, k) ELSE belief[a][k]] \in [Subjects -> BS!Entries \cup {Nil}]
  <2>1. \A k \in Subjects : belief[a][k] \in BS!Entries \cup {Nil}
    BY <1>1 DEF SyncTypes
  <2>. QED  BY <1>3, <2>1
<1>5. belief' \in [Agents -> [Subjects -> BS!Entries \cup {Nil}]]
  BY <1>2, <1>4
<1>6. \A a \in Agents \ registered : belief'[a] = belief[a]
  <2>1. SUFFICES ASSUME NEW a \in Agents, a \notin registered PROVE belief'[a] = belief[a]
    OBVIOUS
  <2>2. a \notin BS!SX!Range(voters)
    BY <1>2, <2>1
  <2>3. belief'[a] = [k \in Subjects |-> belief[a][k]]
    BY <1>2, <2>2
  <2>4. belief[a] \in [Subjects -> BS!Entries \cup {Nil}]
    BY <1>1 DEF SyncTypes
  <2>. QED  BY <2>3, <2>4
<1>7. /\ registered \subseteq registered' /\ registered' \subseteq Agents /\ rely' \in [Agents -> 0..MaxRely]
      /\ vclock' \in [Agents -> [Subjects -> Nat]] /\ calls' \in Nat
  BY <1>1, <1>2 DEF SyncTypes
<1>. QED  BY <1>2, <1>5, <1>6, <1>7, ExchangeKeeps

\* Every call of an agent keeps the invariant.
LEMMA SyncGoesOn == ASSUME SyncInv, BS!Next PROVE SyncInv'
BY RegisterKeeps, PushKeeps, PullKeeps, MergeKeeps, ConsensusKeeps DEF BS!Next

\* The other parts leave the agents alone.
LEMMA SyncStands == ASSUME SyncInv, UNCHANGED svars PROVE SyncInv'
BY DEF svars, SyncInv, SyncTypes, PullsCatchUp, BS!PullsCatchUp, BS!Made, BS!Holds

\* A merge gives both agents what the more reliable one held.
LEMMA MergeIsRight ==
    ASSUME SyncTypes, NEW a \in Agents, NEW b \in Agents, rely[a] > rely[b], BS!Merge(a, b),
           NEW k \in Subjects, BS!Holds(a, k), BS!Holds(b, k)
    PROVE  {belief'[a][k].value, belief'[b][k].value} = {belief[a][k].value}
<1>1. rely[a] \in Nat /\ rely[b] \in Nat
  BY SyncConstants DEF SyncTypes, BS!ConstantsFit
<1>2. BS!Wins(a, b) /\ ~BS!Wins(b, a)
  BY <1>1 DEF BS!Wins
<1>3. belief'[a][k] = belief[a][k]
  BY <1>2, MergeIs
<1>4. belief'[b][k] = IF belief[a][k].value # belief[b][k].value THEN belief[a][k] ELSE belief[b][k]
  BY <1>2, MergeIs
<1>. QED  BY <1>3, <1>4

\* A vote gives all voters a value that nobody outvoted.
LEMMA VoteIsRight ==
    ASSUME SyncTypes, NEW voters \in BS!Lists, BS!Consensus(voters), NEW k \in Subjects, BS!Disputed(voters, k)
    PROVE  \E v \in Views : /\ \A a \in BS!SX!Range(voters) : belief'[a][k].value = v
                            /\ \A w \in Views : BS!Votes(voters, k, v) >= BS!Votes(voters, k, w)
<1>1. /\ BS!SX!Range(voters) \subseteq registered /\ registered \subseteq Agents
      /\ belief' = [a \in Agents |-> [n \in Subjects |-> IF a \in BS!SX!Range(voters) /\ BS!Disputed(voters, n)
                                                         THEN BS!Winner(voters, n) ELSE belief[a][n]]]
  BY DEF BS!Consensus, SyncTypes
<1>2. PICK i \in BS!Ballot(voters, k) :
              /\ BS!Winner(voters, k) = belief[voters[i]][k]
              /\ \A j \in BS!Ballot(voters, k) : BS!Votes(voters, k, belief[voters[i]][k].value)
                                                   >= BS!Votes(voters, k, belief[voters[j]][k].value)
  BY <1>1, WinnerLeads
<1>3. i \in DOMAIN voters /\ belief[voters[i]][k] # Nil /\ voters[i] \in Agents
  BY ListsAre DEF BS!Ballot, BS!Holds
<1>4. PICK e \in BS!Entries : e = belief[voters[i]][k]
  BY <1>3 DEF SyncTypes
<1>5. e.value \in Views
  BY DEF BS!Entries
<1>6. \A a \in BS!SX!Range(voters) : belief'[a][k] = e
  BY <1>1, <1>2, <1>4
<1>7. ASSUME NEW w \in Views PROVE BS!Votes(voters, k, e.value) >= BS!Votes(voters, k, w)
  <2>1. CASE \E j \in BS!Ballot(voters, k) : belief[voters[j]][k].value = w
    BY <1>2, <1>4, <2>1
  <2>2. CASE ~\E j \in BS!Ballot(voters, k) : belief[voters[j]][k].value = w
    <3>1. {j \in BS!Ballot(voters, k) : belief[voters[j]][k].value = w} = {}
      BY <2>2
    <3>2. BS!Votes(voters, k, w) = 0
      BY <3>1, SyncSets, FS_EmptySet DEF BS!Votes
    <3>3. BS!Votes(voters, k, e.value) \in Nat
      <4>1. IsFiniteSet({j \in BS!Ballot(voters, k) : belief[voters[j]][k].value = e.value})
        <5>1. {j \in BS!Ballot(voters, k) : belief[voters[j]][k].value = e.value} \subseteq DOMAIN voters
          BY DEF BS!Ballot
        <5>. QED  BY <5>1, ListsAre, FS_Subset
      <4>. QED  BY <4>1, SyncSets, FS_CardinalityType DEF BS!Votes
    <3>. QED  BY <3>2, <3>3
  <2>. QED  BY <2>1, <2>2
<1>. QED  BY <1>5, <1>6, <1>7

\* What the invariant says of types and of who has caught up.
LEMMA SyncIsTyped == ASSUME SyncInv PROVE PullsCatchUp /\ BS!TypeOK
BY DEF SyncInv, SyncTypes, BS!TypeOK

\* However many agents push, pull, merge and vote in whatever order, with whatever
\* times and reliabilities: who has pulled from all others since the last change
\* has the newest of everything, a merge settles on what the more reliable of the
\* two held, and a vote ends in agreement on a value nobody outvoted
\* (BeliefSync.tla).
THEOREM SyncAlwaysKeepsItsWord == MCSpec => SyncKeepsItsWord /\ []BS!TypeOK
<1>1. MCInit => SyncInv
  BY SyncStarts DEF MCInit
<1>2. SyncInv /\ [MCNext]_<<part, vars, lvars, svars, rvars, cvars, tvars, qvars, wvars>> => SyncInv'
  <2>1. ASSUME SyncInv, MCNext PROVE BS!Next \/ UNCHANGED svars
    BY <2>1 DEF MCNext
  <2>. QED  BY <2>1, SyncGoesOn, SyncStands
<1>3. SyncInv => [\A a, b \in Agents :
          rely[a] > rely[b] /\ BS!Merge(a, b) =>
              \A k \in Subjects : BS!Holds(a, k) /\ BS!Holds(b, k) =>
                  {belief'[a][k].value, belief'[b][k].value} = {belief[a][k].value}]_BS!svars
  BY MergeIsRight DEF SyncInv
<1>4. SyncInv => [calls' # calls /\ UNCHANGED vclock =>
          \A voters \in BS!Lists :
              BS!Consensus(voters) =>
                  \A k \in Subjects : BS!Disputed(voters, k) =>
                      \E v \in Views :
                          /\ \A a \in BS!SX!Range(voters) : belief'[a][k].value = v
                          /\ \A w \in Views : BS!Votes(voters, k, v) >= BS!Votes(voters, k, w)]_BS!svars
  BY VoteIsRight DEF SyncInv
<1>. QED  BY <1>1, <1>2, <1>3, <1>4, SyncIsTyped, PTL
          DEF MCSpec, SyncKeepsItsWord, MergePrefersReliable, VotersAgree, BS!MergePrefersReliable, BS!VotersAgree
=============================================================================
