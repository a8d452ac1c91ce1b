---------------------------- MODULE RateLimiter -----------------------------
(***************************************************************************)
(* The token buckets in front of the local MCP server                      *)
(* (mcp_server/rate_limiter.py) and the way a request gets to them         *)
(* (mcp_server/server_v2.py: over HTTP one bucket per client, over stdio   *)
(* one for all).  A request with the wrong token is answered before the    *)
(* limiter sees it.  Buckets are created on first sight and the longest    *)
(* unused are dropped when there are too many.  The clock that fills them  *)
(* is the time of day, which can be set back.  A request costs several     *)
(* units of what a tick of the clock brings, so that time is finer than    *)
(* requests; the two readings of the clock in a first call are one.        *)
(***************************************************************************)
EXTENDS Integers, FiniteSets

CONSTANTS
    Clients,
    Burst,      \* max_tokens, in units
    Price,      \* the units one request costs; a tick brings one
    MaxEntries, \* _max_entries
    KeepAtLeast,\* how many an eviction keeps at the least
    MaxBack,    \* bound on how far the clock is set back
    Gone

ConstantsFit ==
    /\ IsFiniteSet(Clients)
    /\ Burst \in Nat /\ Price \in Nat /\ MaxBack \in Nat
    /\ MaxEntries \in Nat \ {0} /\ KeepAtLeast \in 0..MaxEntries
    /\ Gone \notin [tokens : Int, idle : Int]

VARIABLES
    bucket, \* [Clients -> [tokens, idle] or Gone]: _buckets, idle since last_refill
    earned, \* for the properties: what an exact clock would grant each client
    back    \* how far the clock was set back

rvars == <<bucket, earned, back>>

-----------------------------------------------------------------------------
Least(a, b) == IF a <= b THEN a ELSE b

Known == {c \in Clients : bucket[c] # Gone}

\* Longer than this nobody has to wait for a full bucket.
Longest == Burst + MaxBack

Init ==
    /\ bucket = [c \in Clients |-> Gone]
    /\ earned = [c \in Clients |-> Burst]
    /\ back = 0

\* Mutant: tokens pile up while a client is away.
RefilledUncapped(b) == b.tokens + b.idle

\* What a bucket holds by now.
Refilled(b) == Least(Burst, b.tokens + b.idle)

\* Mutant: no bucket is dropped.
KeptAll == {Known}

\* _evict_oldest: the newest half, or KeepAtLeast; buckets of one time are
\* dropped in the order of the table, which is left open.
KeptOf(n) == IF n \div 2 > KeepAtLeast THEN n \div 2 ELSE Least(n, KeepAtLeast)

Kept ==
    IF Cardinality(Known) <= MaxEntries THEN {Known}
    ELSE {K \in SUBSET Known : /\ Cardinality(K) = KeptOf(Cardinality(Known))
                               /\ \A c \in K, d \in Known \ K : bucket[c].idle <= bucket[d].idle}

\* Mutant: a refused client loses what its bucket filled up to.
AfterForfeiting(b, have) ==
    [tokens |-> IF have >= Price THEN have - Price ELSE b.tokens, idle |-> 0]

\* allow: the bucket after a call, served or refused.
After(b, have) == [tokens |-> IF have >= Price THEN have - Price ELSE have, idle |-> 0]

\* A call that passed authorization, or that came over stdio.
Call(c) ==
    \E kept \in Kept :
        LET b    == IF c \in kept THEN bucket[c] ELSE [tokens |-> Burst, idle |-> 0]
            have == Refilled(b)
            mine(d) == IF d \in kept \/ d \notin Known THEN earned[d] ELSE Burst
        IN  /\ bucket' = [d \in Clients |-> IF d = c THEN After(b, have)
                                            ELSE IF d \in kept THEN bucket[d] ELSE Gone]
            /\ earned' = [d \in Clients |-> IF d = c /\ have >= Price THEN mine(d) - Price ELSE mine(d)]
            /\ UNCHANGED back

Older(b, by) == IF b = Gone THEN Gone ELSE [b EXCEPT !.idle = Least(Longest, @ + by)]

\* Time goes on.
Tick ==
    /\ bucket' = [c \in Clients |-> Older(bucket[c], 1)]
    /\ earned' = [c \in Clients |-> Least(Burst, earned[c] + 1)]
    /\ UNCHANGED back

\* The time of day is set back; what clients have earned stays earned.
SetBack ==
    /\ back < MaxBack
    /\ back' = back + 1
    /\ bucket' = [c \in Clients |-> Older(bucket[c], -1)]
    /\ UNCHANGED earned

Next ==
    \/ \E c \in Clients : Call(c)
    \/ Tick \/ SetBack

Spec == Init /\ [][Next]_rvars

-----------------------------------------------------------------------------
(* Properties *)

\* Every variable keeps its type, and there are never more buckets than allowed
\* by one.
TypeOK ==
    /\ \A c \in Known : bucket[c].tokens \in -MaxBack..Burst /\ bucket[c].idle \in -MaxBack..Longest
    /\ \A c \in Clients : earned[c] <= Burst
    /\ back \in 0..MaxBack
    /\ Cardinality(Known) <= MaxEntries + 1

\* Nobody is served more than a burst and what time has brought since, however
\* its calls are spread, whatever the clock does, as long as its bucket is kept
\* (rate_limiter.py:36: "10 requests burst, then 1 request/second sustained").
NeverMoreThanEarned == \A c \in Clients : earned[c] >= 0

\* While the clock is not set back nobody is refused what it has earned, not even
\* a client that goes on calling while it is refused.
RefusedOnlyWhenSpent ==
    back = 0 => \A c \in Clients : bucket[c] # Gone => Refilled(bucket[c]) = earned[c]
=============================================================================
