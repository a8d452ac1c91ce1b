----------------------------- MODULE MCExchange ------------------------------
(* A plane of two keys for one slot, whose calls may fail half way, and what *)
(* leaves a store: answers to questions and about periods, pages of          *)
(* memories to a client, beliefs to other agents, packets of context, the    *)
(* turns of an agent, and the limit on how fast clients are served.  The     *)
(* parts share no state and a behaviour exercises one of them.               *)
EXTENDS StatePlane, TLC

CONSTANTS g1, g2, g3, yes, no, u1, m1, m2, wa, wb, wc, wx, Nil

\* Of the rate limiter: a burst of one request and a half, and room for two
\* buckets of three.
CONSTANTS Clients, Burst, Price, MaxEntries, KeepAtLeast, MaxBack

\* Of the pages.
CONSTANTS LastKey, Sources, Sizes, MaxBytes, Large, Attempts, MaxChanges

\* Of agents that exchange beliefs, and of the turns of an agent.
CONSTANTS Agents, Subjects, Views, MaxMade, MaxRely, MaxCalls
CONSTANTS Inputs, Outputs, Sensitive, Worth, Events, MaxRaises

VARIABLES part, memory, time, walk, got, steady, changes, registered, rely, belief, vclock, calls, caughtUp, bucket, earned, back,
          suppressed, assembly, frame, pending, stored, doing, raises, dropped, missed, handed,
          rows, buffer, now, edits, asking, shown, mem, still, edited, scan

ASSUME PlaneConstants == ConstantsFit

\* Three keys, of which the second is too large for a page of two.
TwoOrOne == <<2, 1>>

ML == INSTANCE MemoryListing

ASSUME ListingConstants == ML!ConstantsFit

BS == INSTANCE BeliefSync WITH Nobody <- Nil

ASSUME SyncConstants == BS!ConstantsFit

RL == INSTANCE RateLimiter WITH Gone <- Nil

ASSUME LimiterConstants == RL!ConstantsFit

\* Memories of two kinds, one of them too long for every budget but the largest.
Memory(key, rank, score, words) == [key |-> key, rank |-> rank, score |-> score, words |-> words]

CP == INSTANCE ContextPacket WITH
    Assemblies <- {yes, no},
    Recalls <- SUBSET {Memory(1, 0, 1, 3), Memory(2, 0, 2, 1), Memory(3, 1, 1, 1), Memory(4, 1, 1, 2)},
    Contrary <- {{1, 2}, {1, 3}}, Budgets <- {4, 6, 8, 11, 14, 18}, Heading <- 2, Title <- 1, Caution <- 6

\* Inputs are worth a memory in common.
OneInCommon == [u \in Inputs |-> IF u = u1 THEN <<m1, m2>> ELSE <<m2>>]

AT == INSTANCE AgentTurn WITH Nothing <- Nil

ASSUME TurnConstants == AT!ConstantsFit

\* Three memories: one that superseded copies of itself, one that lapses, one that
\* begins later or is gone.  A version says what remains of "moved from a to b".
Version(words, after, at, from, till, gone, event, imp, source) ==
    [words |-> words, now |-> after, at |-> at, from |-> from, till |-> till, gone |-> gone,
     event |-> event, imp |-> imp, source |-> source]

Question(words, topics, current, dir, when, asOf, more) ==
    [words |-> words, topics |-> topics, current |-> current, dir |-> dir, when |-> when,
     asOf |-> asOf, more |-> more]

RC == INSTANCE Recall WITH
    LastKey <- 3, KeyWords <- <<{wa}, {wa, wb}, {}>>,
    Versions <- <<
        {Version({wa}, {wa}, 1, 0, 0, FALSE, 1, 1, Nil), Version({wa, wb}, {wb}, 4, 0, 2, FALSE, 2, 2, 2)},
        {Version({wa, wb}, {wb}, 2, 0, 2, FALSE, 2, 2, 1)},
        {Version({wa}, {wa}, 2, 2, 0, FALSE, 0, 1, 2), Version({wb}, {wb}, 5, 0, 0, TRUE, 3, 1, 2)}>>,
    Questions <- {
        Question({wa}, {wa}, TRUE, "none", {}, 0, {}),
        Question({wa, wb}, {wa, wb}, TRUE, "none", {}, 0, {wc}),
        Question({wb, wc}, {wb, wc}, FALSE, "after", {1}, 2, {})},
    Limits <- {2}, MaxReflections <- 1, Threshold <- 33, Found <- 1, SemanticWeights <- {35},
    Boosts <- {}, RecencyFusion <- TRUE, SparseMax <- 3, Context <- wx,
    MaxSlots <- 1, MaxTime <- 2, MaxEdits <- 1, None <- Nil, slots <- buffer, call <- asking

\* A cap of two rows and a reading that may end after three.
Intent(start, implicit, topic) ==
    [start |-> start, wide |-> 1, end |-> 3, implicit |-> implicit, topic |-> topic]

Kind(listed, usable, topic) == [listed |-> listed, usable |-> usable, topic |-> topic]

TW == INSTANCE TimeWindow WITH
    LastKey <- 3, Intents <- {Intent(2, TRUE, TRUE), Intent(1, FALSE, TRUE)},
    PageSize <- 1, Cap <- 2, ScanMax <- 3, Limits <- {2}, LastStamp <- 3, MaxEdits <- 1,
    Kinds <- {Kind(TRUE, TRUE, TRUE), Kind(TRUE, TRUE, FALSE), Kind(TRUE, FALSE, TRUE), Kind(FALSE, TRUE, TRUE)},
    None <- Nil

\* yes and no also stand for the keys of the plane and for the sources of memories.
Symmetry == Permutations({g1, g2, g3}) \cup Permutations({yes, no})

lvars == <<memory, time, walk, got, steady, changes>>
svars == <<registered, rely, belief, vclock, calls, caughtUp>>
rvars == <<bucket, earned, back>>
cvars == <<suppressed, assembly>>
tvars == <<frame, pending, stored, doing, raises, dropped, missed, handed>>

qvars == <<rows, buffer, now, edits, asking, shown>>
wvars == <<mem, still, edited, scan>>

\* A part that is not exercised starts in one state.
MCInit ==
    /\ part \in {"plane", "pages", "beliefs", "limits", "context", "turns", "recall", "windows"}
    /\ RC!Init /\ (part = "recall" \/ \A k \in RC!Keys : rows[k] = Nil)
    /\ TW!Init /\ (part = "windows" \/ \A k \in TW!Keys : mem[k] = Nil)
    /\ Init /\ ML!Init /\ BS!Init /\ RL!Init /\ CP!Init /\ AT!Init

MCNext ==
    \/ part = "plane" /\ Next /\ UNCHANGED <<part, lvars, svars, rvars, cvars, tvars, qvars, wvars>>
    \/ part = "pages" /\ ML!Next /\ UNCHANGED <<part, vars, svars, rvars, cvars, tvars, qvars, wvars>>
    \/ part = "beliefs" /\ BS!Next /\ UNCHANGED <<part, vars, lvars, rvars, cvars, tvars, qvars, wvars>>
    \/ part = "limits" /\ RL!Next /\ UNCHANGED <<part, vars, lvars, svars, cvars, tvars, qvars, wvars>>
    \/ part = "context" /\ CP!Next /\ UNCHANGED <<part, vars, lvars, svars, rvars, tvars, qvars, wvars>>
    \/ part = "turns" /\ AT!Next /\ UNCHANGED <<part, vars, lvars, svars, rvars, cvars, qvars, wvars>>
    \/ part = "recall" /\ RC!Next /\ UNCHANGED <<part, vars, lvars, svars, rvars, cvars, tvars, wvars>>
    \/ part = "windows" /\ TW!Next /\ UNCHANGED <<part, vars, lvars, svars, rvars, cvars, tvars, qvars>>

MCSpec == MCInit /\ [][MCNext]_<<part, vars, lvars, svars, rvars, cvars, tvars, qvars, wvars>>

\* Every variable of the eight keeps its type.
TypesOK ==
    TypeOK /\ ML!TypeOK /\ BS!TypeOK /\ RL!TypeOK /\ CP!TypeOK /\ AT!TypeOK /\ RC!TypeOK /\ TW!TypeOK

\* A walk over the pages is complete: an entry that did not change comes exactly
\* once, in key order nothing comes twice, and only a service in trouble or
\* without paging ends a walk early (the parts are in MemoryListing.tla).
WalkIsComplete == ML!UnchangedExactlyOnce /\ ML!KeyOrderNeverTwice /\ ML!OnlyTroubleStopsAWalk

\* A pull from all others catches up (BeliefSync.tla).
PullsCatchUp == BS!PullsCatchUp

\* A merge settles on what the more reliable agent holds (BeliefSync.tla).
MergePrefersReliable == BS!MergePrefersReliable

\* A vote ends in agreement (BeliefSync.tla).
VotersAgree == BS!VotersAgree

\* Agents get what they ask for: a pull from all others catches up, a merge
\* settles on what the more reliable of the two holds, and a vote ends in
\* agreement (BeliefSync.tla).
SyncKeepsItsWord == []PullsCatchUp /\ MergePrefersReliable /\ VotersAgree

\* A merge ends in agreement (BeliefSync.tla).
MergeReconciles == BS!MergeReconciles

\* Nobody is served more than time has brought, and nobody is refused what it
\* has earned (RateLimiter.tla).
BucketsAreFair == RL!NeverMoreThanEarned /\ RL!RefusedOnlyWhenSpent


\* What is told is what is stored, not an older copy of it (Recall.tla).
NoOldCopies == RC!NoOldCopies

\* Recalls are captured again when no assembly is under way (ContextPacket.tla).
CaptureResumes == CP!CaptureResumes

\* What a turn is worth is kept, and what the user said is stored (AgentTurn.tla).
TurnsAreKept == []AT!WorthIsKept /\ AT!UserTurnIsStored

\* A turn that was finalized is stored (AgentTurn.tla).
FinalizeRunsTheTurn == AT!FinalizeRunsTheTurn
=============================================================================
