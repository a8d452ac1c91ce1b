----------------------------- MODULE EventChain -----------------------------
(***************************************************************************)
(* The ledger of memory events of one project in Postgres                  *)
(* (storage/postgres.py, core/event_ledger.py, core/postgres_chain_lock.py)*)
(* and, in front of it, the stored rows its events are about.  Every event *)
(* names the hash of the one before it.  Writers are worker processes with *)
(* clocks of their own that can differ and step back.  An append is a      *)
(* transaction under an advisory lock whose wait is bounded; it is best    *)
(* effort, so an append that fails loses its event and not the write.  And *)
(* some changes of a row append no event that names it.                    *)
(***************************************************************************)
EXTENDS Integers, FiniteSets

CONSTANTS
    Writers,
    MemKeys,
    MaxEvents, \* bound on the events
    MaxClock,  \* bound on the clocks
    MaxLost,   \* bound on the appends cut off
    NoOne

ASSUME BoundsAssumption == MaxEvents \in Nat /\ MaxClock \in Nat /\ MaxLost \in Nat
ASSUME NoOneAssumption  == NoOne \notin Writers \cup MemKeys

VARIABLES
    stored,  \* keys that have a row
    table,   \* the committed events
    holder,  \* the writer whose transaction holds the chain lock, or NoOne
    tx,      \* [Writers -> the append the writer is in]
    clock,   \* [Writers -> time]
    failed,  \* appends cut off so far
    \* For the properties only:
    doubtful \* keys whose last change left no event, lost it or was one of two at once

vars == <<stored, table, holder, tx, clock, failed, doubtful>>

-----------------------------------------------------------------------------
Event ==
    [id : 1..MaxEvents, prev : 1..MaxEvents \cup {NoOne}, time : Nat,
     key : MemKeys, op : {"commit", "forget"}]

AppendState ==
    [at : {"idle", "waiting", "locked", "stamped"}, key : MemKeys \cup {NoOne},
     op : {"commit", "forget", NoOne}, prev : 1..MaxEvents \cup {NoOne}, time : Nat]

Idle     == [at |-> "idle", key |-> NoOne, op |-> NoOne, prev |-> NoOne, time |-> 0]
AllIdle  == \A w \in Writers : tx[w].at = "idle"

\* The order events are read in: ORDER BY time, id.
Earlier(a, b) == a.time < b.time \/ (a.time = b.time /\ a.id < b.id)
InOrder ==
    CHOOSE s \in [1..Cardinality(table) -> table] :
        /\ \A e \in table : \E i \in DOMAIN s : s[i] = e
        /\ \A i, j \in DOMAIN s : i < j => Earlier(s[i], s[j])

\* The row with the greatest time.
ChainHead == CHOOSE e \in table : \A o \in table \ {e} : Earlier(o, e)

\* replay_events_summary: the keys whose last event is not a forget.
ActiveKeys ==
    {k \in MemKeys : \E e \in table :
        /\ e.key = k /\ e.op # "forget"
        /\ \A o \in table \ {e} : o.key = k => Earlier(o, e)}

Init ==
    /\ stored = {}
    /\ table = {}
    /\ holder = NoOne
    /\ tx = [w \in Writers |-> Idle]
    /\ clock \in [Writers -> 0..MaxClock]
    /\ failed = 0
    /\ doubtful = {}

\* A write saves or deletes its row, then appends an event about it; a forget also
\* when it found no row.  Unless another append about the key is under way,
\* the event settles whatever was in doubt.
Write(w, k, op) ==
    /\ tx[w].at = "idle"
    /\ Cardinality(table) + Cardinality({v \in Writers : tx[v].at # "idle"}) < MaxEvents
    /\ stored' = IF op = "forget" THEN stored \ {k} ELSE stored \cup {k}
    /\ tx' = [tx EXCEPT ![w] = [Idle EXCEPT !.at = "waiting", !.key = k, !.op = op]]
    /\ doubtful' = IF \E v \in Writers : tx[v].key = k THEN doubtful \cup {k} ELSE doubtful \ {k}
    /\ UNCHANGED <<table, holder, clock, failed>>

\* A row comes or goes, and no event names it.
Unrecorded(k, rows) ==
    /\ rows # stored
    /\ stored' = rows
    /\ doubtful' = doubtful \cup {k}
    /\ UNCHANGED <<table, holder, tx, clock, failed>>

\* A rollback, of the plane or hosted, restores a row or deletes it.
RollBack(k) == Unrecorded(k, stored \cup {k}) \/ Unrecorded(k, stored \ {k})

\* consolidate saves a slot, or a session summary; its event counts the keys and is
\* about none of them.
Promote(k) == Unrecorded(k, stored \cup {k})

\* apply_decay_pass deletes a row that has faded.
Prune(k) == Unrecorded(k, stored \ {k})

\* Mutant: the lock is not taken.
EnterWithoutLock(w) ==
    /\ tx[w].at = "waiting"
    /\ holder' = w
    /\ tx' = [tx EXCEPT ![w].at = "locked"]
    /\ UNCHANGED <<stored, table, clock, failed, doubtful>>

\* pg_advisory_xact_lock
TakeLock(w) ==
    /\ tx[w].at = "waiting"
    /\ holder = NoOne
    /\ holder' = w
    /\ tx' = [tx EXCEPT ![w].at = "locked"]
    /\ UNCHANGED <<stored, table, clock, failed, doubtful>>

Lose(w) ==
    /\ tx' = [tx EXCEPT ![w] = Idle]
    /\ doubtful' = doubtful \cup {tx[w].key}
    /\ UNCHANGED <<stored, table, clock>>

\* Mutant: the writer waits for as long as it takes.
WaitForever(w) == FALSE /\ UNCHANGED vars

\* lock_timeout: the append gives up, the write stands.
LockTimeout(w) ==
    /\ tx[w].at = "waiting"
    /\ holder \notin {w, NoOne}
    /\ Lose(w)
    /\ UNCHANGED <<holder, failed>>

\* Mutant: an event is given its writer's time.
StampByClock(w) ==
    /\ tx[w].at = "locked"
    /\ tx' = [tx EXCEPT ![w].at = "stamped",
                        ![w].prev = IF table = {} THEN NoOne ELSE ChainHead.id,
                        ![w].time = clock[w]]
    /\ UNCHANGED <<stored, table, holder, clock, failed, doubtful>>

\* Read the head; the event is later than it, whatever this writer's clock says.
Stamp(w) ==
    /\ tx[w].at = "locked"
    /\ tx' = [tx EXCEPT ![w].at = "stamped",
                        ![w].prev = IF table = {} THEN NoOne ELSE ChainHead.id,
                        ![w].time = IF table # {} /\ ChainHead.time >= clock[w]
                                    THEN ChainHead.time + 1 ELSE clock[w]]
    /\ UNCHANGED <<stored, table, holder, clock, failed, doubtful>>

\* Insert and commit; the lock goes with the transaction.  Ids are random.
CommitEvent(w) ==
    /\ tx[w].at = "stamped"
    /\ \E id \in 1..MaxEvents \ {e.id : e \in table} :
          table' = table \cup {[id |-> id, prev |-> tx[w].prev, time |-> tx[w].time,
                                key |-> tx[w].key, op |-> tx[w].op]}
    /\ holder' = IF holder = w THEN NoOne ELSE holder
    /\ tx' = [tx EXCEPT ![w] = Idle]
    /\ UNCHANGED <<stored, clock, failed, doubtful>>

\* The connection is lost, the process dies or a statement fails: the
\* transaction is rolled back and the lock is free.
Abort(w) ==
    /\ tx[w].at # "idle"
    /\ failed < MaxLost
    /\ failed' = failed + 1
    /\ Lose(w)
    /\ holder' = IF holder = w THEN NoOne ELSE holder

\* A writer's clock moves, or is set back.
SetClock(w) ==
    /\ \E t \in 0..MaxClock : t # clock[w] /\ clock' = [clock EXCEPT ![w] = t]
    /\ UNCHANGED <<stored, table, holder, tx, failed, doubtful>>

Next ==
    \/ \E w \in Writers, k \in MemKeys, op \in {"commit", "forget"} : Write(w, k, op)
    \/ \E w \in Writers :
          TakeLock(w) \/ LockTimeout(w) \/ Stamp(w) \/ CommitEvent(w) \/ Abort(w) \/ SetClock(w)
    \/ \E k \in MemKeys : RollBack(k) \/ Promote(k) \/ Prune(k)

Spec == Init /\ [][Next]_vars

\* Only the wait for the lock is fair: nothing makes its holder move.
FairSpec == Spec /\ \A w \in Writers : WF_vars(TakeLock(w) \/ LockTimeout(w))

-----------------------------------------------------------------------------
(* Properties *)

\* Every variable keeps its type, and the lock is held by who is past it.
TypeOK ==
    /\ stored \subseteq MemKeys /\ doubtful \subseteq MemKeys
    /\ table \subseteq Event
    /\ holder \in Writers \cup {NoOne}
    /\ tx \in [Writers -> AppendState]
    /\ \A w \in Writers :
        /\ tx[w].at = "idle" <=> tx[w].key = NoOne
        /\ tx[w].at # "idle" => tx[w].op \in {"commit", "forget"}
        /\ holder = w <=> tx[w].at \in {"locked", "stamped"}
    /\ clock \in [Writers -> 0..MaxClock]
    /\ failed \in 0..MaxLost

\* Read in the order of their times the events are one chain: no two follow the
\* same event, none is missing, whatever the clocks said and whichever appends
\* failed half way (tests/test_chain_head_lock.py:290-302).
OneChain ==
    \A i \in 1..Cardinality(table) :
        InOrder[i].prev = IF i = 1 THEN NoOne ELSE InOrder[i - 1].id

\* Once all appends are over, the ledger replays to the keys that have a row,
\* except where the last change of the row left no event (a rollback, a promotion, a
\* pruning), where the event was lost, or where two writers wrote the key at once:
\* there until a write of the key that nothing disturbs.
LedgerFollowsStore ==
    AllIdle => \A k \in MemKeys \ doubtful : k \in ActiveKeys <=> k \in stored

\* The ledger is one chain in the order of its stamps and says what the store holds.
LedgerIsWhole == OneChain /\ LedgerFollowsStore

\* The ledger, read in the order of its times, is an append-only log: an append
\* never goes between or before events a reader has seen.
Log == INSTANCE AppendOnlyLog WITH
    Entries <- 1..MaxEvents, log <- [i \in 1..Cardinality(table) |-> InOrder[i].id]
IsAppendOnly == Log!Spec

\* A writer stuck in its transaction freezes nobody: whoever waits for the lock
\* comes out of the wait (core/postgres_chain_lock.py:10-12).
WaitsEnd == \A w \in Writers : tx[w].at = "waiting" ~> tx[w].at # "waiting"
=============================================================================
