----------------------------- MODULE AuditTrail -----------------------------
(***************************************************************************)
(* The audit log of core/audit.py: a hash chain kept in one SQLite table   *)
(* and appended to by several processes.  Every mutation appends a row;    *)
(* purge_key empties the values of one key's rows and leaves a receipt.    *)
(*                                                                         *)
(* A process stamps a row before it opens the write transaction, and a     *)
(* purge is three separate transactions (select, receipt, empty), so other *)
(* processes and crashes come in between.  SHA-256 is taken to be          *)
(* injective: a data hash is the tuple of the hashed fields and a root is  *)
(* the sequence of the data hashes it covers.                              *)
(***************************************************************************)
EXTENDS Integers, Sequences, FiniteSets

CONSTANTS
    Procs,      \* processes that have the database open
    Keys,       \* memory keys
    Values,     \* serialised memory entries
    None,       \* SQL NULL
    Ops,        \* the kinds of row callers log directly
    MaxRows,    \* bound on the length of the log
    MaxClock    \* bound on the wall clock

OpTypes == {"create", "update", "delete", "consolidate",
            "forget", "rollback", "snapshot", "purge"}

ASSUME OpsAssumption   == Ops \subseteq OpTypes \ {"purge"}
ASSUME BoundAssumption == MaxRows \in Nat /\ MaxClock \in Nat

VARIABLES
    rows,        \* the audit_log table, oldest first; a row's id is its index
    clock,       \* time.time()
    pending,     \* [Procs -> at most one stamped row not yet inserted]
    condemned,   \* [Procs -> the rows a running purge has selected]
    cachedRoot   \* [Procs -> AuditTrail._root_hash]

vars == <<rows, clock, pending, condemned, cachedRoot>>

-----------------------------------------------------------------------------
(* Rows, hashes and verification *)

Genesis == << >>

RowDataHash(row) == <<row.op, row.key, row.ts, row.before, row.after>>

\* The root of the newest row, as the insert's transaction reads it.
HeadRoot(rs) == IF rs = << >> THEN Genesis ELSE rs[Len(rs)].root

RootBefore(rs, i) == IF i = 1 THEN Genesis ELSE rs[i - 1].root

Names(row, i) == row.op = "purge" /\ \E item \in row.after : item.id = i

\* purge_receipt_targets: the newest receipt that names row i says what its
\* hash was, and it must come after the row.
Receipted(rs, i) ==
    \E j \in DOMAIN rs :
        /\ j > i
        /\ rs[j].op = "purge"
        /\ [id |-> i, hash |-> rs[i].hash] \in rs[j].after
        /\ \A k \in DOMAIN rs : k > j => ~Names(rs[k], i)

Emptied(row) == row.before = None /\ row.after = None

WithoutValues(row) == [row EXCEPT !.before = None, !.after = None]

\* Mutant: an empty row is believed without a receipt.
ExpectedDataHashUnreceipted(rs, i) ==
    IF Emptied(rs[i]) THEN rs[i].hash ELSE RowDataHash(rs[i])

\* The data hash verify_chain expects of row i.
ExpectedDataHash(rs, i) ==
    IF Emptied(rs[i]) /\ Receipted(rs, i) THEN rs[i].hash ELSE RowDataHash(rs[i])

VerifyChain(rs) ==
    \A i \in DOMAIN rs :
        /\ rs[i].hash = ExpectedDataHash(rs, i)
        /\ rs[i].root = Append(RootBefore(rs, i), ExpectedDataHash(rs, i))

\* Mutant: the replay forgets the timestamp bound.
ReplayedUnbounded(rs, t, k) ==
    {i \in DOMAIN rs : rs[i].key = k /\
        rs[i].op \in {"create", "update", "consolidate", "delete", "forget"}}

\* get_state_at: replay the rows stamped up to t, in id order.
Replayed(rs, t, k) ==
    {i \in DOMAIN rs : rs[i].ts <= t /\ rs[i].key = k /\
        rs[i].op \in {"create", "update", "consolidate", "delete", "forget"}}

LastReplayed(rs, t, k) ==
    {i \in Replayed(rs, t, k) : \A j \in Replayed(rs, t, k) : j <= i}

GetStateAt(rs, t) ==
    [k \in {k \in Keys : \E i \in LastReplayed(rs, t, k) :
                             rs[i].op \notin {"delete", "forget"}}
        |-> rs[CHOOSE i \in LastReplayed(rs, t, k) : TRUE].after]

-----------------------------------------------------------------------------
(* Types *)

Clock    == 0..MaxClock
Cell     == Values \cup {None}
PlainHash == Ops \X Keys \X Clock \X Cell \X Cell
Item     == [id : 1..MaxRows, hash : PlainHash]
Receipt  == SUBSET Item
Hash     == PlainHash \cup ({"purge"} \X Keys \X Clock \X {None} \X Receipt)
Draft    == [op : Ops, key : Keys, ts : Clock, before : Cell, after : Cell]
            \cup [op : {"purge"}, key : Keys, ts : Clock, before : {None}, after : Receipt]
Row      == [op : Ops, key : Keys, ts : Clock, before : Cell, after : Cell,
             hash : PlainHash, root : Seq(Hash)]
            \cup [op : {"purge"}, key : Keys, ts : Clock, before : {None}, after : Receipt,
                  hash : {"purge"} \X Keys \X Clock \X {None} \X Receipt, root : Seq(Hash)]

-----------------------------------------------------------------------------
Init ==
    /\ rows = << >>
    /\ clock = 0
    /\ pending = [p \in Procs |-> {}]
    /\ condemned = [p \in Procs |-> {}]
    /\ cachedRoot = [p \in Procs |-> Genesis]

\* What the state plane passes to log(): a create has no earlier value, a
\* deletion no later one, the row of an evicted entry keeps only the earlier.
CallerWrites(op, before, after) ==
    CASE op = "create"              -> before = None /\ after # None
      [] op = "update"              -> before # None /\ after # None
      [] op \in {"delete", "forget"} -> before # None /\ after = None
      [] op = "consolidate"         -> before # None
      [] OTHER                      -> TRUE

\* A process runs one audit call at a time: the calls never await.
Idle(p) == pending[p] = {} /\ condemned[p] = {}

\* log(): the row is built and stamped before BEGIN IMMEDIATE.
LogStamp(p, op, k, before, after) ==
    /\ Idle(p)
    /\ CallerWrites(op, before, after)
    /\ pending' = [pending EXCEPT ![p] =
           {[op |-> op, key |-> k, ts |-> clock, before |-> before, after |-> after]}]
    /\ UNCHANGED <<rows, clock, condemned, cachedRoot>>

\* Mutant: chain to the process's cached root instead of the stored head.
PrevRootCached(p) == cachedRoot[p]

\* The root a new row is chained to, read inside the insert's transaction.
PrevRoot(p) == HeadRoot(rows)

\* log(): BEGIN IMMEDIATE, read the head, insert, commit.
LogInsert(p) ==
    \E d \in pending[p] :
        LET hash == RowDataHash(d)
            root == Append(PrevRoot(p), hash)
        IN  /\ Len(rows) < MaxRows
            /\ rows' = Append(rows, [op |-> d.op, key |-> d.key, ts |-> d.ts,
                                     before |-> d.before, after |-> d.after,
                                     hash |-> hash, root |-> root])
            /\ cachedRoot' = [cachedRoot EXCEPT ![p] = root]
            /\ pending' = [pending EXCEPT ![p] = {}]
            /\ UNCHANGED <<clock, condemned>>

\* Mutant: the new root is cached before the transaction is known to commit.
LogFailCachingRoot(p) ==
    \E d \in pending[p] :
        /\ pending' = [pending EXCEPT ![p] = {}]
        /\ condemned' = [condemned EXCEPT ![p] = {}]
        /\ cachedRoot' = [cachedRoot EXCEPT ![p] = Append(PrevRoot(p), RowDataHash(d))]
        /\ UNCHANGED <<rows, clock>>

\* log(): the transaction fails, is rolled back and the error is raised
\* through the purge that asked for the row, if there is one.
LogFail(p) ==
    /\ pending[p] # {}
    /\ pending' = [pending EXCEPT ![p] = {}]
    /\ condemned' = [condemned EXCEPT ![p] = {}]
    /\ UNCHANGED <<rows, clock, cachedRoot>>

\* Mutant: a purge also empties earlier receipts.
PurgeableReceiptsToo(k) ==
    {i \in DOMAIN rows : rows[i].key = k /\ ~Emptied(rows[i])}

\* has_purgeable_rows and purge_key's SELECT.
Purgeable(k) ==
    {i \in DOMAIN rows : rows[i].key = k /\ ~Emptied(rows[i]) /\ rows[i].op # "purge"}

\* purge_key: select the rows and draw up the receipt that names them.
PurgeSelect(p, k) ==
    LET items == {[id |-> i, hash |-> rows[i].hash] : i \in Purgeable(k)}
    IN  /\ Idle(p)
        /\ items # {}
        /\ condemned' = [condemned EXCEPT ![p] = Purgeable(k)]
        /\ pending' = [pending EXCEPT ![p] =
               {[op |-> "purge", key |-> k, ts |-> clock, before |-> None, after |-> items]}]
        /\ UNCHANGED <<rows, clock, cachedRoot>>

\* purge_key: the receipt is in the log; empty the selected rows, one commit.
PurgeEmpty(p) ==
    /\ pending[p] = {}
    /\ condemned[p] # {}
    /\ rows' = [i \in DOMAIN rows |->
                   IF i \in condemned[p] THEN WithoutValues(rows[i]) ELSE rows[i]]
    /\ condemned' = [condemned EXCEPT ![p] = {}]
    /\ UNCHANGED <<clock, pending, cachedRoot>>

\* refresh_root_hash.
RefreshRootHash(p) ==
    /\ Idle(p)
    /\ cachedRoot' = [cachedRoot EXCEPT ![p] = HeadRoot(rows)]
    /\ UNCHANGED <<rows, clock, pending, condemned>>

\* The process dies at any point and starts again: init loads the head.
Restart(p) ==
    /\ pending' = [pending EXCEPT ![p] = {}]
    /\ condemned' = [condemned EXCEPT ![p] = {}]
    /\ cachedRoot' = [cachedRoot EXCEPT ![p] = HeadRoot(rows)]
    /\ UNCHANGED <<rows, clock>>

Tick ==
    /\ clock < MaxClock
    /\ clock' = clock + 1
    /\ UNCHANGED <<rows, pending, condemned, cachedRoot>>

Next ==
    \/ \E p \in Procs :
        \/ \E op \in Ops, k \in Keys, before, after \in Cell : LogStamp(p, op, k, before, after)
        \/ LogInsert(p)
        \/ LogFail(p)
        \/ \E k \in Keys : PurgeSelect(p, k)
        \/ PurgeEmpty(p)
        \/ RefreshRootHash(p)
        \/ Restart(p)
    \/ Tick

Spec == Init /\ [][Next]_vars

-----------------------------------------------------------------------------
(* Properties *)

\* Every variable keeps its type: one stamped row per process, receipts that
\* list only plain rows (as what a running purge empties does), roots that are sequences of data hashes.
TypeOK ==
    /\ rows \in Seq(Row)
    /\ Len(rows) <= MaxRows
    /\ clock \in Clock
    /\ pending \in [Procs -> SUBSET Draft]
    /\ condemned \in [Procs -> SUBSET {i \in DOMAIN rows : rows[i].op # "purge"}]
    /\ cachedRoot \in [Procs -> Seq(Hash)]

\* The log the program writes always verifies: with several writers, between
\* a purge's receipt and its emptying, after a crash in the middle of either
\* (audit.py:249 "the chain verifies at every step").
ChainVerifies == VerifyChain(rows)

\* A log that verifies shows the history that was written: replace the values
\* of any one row and verification fails, unless a receipt allows that row to
\* be empty (audit.py:11-12 "emptying a row without a receipt still breaks
\* verification").
AlterationDetected ==
    \A i \in DOMAIN rows : \A before, after \in Cell :
        LET forged == [rows EXCEPT ![i].before = before, ![i].after = after]
            asked  == \E j \in i + 1 .. Len(rows) : Names(rows[j], i)
        IN  rows[i].op # "purge" /\ VerifyChain(forged) =>
                \/ <<before, after>> = <<rows[i].hash[4], rows[i].hash[5]>>
                \/ <<before, after>> = <<None, None>> /\ asked

\* The cached root may be stale but is always one the chain really had, so a
\* restore bound to it can be recognised as stale, never as forged.
CachedRootOnChain ==
    \A p \in Procs : cachedRoot[p] = Genesis \/ \E i \in DOMAIN rows : cachedRoot[p] = rows[i].root

\* In this step, every past moment that no stamped row waits for keeps its
\* reconstruction, but for values a purge takes out.
KeepsThePast ==
    \A t \in 0 .. clock - 1 :
        (\A p \in Procs : \A d \in pending[p] : d.ts > t) =>
            LET was == GetStateAt(rows, t)
                is  == GetStateAt(rows', t)
            IN  /\ DOMAIN is = DOMAIN was
                /\ \A k \in DOMAIN was : is[k] \in {was[k], None}

\* Reconstruction of a past moment is settled once nobody holds a row stamped
\* at or before it: later writes by any process leave it alone, a purge may
\* only take a value out of it.
PastIsSettled == [][KeepsThePast]_vars
=============================================================================
