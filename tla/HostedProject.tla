--------------------------- MODULE HostedProject ---------------------------
(***************************************************************************)
(* What the calls of one hosted project do to its storage                  *)
(* (cloud/runtime.py over storage/postgres.py): write, confirm, forget,    *)
(* purge of a key, snapshots, and rollback to a snapshot by preview and    *)
(* execute.  Mutations hold the project's lock, so one runs at a time; but *)
(* each is a series of transactions and file writes with no transaction    *)
(* around them.  A call is a plan: its effects in program order.  Any of   *)
(* them may raise, and the process may die between two.                    *)
(*                                                                         *)
(* An entry is the number of the write that made it, so a value is told    *)
(* from every other.  Claims, entity mentions and vectors of a row go in   *)
(* the transaction that deletes it and are not shown.  Recall and preview  *)
(* do not take the lock.  A capture row is written where recall reads the  *)
(* row: one written later by a recall in flight is out of scope.           *)
(***************************************************************************)
EXTENDS Integers, Sequences, FiniteSets

CONSTANTS
    Keys,
    SnapIds,     \* names of snapshot files
    Others,      \* does another process write to the project too?
    MaxWrites,   \* bound on the entries ever made
    MaxRoot,     \* bound on the audit rows
    MaxFaults,   \* bound on the calls cut short
    None

ASSUME BoundAssumption == MaxWrites \in Nat /\ MaxRoot \in Nat /\ MaxFaults \in Nat
ASSUME OthersAssumption == Others \in BOOLEAN
ASSUME FiniteAssumption == IsFiniteSet(Keys) /\ IsFiniteSet(SnapIds)

Absent  == 0
Entries == 1..MaxWrites
State   == [Keys -> Entries \cup {Absent}]

\* A snapshot file: readable once it is completely written.
Snapshots == [readable : BOOLEAN, entries : State]

\* A running mutation; a rollback knows its target and the restores refused.
Mutations ==
    [op : {"write", "forget", "purge"}, key : Keys]
    \cup [op : {"snapshot"}, key : {None}]
    \cup [op : {"rollback"}, bound : BOOLEAN, target : State, missed : SUBSET Keys]

ASSUME NoneAssumption == None \notin Keys \cup Snapshots \cup Mutations

VARIABLES
    rows,        \* State: bilinc_entries
    root,        \* the head of the audit chain: how many rows were appended
    cachedRoot,  \* AuditTrail._root_hash of this process
    logged,      \* [Keys -> the entries audit rows of the key still hold]
    events,      \* [Keys -> the entries whose event payloads are not purged]
    oplog,       \* [Keys -> the entries in AGMEngine.operation_log]
    captures,    \* keys that eval capture rows name
    snaps,       \* [SnapIds -> [readable, entries] or None]: the snapshot files
    preview,     \* the preview a caller holds: [snap, root, state], or None
    plan,        \* what the running mutation has still to do
    call,        \* the running mutation, or None
    writes,      \* entries made so far
    faults,      \* calls cut short so far
    \* For the properties only:
    torn,        \* keys changed without the audit row that should follow
    cut,         \* keys whose last purge was cut short
    purged       \* [Keys -> the newest entry made before the last complete purge]

storage == <<rows, root, logged, events, captures, snaps>>
memory  == <<cachedRoot, oplog, preview>>
ghosts  == <<torn, cut, purged>>
vars    == <<storage, memory, plan, call, writes, faults, ghosts>>

-----------------------------------------------------------------------------
(* Effects *)

Do(what, k, entries)    == [do |-> what, key |-> k, entries |-> entries, snap |-> None]
OnFile(what, k, e, s)   == [do |-> what, key |-> k, entries |-> e, snap |-> s]

Some(e) == IF e = Absent THEN {} ELSE {e}

\* The code goes through keys and files in the order of their names, left open here.
Orders(set) == {order \in [1..Cardinality(set) -> set] : \A x \in set : \E i \in DOMAIN order : order[i] = x}

\* A change and its audit row, for one key after the other.
Each(order, Change(_), Log(_)) ==
    [i \in 1..2 * Len(order) |->
        LET k == order[(i + 1) \div 2] IN IF i % 2 = 1 THEN Change(k) ELSE Log(k)]

When(cond, steps) == IF cond THEN steps ELSE << >>

Idle == plan = << >>

Held(state) == {k \in Keys : state[k] # Absent}

Readable(s) == snaps[s] # None /\ snaps[s].readable

\* load_snapshot: the recorded entries.
Target(s) == snaps[s].entries

Init ==
    /\ rows = [k \in Keys |-> Absent]
    /\ root = 0
    /\ cachedRoot = 0
    /\ logged = [k \in Keys |-> {}]
    /\ events = [k \in Keys |-> {}]
    /\ oplog = [k \in Keys |-> {}]
    /\ captures = {}
    /\ snaps = [s \in SnapIds |-> None]
    /\ preview = None
    /\ plan = << >>
    /\ call = None
    /\ writes = 0
    /\ faults = 0
    /\ torn = {}
    /\ cut = {}
    /\ purged = [k \in Keys |-> 0]

\* A mutation gets the lock; its audit rows have to fit under MaxRoot.
Begin(what, steps) ==
    /\ Idle
    /\ root + Cardinality({i \in DOMAIN steps : steps[i].do \in {"log", "receipt"}}) <= MaxRoot
    /\ plan' = steps
    /\ call' = what
    /\ UNCHANGED <<storage, faults, ghosts>>

Call(op, k) == [op |-> op, key |-> k]

NewEntry == writes < MaxWrites /\ writes' = writes + 1

-----------------------------------------------------------------------------
(* Mutations *)

\* commit, and revise of a key that is stored: revise the belief, save, append
\* the event, log.  The operation log records a revision that changes the value;
\* one that loses its conflict stores nothing and keeps no value.
Write(k) ==
    /\ NewEntry
    /\ \/ oplog' = [oplog EXCEPT ![k] = @ \cup {writes'}]
       \/ rows[k] # Absent /\ UNCHANGED oplog
    /\ Begin(Call("write", k), << Do("save", k, {writes'}),
                                 Do("event", k, {writes'}),
                                 Do("log", k, Some(rows[k]) \cup {writes'}),
                                 Do("return", k, {}) >>)
    /\ UNCHANGED <<cachedRoot, preview>>

\* Mutant: a confirmation is not logged.
ConfirmUnlogged(k) ==
    /\ rows[k] # Absent
    /\ NewEntry
    /\ Begin(Call("write", k), << Do("save", k, {writes'}), Do("return", k, {}) >>)
    /\ UNCHANGED memory

\* confirm: the row again with a new updated_at, no event.
Confirm(k) ==
    /\ rows[k] # Absent
    /\ NewEntry
    /\ Begin(Call("write", k),
             << Do("save", k, {writes'}), Do("log", k, {rows[k], writes'}), Do("return", k, {}) >>)
    /\ UNCHANGED memory

\* StatePlane.forget, and the row that records the reason.
ForgetSteps(k) ==
    << Do("delete", k, {}), Do("log", k, {rows[k]}), Do("log", k, {}) >>

Forget(k) ==
    /\ rows[k] # Absent
    /\ Begin(Call("forget", k), ForgetSteps(k) \o << Do("return", k, {}) >>)
    /\ UNCHANGED <<memory, writes>>

\* Snapshot files of the project that hold an entry of the key.
Holding(k) == {s \in SnapIds : Readable(s) /\ Target(s)[k] # Absent}

\* The gate of forget with purge: is there anything to remove?
Admitted(k) == rows[k] # Absent \/ logged[k] # {} \/ Holding(k) # {}

\* Mutant: the capture rows go after the audit rows.
PurgeStepsCapturesLast(k, files) ==
    << Do("redact", k, {}) >>
    \o When(rows[k] # Absent \/ logged[k] # {}, << Do("receipt", k, {}), Do("empty", k, {}) >>)
    \o << Do("captures", k, {}), Do("payloads", k, {}) >> \o files

\* _purge_key: operation log, capture rows, audit rows behind a receipt, event
\* payloads, then the snapshot files one by one.
PurgeSteps(k, files) ==
    << Do("redact", k, {}), Do("captures", k, {}) >>
    \o When(rows[k] # Absent \/ logged[k] # {}, << Do("receipt", k, {}), Do("empty", k, {}) >>)
    \o << Do("payloads", k, {}) >> \o files

\* forget with purge: an unreadable snapshot file blocks it before anything changes.
Purge(k) ==
    /\ \A s \in SnapIds : snaps[s] # None => Readable(s)
    /\ Admitted(k)
    /\ \E order \in Orders(Holding(k)) :
          LET files == [i \in DOMAIN order |-> OnFile("scrub", k, {}, order[i])]
          IN  Begin(Call("purge", k),
                    When(rows[k] # Absent, ForgetSteps(k)) \o PurgeSteps(k, files)
                    \o << Do("return", k, {}) >>)
    /\ UNCHANGED <<memory, writes>>

\* create_snapshot: the state is read, then the file is created and filled.
CreateSnapshot(s) ==
    /\ snaps[s] = None
    /\ Begin(Call("snapshot", None),
             << OnFile("create", None, rows, s), OnFile("fill", None, rows, s),
                Do("return", None, {}) >>)
    /\ UNCHANGED <<memory, writes>>

\* rollback_execute: delete what the snapshot does not have, restore what differs.
RollbackSteps(target, away, back) ==
    LET delete(k)  == Do("delete", k, {})
        restore(k) == Do("restore", k, {target[k]})
        log(k)     == Do("log", k, Some(rows[k]) \cup Some(target[k]))
    IN  Each(away, delete, log) \o Each(back, restore, log)
        \o << Do("log", None, {}), Do("return", None, {}) >>

\* Mutant: the confirmed root is compared with the process's cached one.
CurrentRootCached == cachedRoot

\* fresh_state_version: the head is read from the store.
CurrentRoot == root

\* bound: the caller sends the root of its preview along, and it has not moved.
Rollback(s, bound) ==
    /\ Readable(s)
    /\ bound => /\ preview # None /\ preview.snap = s /\ preview.state # None
                /\ CurrentRoot = preview.root
    /\ \E away \in Orders(Held(rows) \ Held(Target(s))),
          back \in Orders({k \in Held(Target(s)) : rows[k] # Target(s)[k]}) :
          Begin([op |-> "rollback", bound |-> bound, target |-> Target(s), missed |-> {}],
                RollbackSteps(Target(s), away, back))
    /\ cachedRoot' = root
    /\ UNCHANGED <<oplog, preview, writes>>

-----------------------------------------------------------------------------
(* The effects take place one by one *)

Now(what) == ~Idle /\ Head(plan).do = what

Proceed ==
    /\ plan' = Tail(plan)
    /\ UNCHANGED <<preview, writes, faults>>

K == Head(plan).key
E == Head(plan).entries
S == Head(plan).snap

TheEntry == CHOOSE e \in E : TRUE

SaveRow ==
    /\ Now("save") \/ Now("restore")
    /\ Proceed
    /\ rows' = [rows EXCEPT ![K] = TheEntry]
    /\ UNCHANGED <<root, logged, events, captures, snaps, cachedRoot, oplog, call, ghosts>>

\* PostgresBackend.save logs an error and returns False; rollback_execute does
\* not look at the result.
RestoreRefused ==
    /\ Now("restore")
    /\ faults < MaxFaults
    /\ faults' = faults + 1
    /\ plan' = Tail(plan)
    /\ call' = [call EXCEPT !.missed = @ \cup {K}]
    /\ UNCHANGED <<storage, memory, writes, ghosts>>

DeleteRow ==
    /\ Now("delete")
    /\ Proceed
    /\ rows' = [rows EXCEPT ![K] = Absent]
    /\ UNCHANGED <<root, logged, events, captures, snaps, cachedRoot, oplog, call, ghosts>>

\* _append_memory_event is best effort: its failure is swallowed.
AppendEvent ==
    /\ Now("event")
    /\ Proceed
    /\ \E e \in {E, {}} : events' = [events EXCEPT ![K] = @ \cup e]
    /\ UNCHANGED <<rows, root, logged, captures, snaps, cachedRoot, oplog, call, ghosts>>

\* audit.log; the receipt of a purge names no value.
AppendAudit ==
    /\ Now("log") \/ Now("receipt")
    /\ Proceed
    /\ root' = root + 1
    /\ cachedRoot' = root'
    /\ logged' = IF K = None THEN logged ELSE [logged EXCEPT ![K] = @ \cup E]
    /\ torn' = torn \ {K}
    /\ UNCHANGED <<rows, events, captures, snaps, oplog, call, cut, purged>>

RedactOperationLog ==
    /\ Now("redact")
    /\ Proceed
    /\ oplog' = [oplog EXCEPT ![K] = {}]
    /\ UNCHANGED <<storage, cachedRoot, call, ghosts>>

PurgeCaptures ==
    /\ Now("captures")
    /\ Proceed
    /\ captures' = captures \ {K}
    /\ UNCHANGED <<rows, root, logged, events, snaps, cachedRoot, oplog, call, ghosts>>

EmptyAuditRows ==
    /\ Now("empty")
    /\ Proceed
    /\ logged' = [logged EXCEPT ![K] = {}]
    /\ UNCHANGED <<rows, root, events, captures, snaps, cachedRoot, oplog, call, ghosts>>

PurgePayloads ==
    /\ Now("payloads")
    /\ Proceed
    /\ events' = [events EXCEPT ![K] = {}]
    /\ UNCHANGED <<rows, root, logged, captures, snaps, cachedRoot, oplog, call, ghosts>>

\* write_text: between create and fill the file may hold any part of the text.
WriteSnapshot ==
    /\ Now("create") \/ Now("fill")
    /\ Proceed
    /\ snaps' = [snaps EXCEPT ![S] = [readable |-> Now("fill"), entries |-> E]]
    /\ UNCHANGED <<rows, root, logged, events, captures, cachedRoot, oplog, call, ghosts>>

\* A temporary file takes the snapshot's place.
ScrubSnapshot ==
    /\ Now("scrub")
    /\ Proceed
    /\ snaps' = [snaps EXCEPT ![S].entries[K] = Absent]
    /\ UNCHANGED <<rows, root, logged, events, captures, cachedRoot, oplog, call, ghosts>>

Return ==
    /\ Now("return")
    /\ Proceed
    /\ call' = None
    /\ IF call.op = "purge"
       THEN /\ purged' = [purged EXCEPT ![K] = writes]
            /\ cut' = cut \ {K}
       ELSE UNCHANGED <<purged, cut>>
    /\ UNCHANGED <<storage, cachedRoot, oplog, torn>>

\* Keys whose row the abandoned call has changed, but not logged.
Unlogged ==
    LET logs   == {plan[i].key : i \in {j \in DOMAIN plan : plan[j].do = "log" /\ plan[j].entries # {}}}
        undone == {plan[i].key : i \in {j \in DOMAIN plan : plan[j].do \in {"save", "restore", "delete"}}}
    IN  logs \ undone

\* Mutant: the failed call stays the running one.
CutShortKeepingCall ==
    /\ plan' = << >>
    /\ faults' = IF Idle THEN faults ELSE faults + 1
    /\ faults' <= MaxFaults
    /\ UNCHANGED <<call, cut, torn>>

CutShort ==
    /\ plan' = << >>
    /\ call' = None
    /\ faults' = IF Idle THEN faults ELSE faults + 1
    /\ faults' <= MaxFaults
    /\ cut' = IF call # None /\ call.op = "purge" THEN cut \cup {call.key} ELSE cut
    /\ torn' = torn \cup Unlogged

\* The next effect raises and the call gives up; an event and the redaction of
\* the operation log cannot, and a refused restore does not.
Fail ==
    /\ ~Idle
    /\ Head(plan).do \notin {"event", "redact", "restore", "return"}
    /\ CutShort
    /\ UNCHANGED <<storage, memory, writes, purged>>

\* The process dies, between calls or in the middle of one, and starts again.
Restart ==
    /\ CutShort
    /\ oplog' = [k \in Keys |-> {}]
    /\ cachedRoot' = root
    /\ preview' = IF preview # None /\ preview.state = None THEN None ELSE preview
    /\ UNCHANGED <<storage, writes, purged>>

-----------------------------------------------------------------------------
(* Without the lock *)

\* rollback_preview reads the head first ...
PreviewHead(s) ==
    /\ Readable(s)
    /\ preview' = [snap |-> s, root |-> root, state |-> None]
    /\ cachedRoot' = root
    /\ UNCHANGED <<storage, oplog, plan, call, writes, faults, ghosts>>

\* ... and the state after it.
PreviewState ==
    /\ preview # None
    /\ preview.state = None
    /\ preview' = [preview EXCEPT !.state = rows]
    /\ UNCHANGED <<storage, cachedRoot, oplog, plan, call, writes, faults, ghosts>>

\* recall with eval capture on: a row that names the key it returned.
CaptureRecall(k) ==
    /\ rows[k] # Absent
    /\ captures' = captures \cup {k}
    /\ UNCHANGED <<rows, root, logged, events, snaps, memory, plan, call, writes, faults, ghosts>>

\* A call of another process, between the calls of this one: saved and logged.
OtherWrite(k) ==
    /\ Others
    /\ Idle
    /\ root < MaxRoot
    /\ NewEntry
    /\ rows' = [rows EXCEPT ![k] = writes']
    /\ root' = root + 1
    /\ logged' = [logged EXCEPT ![k] = @ \cup Some(rows[k]) \cup {writes'}]
    /\ torn' = torn \ {k}
    /\ UNCHANGED <<events, captures, snaps, memory, plan, call, faults, cut, purged>>

Next ==
    \/ \E k \in Keys : \/ Write(k) \/ Confirm(k) \/ Forget(k) \/ Purge(k)
                       \/ CaptureRecall(k) \/ OtherWrite(k)
    \/ \E s \in SnapIds : \/ CreateSnapshot(s) \/ PreviewHead(s)
                          \/ \E bound \in BOOLEAN : Rollback(s, bound)
    \/ PreviewState
    \/ SaveRow \/ RestoreRefused \/ DeleteRow
    \/ AppendEvent \/ AppendAudit
    \/ RedactOperationLog \/ PurgeCaptures \/ EmptyAuditRows \/ PurgePayloads
    \/ WriteSnapshot \/ ScrubSnapshot
    \/ Return \/ Fail \/ Restart

Spec == Init /\ [][Next]_vars

-----------------------------------------------------------------------------
(* Properties *)

\* Every variable keeps its type.
TypeOK ==
    /\ rows \in State
    /\ root \in 0..MaxRoot /\ cachedRoot \in 0..root
    /\ \A f \in {logged, events, oplog} : f \in [Keys -> SUBSET Entries]
    /\ captures \subseteq Keys
    /\ snaps \in [SnapIds -> Snapshots \cup {None}]
    /\ preview \in [snap : SnapIds, root : 0..MaxRoot, state : State \cup {None}] \cup {None}
    /\ call \in Mutations \cup {None} /\ (call = None <=> Idle)
    /\ writes \in 0..MaxWrites /\ faults \in 0..MaxFaults
    /\ torn \subseteq Keys /\ cut \subseteq Keys
    /\ purged \in [Keys -> 0..MaxWrites]

\* Everything of key k that is kept anywhere.
Traces(k) ==
    Some(rows[k]) \cup logged[k] \cup events[k] \cup oplog[k]
    \cup UNION {Some(Target(s)[k]) : s \in {s \in SnapIds : snaps[s] # None}}

\* docs/security.md:125 "A purged value is no longer returned by any Bilinc API,
\* tool, search or export": once a purge has reported success, no entry made
\* before it is left in the rows, the audit log, the event ledger, the
\* operation log or a snapshot file, and no later rollback or failed call
\* brings one back.
PurgedIsGone == \A k \in Keys : \A e \in Traces(k) : e > purged[k]

\* Between calls every stored entry is in the audit log, unless the call that stored it was
\* cut short before its audit row: history can show it, and a purge that finds
\* the key finds its values.
RowsAreLogged == Idle => \A k \in Held(rows) \ torn : rows[k] \in logged[k]

\* The order of _purge_key (runtime.py:1423-1427): as long as capture rows
\* name a key whose purge was cut short, the gate admits a retry.
CapturesKeepGateOpen ==
    Idle => \A k \in (cut \cap captures) \ torn : Admitted(k)

\* A purge keeps its word: what it reports gone is gone, and what it left behind
\* when it was cut short can still be purged.
PurgeKeepsItsWord == PurgedIsGone /\ CapturesKeepGateOpen

\* CHANGELOG.md:59 "A purge cut short can be finished": as long as something of
\* the key is left, the gate admits a retry.
PurgeCanBeFinished ==
    Idle => \A k \in cut \ torn : Traces(k) # {} => Admitted(k)

\* A bound rollback that begins finds what its preview showed, but for the torn keys.
BeginsAsShown ==
    Idle /\ call' # None /\ call'.op = "rollback" /\ call'.bound =>
        \A k \in Keys \ torn : rows[k] = preview.state[k]

\* A rollback that returns leaves its target, but for the keys it missed.
EndsAsAsked ==
    Now("return") /\ Return /\ call.op = "rollback" =>
        \A k \in Keys \ call.missed : rows[k] = call.target[k]

\* rollback_preview (runtime.py:1661-1663): an execute that is bound to a
\* preview finds the state the caller was shown, though the preview takes no
\* lock and other processes write; only a key whose change was never logged
\* may differ.
ExecuteIsConfirmed == [][BeginsAsShown]_vars

\* A rollback that returns has restored the snapshot it was asked for, as it
\* was when the call began, but for the restores the storage refused.
RollbackRestores == [][EndsAsAsked]_vars

\* A rollback keeps its word: it begins in the state that was confirmed and ends
\* in the one that was asked for.
RollbackKeepsItsWord == ExecuteIsConfirmed /\ RollbackRestores

\* rollback_execute (runtime.py:1721 "Restore the project to a stored
\* snapshot"): when it reports success, that is what is stored.
RollbackReportsTruth ==
    [][Now("return") /\ Return /\ call.op = "rollback" => rows = call.target]_vars
=============================================================================
