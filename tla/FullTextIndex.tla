---------------------------- MODULE FullTextIndex ----------------------------
(***************************************************************************)
(* Processes open one SQLite file that may be older than they are          *)
(* (storage/sqlite.py init, _ensure_fts_v2): the tables are created, the   *)
(* folded full-text index is created, filled and given its triggers in one *)
(* write transaction, and the version is recorded in another.  Meanwhile   *)
(* others, of older code too, write memories, and any process may die.     *)
(*                                                                         *)
(* A wait for the write lock may end: the index is then left to the next   *)
(* open, anything else fails this one.  The triggers are part of the file, *)
(* so from then on every writer keeps the index.  The legacy index, which  *)
(* is searched as long as there is no folded one, is not shown; the sweep  *)
(* of orphans that goes with the first open is in EntityIndex.             *)
(***************************************************************************)
EXTENDS Integers

CONSTANTS
    Procs, Keys, Texts,
    None

Contents == [Keys -> Texts \cup {None}]

ConstantsFit == None \notin Procs /\ None \notin Contents

VARIABLES
    mem,            \* [Keys -> text or None]: the memories table
    folded,         \* what mem_fts_v2 holds, or None; with its triggers
    versions,       \* the rows of schema_version
    lock,           \* who holds the write lock, or None
    at,             \* [Procs -> where in init it is, "open" or "closed"]
    knows,          \* [Procs -> the rows it is filling the index with]
    target,         \* [Procs -> the version to record]
    seen            \* [Procs -> the version it found]

fvars == <<mem, folded, versions, lock, at, knows, target, seen>>

Nothing == [k \in Keys |-> None]

Goes(p, place) == at' = [at EXCEPT ![p] = place]

\* A new file, or one of older code, which may be open.
Init ==
    /\ \/ mem = Nothing /\ versions = {} /\ at = [p \in Procs |-> "closed"]
       \/ mem \in Contents /\ versions = {1} /\ at \in [Procs -> {"closed", "open"}]
    /\ folded = None /\ lock = None
    /\ knows = [p \in Procs |-> Nothing]
    /\ target = [p \in Procs |-> 0] /\ seen = [p \in Procs |-> 0]

\* Tables that are there already are left alone.
Open(p) ==
    /\ at[p] = "closed" /\ Goes(p, "tables")
    /\ UNCHANGED <<mem, folded, versions, lock, knows, target, seen>>

\* Mutant: the transaction begins as a reader.
HeldDeferred(p) == lock

\* BEGIN IMMEDIATE
Held(p) == p

\* The fill reads the memories under the write lock.
Fill(p) ==
    /\ at[p] = "tables" /\ lock = None
    /\ lock' = Held(p) /\ knows' = [knows EXCEPT ![p] = mem]
    /\ Goes(p, "filling")
    /\ UNCHANGED <<mem, folded, versions, target, seen>>

\* Mutant: the version is that of the code.
TargetOfCode(built) == 2

Target(built) == IF built THEN 2 ELSE 1

Has(p, built) ==
    /\ target' = [target EXCEPT ![p] = Target(built)] /\ knows' = [knows EXCEPT ![p] = Nothing]
    /\ Goes(p, "version")
    /\ UNCHANGED <<mem, versions, seen>>

Built(p) ==
    /\ at[p] = "filling" /\ lock \in {None, p} /\ lock' = None
    /\ folded' = IF folded = None THEN knows[p] ELSE folded
    /\ Has(p, TRUE)

\* The lock is not to be had, or a statement fails and all is rolled back.
NotBuilt(p) ==
    \/ at[p] = "tables" /\ lock # None /\ UNCHANGED <<folded, lock>> /\ Has(p, FALSE)
    \/ at[p] = "filling" /\ lock' = None /\ UNCHANGED folded /\ Has(p, FALSE)

\* The newest version, read without a transaction.
ReadVersion(p) ==
    /\ at[p] = "version"
    /\ seen' = [seen EXCEPT ![p] = IF 2 \in versions THEN 2 ELSE IF 1 \in versions THEN 1 ELSE 0]
    /\ Goes(p, "record")
    /\ UNCHANGED <<mem, folded, versions, lock, knows, target>>

\* A version that another process has recorded since violates the primary key.
Record(p) ==
    /\ at[p] = "record" /\ (seen[p] < target[p] => lock = None)
    /\ IF seen[p] < target[p] /\ target[p] \in versions
       THEN Goes(p, "refused") /\ UNCHANGED versions
       ELSE /\ Goes(p, "open")
            /\ versions' = IF seen[p] < target[p] THEN versions \cup {target[p]} ELSE versions
    /\ UNCHANGED <<mem, folded, lock, knows, target, seen>>

\* The process dies, closes the file, or gives up waiting.
Close(p) ==
    /\ at[p] # "closed"
    /\ lock' = IF lock = p THEN None ELSE lock
    /\ knows' = [knows EXCEPT ![p] = Nothing]
    /\ target' = [target EXCEPT ![p] = 0] /\ seen' = [seen EXCEPT ![p] = 0]
    /\ Goes(p, "closed")
    /\ UNCHANGED <<mem, folded, versions>>

\* A save or a delete, and the triggers it fires.
Write(p, k, t) ==
    /\ at[p] = "open" /\ lock = None /\ mem[k] # t
    /\ mem' = [mem EXCEPT ![k] = t]
    /\ folded' = IF folded = None THEN None ELSE [folded EXCEPT ![k] = t]
    /\ UNCHANGED <<versions, lock, at, knows, target, seen>>

Next ==
    \E p \in Procs :
        \/ Open(p) \/ Fill(p) \/ Built(p) \/ NotBuilt(p) \/ ReadVersion(p) \/ Record(p) \/ Close(p)
        \/ \E k \in Keys, t \in Texts \cup {None} : Write(p, k, t)

Spec == Init /\ [][Next]_fvars

-----------------------------------------------------------------------------
(* Properties *)

TypeOK ==
    /\ mem \in Contents /\ folded \in Contents \cup {None} /\ versions \subseteq {1, 2}
    /\ lock # None => at[lock] = "filling"

\* The folded index holds every memory as it is stored, and nothing else, from
\* the moment it is there, whoever was writing when it was filled (sqlite.py:302-309).
IndexFollowsRows == folded # None => folded = mem

\* A file whose version is 2 has the index (sqlite.py:276-278).
VersionIsTrue == 2 \in versions => folded # None

\* No open fails because another process opens the file at the same time
\* (sqlite.py:305-307 "a second process waits, then finds the table").
OpensTogether == \A p \in Procs : at[p] # "refused"
=============================================================================
