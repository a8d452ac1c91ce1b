--------------------------- MODULE SharedBeliefs ---------------------------
(***************************************************************************)
(* Several agent processes share one SQLite file; each keeps in memory the *)
(* AGM belief set it loaded at startup (adaptive/agm_engine.py), the       *)
(* memories warmed into its working-memory buffer, and the list a decay    *)
(* pass works through (core/stateplane.py).  The MCP tools commit_mem,     *)
(* revise, recall, forget and consolidate (mcp_server/server_v2.py) read   *)
(* the file, decide in memory, and write: another process can come in      *)
(* between the read, the save and the audit row.                           *)
(*                                                                         *)
(* Importance is a level out of Levels.  updated_at is compared only for   *)
(* equality and renewed by every save, so it is the number of the write;   *)
(* created_at is the number of the write that first made the entry.        *)
(***************************************************************************)
EXTENDS Integers, FiniteSets

CONSTANTS
    Procs,       \* agent processes
    Keys,        \* memory keys
    Values,      \* what callers write
    Levels,      \* importance levels callers use
    Neutral,     \* the level of importance 0.5
    Strategies,  \* conflict strategies callers of revise name
    Background,  \* which of "decay", "prune" (a decay pass may delete) and "consolidate" run
    MaxWrites,   \* bound on the number of writes begun
    MaxFaults,   \* bound on failed writes and crashes
    Absent       \* no entry

ASSUME LevelsAssumption == Levels \subseteq Nat \ {0} /\ Neutral \in Nat \ {0}
ASSUME StrategiesAssumption == Strategies \subseteq {"entrenchment", "recency", "importance"}
ASSUME WritesAssumption == MaxWrites \in Nat /\ MaxFaults \in Nat

Entry == [val : Values, imp : Levels, made : 1..MaxWrites, upd : 1..MaxWrites]
ASSUME AbsentAssumption == Absent \notin Entry

Table == [Keys -> Entry \cup {Absent}]
Ops   == {"commit", "revise", "forget", "consolidate"}
Calls == [op : Ops, at : {"save", "log"}, key : Keys, entry : Entry \cup {Absent}]

VARIABLES
    rows,    \* the memories table
    log,     \* [Keys -> value of the key's newest audit row, or Absent]
    beliefs, \* [Procs -> Table]: BeliefState.beliefs
    ent,     \* [Procs -> [Keys -> entrenchment, 0 when there is none]]
    copies,  \* [Procs -> Table]: slots warmed from long-term rows
    sweep,   \* [Procs -> Table]: rows a decay pass has read and not written back
    call,    \* [Procs -> the running call: what it still has to save or log]
    writes,  \* writes begun so far
    faults,  \* failed writes and crashes so far
    gone,    \* for the properties: <<key, value>> forgotten and not asked for since
    pruned   \* for the properties: keys a decay pass deleted, neither saved nor forgotten since

vars == <<rows, log, beliefs, ent, copies, sweep, call, writes, faults, gone, pruned>>

-----------------------------------------------------------------------------
(* AGM belief revision, one key of one process *)

Empty  == [k \in Keys |-> Absent]
NoCall == [op |-> "none"]
NoView == [belief |-> Absent, ent |-> 0]

View(p, k) == [belief |-> beliefs[p][k], ent |-> ent[p][k]]

\* get_entrenchment: 0.5 when none was recorded.
Entrenchment(view) == IF view.ent = 0 THEN Neutral ELSE view.ent

\* Mutant: entrenchment adds up.
RaisedBySum(view, imp) == view.ent + imp

\* _update_entrenchment keeps the maximum.
Raised(view, imp) == IF view.ent > imp THEN view.ent ELSE imp

\* _resolve_strategy: may the new entry replace the believed one?
Wins(view, new, strategy) ==
    CASE strategy = "entrenchment" -> new.imp >= Entrenchment(view)
      [] strategy = "recency"      -> new.made >= view.belief.made
      [] strategy = "importance"   -> new.imp >= view.belief.imp

Conflict(view, new) == view.belief # Absent /\ view.belief.val # new.val

\* revise succeeds unless it loses a conflict ...
Accepts(view, new, strategy) == Conflict(view, new) => Wins(view, new, strategy)

\* ... and then the new entry is believed, unless its value already was.
Revised(view, new) ==
    IF view.belief # Absent /\ view.belief.val = new.val THEN view
    ELSE [belief |-> new, ent |-> Raised(view, new.imp)]

\* Mutant: a belief whose row is gone is kept.
RefreshedKeepingForgotten(view, stored) ==
    IF view.belief # Absent /\ stored # Absent /\ view.belief.upd # stored.upd
    THEN [belief |-> stored, ent |-> stored.imp] ELSE view

\* _refresh_cached_belief: an already cached belief follows the row just read.
Refreshed(view, stored) ==
    IF view.belief = Absent THEN view
    ELSE IF stored = Absent THEN NoView
    ELSE IF view.belief.val # stored.val \/ view.belief.upd # stored.upd
         THEN [belief |-> stored, ent |-> stored.imp]
         ELSE view

\* commit_with_agm_async's reconciliation: a newer or unknown row is believed.
Reconciled(view, stored) ==
    IF stored # Absent /\ (view.belief = Absent \/ stored.made > view.belief.made)
    THEN [view EXCEPT !.belief = stored] ELSE view

-----------------------------------------------------------------------------
Init ==
    /\ rows = Empty
    /\ log = Empty
    /\ beliefs = [p \in Procs |-> Empty]
    /\ ent = [p \in Procs |-> [k \in Keys |-> 0]]
    /\ copies = [p \in Procs |-> Empty]
    /\ sweep = [p \in Procs |-> Empty]
    /\ call = [p \in Procs |-> NoCall]
    /\ writes = 0
    /\ faults = 0
    /\ gone = {}
    /\ pruned = {}

\* Inside a process calls run one after the other: none of them suspends.
Free(p) == call[p] = NoCall /\ sweep[p] = Empty

Believe(p, k, view) ==
    /\ beliefs' = [beliefs EXCEPT ![p][k] = view.belief]
    /\ ent' = [ent EXCEPT ![p][k] = view.ent]

Saving(op, k, e) == [op |-> op, at |-> "save", key |-> k, entry |-> e]
Logging(op, k, e) == [op |-> op, at |-> "log", key |-> k, entry |-> e]

BeginWrite == writes < MaxWrites /\ writes' = writes + 1

\* commit_mem: load the row, reconcile, revise.
Commit(p, k, v, imp) ==
    LET e    == [val |-> v, imp |-> imp, made |-> writes', upd |-> writes']
        view == Reconciled(View(p, k), rows[k])
    IN  /\ Free(p)
        /\ BeginWrite
        /\ IF Accepts(view, e, "entrenchment")
           THEN /\ Believe(p, k, Revised(view, e))
                /\ call' = [call EXCEPT ![p] = Saving("commit", k, e)]
           ELSE /\ Believe(p, k, view)
                /\ UNCHANGED call
        /\ UNCHANGED <<rows, log, copies, sweep, faults, gone, pruned>>

\* Mutant: the revised entry keeps the updated_at of the row it was built on.
ReviseKeepingStamp(p, k, v, imp, strategy) ==
    LET view == Refreshed(View(p, k), rows[k])
        made == IF rows[k] = Absent THEN writes' ELSE rows[k].made
        upd  == IF rows[k] = Absent THEN writes' ELSE rows[k].upd
        e    == [val |-> v, imp |-> imp, made |-> made, upd |-> upd]
    IN  /\ Free(p)
        /\ BeginWrite
        /\ IF Accepts(view, e, strategy)
           THEN /\ Believe(p, k, [Revised(view, e) EXCEPT !.belief = e])
                /\ call' = [call EXCEPT ![p] = Saving("revise", k, e)]
           ELSE /\ Believe(p, k, view)
                /\ UNCHANGED call
        /\ UNCHANGED <<rows, log, copies, sweep, faults, gone, pruned>>

\* revise: load the row, refresh the belief, revise; an accepted entry is
\* believed even when it only repeats the value.
Revise(p, k, v, imp, strategy) ==
    LET view == Refreshed(View(p, k), rows[k])
        made == IF rows[k] = Absent THEN writes' ELSE rows[k].made
        e    == [val |-> v, imp |-> imp, made |-> made, upd |-> writes']
    IN  /\ Free(p)
        /\ BeginWrite
        /\ IF Accepts(view, e, strategy)
           THEN /\ Believe(p, k, [Revised(view, e) EXCEPT !.belief = e])
                /\ call' = [call EXCEPT ![p] = Saving("revise", k, e)]
           ELSE /\ Believe(p, k, view)
                /\ UNCHANGED call
        /\ UNCHANGED <<rows, log, copies, sweep, faults, gone, pruned>>

\* SQLiteBackend.restore: on a conflict the row keeps its created_at.
Stored(k, e) == IF rows[k] = Absent THEN e ELSE [e EXCEPT !.made = rows[k].made]

\* The running call's save commits.
Save(p) ==
    LET c == call[p]
    IN  /\ c # NoCall
        /\ c.at = "save"
        /\ rows' = [rows EXCEPT ![c.key] = Stored(c.key, c.entry)]
        /\ call' = [call EXCEPT ![p].at = "log"]
        /\ gone' = IF c.op = "consolidate" THEN gone ELSE gone \ {<<c.key, c.entry.val>>}
        /\ pruned' = pruned \ {c.key}
        /\ UNCHANGED <<log, beliefs, ent, copies, sweep, writes, faults>>

\* Mutant: the audit row is not written.
LogRowSkipped(p) ==
    /\ call[p] # NoCall
    /\ call[p].at = "log"
    /\ call' = [call EXCEPT ![p] = NoCall]
    /\ UNCHANGED <<rows, log, beliefs, ent, copies, sweep, writes, faults, gone, pruned>>

\* The running call's audit row is inserted, and the call returns.
LogRow(p) ==
    LET c == call[p]
    IN  /\ c # NoCall
        /\ c.at = "log"
        /\ log' = [log EXCEPT ![c.key] = IF c.op = "forget" THEN Absent ELSE c.entry.val]
        /\ call' = [call EXCEPT ![p] = NoCall]
        /\ UNCHANGED <<rows, beliefs, ent, copies, sweep, writes, faults, gone, pruned>>

\* A save, an audit insert or a decay write raises: the call is over, what it
\* did in memory and in the file stays.
Fail(p) ==
    /\ ~Free(p)
    /\ faults < MaxFaults
    /\ faults' = faults + 1
    /\ call' = [call EXCEPT ![p] = NoCall]
    /\ sweep' = [sweep EXCEPT ![p] = Empty]
    /\ UNCHANGED <<rows, log, beliefs, ent, copies, writes, gone, pruned>>

\* recall of one key brings an already cached belief in line with the row.
Recall(p, k) ==
    /\ Free(p)
    /\ Believe(p, k, Refreshed(View(p, k), rows[k]))
    /\ UNCHANGED <<rows, log, copies, sweep, call, writes, faults, gone, pruned>>

\* Mutant: the buffer keeps its copy.
ForgetKeepingCopy(p, k) ==
    /\ Free(p)
    /\ rows[k] # Absent \/ beliefs[p][k] # Absent \/ copies[p][k] # Absent
    /\ rows' = [rows EXCEPT ![k] = Absent]
    /\ IF beliefs[p][k] = Absent THEN UNCHANGED <<beliefs, ent>> ELSE Believe(p, k, NoView)
    /\ call' = [call EXCEPT ![p] = Logging("forget", k, Absent)]
    /\ gone' = IF rows[k] = Absent THEN gone ELSE gone \cup {<<k, rows[k].val>>}
    /\ pruned' = pruned \ {k}
    /\ UNCHANGED <<log, copies, sweep, writes, faults>>

\* Mutant: the belief survives its row.
ForgetKeepingBelief(p, k) ==
    /\ Free(p)
    /\ rows[k] # Absent \/ copies[p][k] # Absent
    /\ rows' = [rows EXCEPT ![k] = Absent]
    /\ copies' = [copies EXCEPT ![p][k] = Absent]
    /\ call' = [call EXCEPT ![p] = Logging("forget", k, Absent)]
    /\ gone' = IF rows[k] = Absent THEN gone ELSE gone \cup {<<k, rows[k].val>>}
    /\ pruned' = pruned \ {k}
    /\ UNCHANGED <<log, beliefs, ent, sweep, writes, faults>>

\* forget: nothing to do, or drop the slot, delete the row, contract the belief.
Forget(p, k) ==
    /\ Free(p)
    /\ rows[k] # Absent \/ beliefs[p][k] # Absent \/ copies[p][k] # Absent
    /\ rows' = [rows EXCEPT ![k] = Absent]
    /\ copies' = [copies EXCEPT ![p][k] = Absent]
    /\ IF beliefs[p][k] = Absent THEN UNCHANGED <<beliefs, ent>> ELSE Believe(p, k, NoView)
    /\ call' = [call EXCEPT ![p] = Logging("forget", k, Absent)]
    /\ gone' = IF rows[k] = Absent THEN gone ELSE gone \cup {<<k, rows[k].val>>}
    /\ pruned' = pruned \ {k}
    /\ UNCHANGED <<log, sweep, writes, faults>>

\* forget, when the delete raises: only the slot is gone.
ForgetRaises(p, k) ==
    /\ Free(p)
    /\ faults < MaxFaults
    /\ faults' = faults + 1
    /\ copies' = [copies EXCEPT ![p][k] = Absent]
    /\ UNCHANGED <<rows, log, beliefs, ent, sweep, call, writes, gone, pruned>>

\* consolidate: a gated slot leaves the buffer; it is saved unless its row is
\* there (every row here is long-term), as a new write of the slot's entry.
Consolidate(p, k) ==
    /\ "consolidate" \in Background
    /\ Free(p)
    /\ copies[p][k] # Absent
    /\ copies' = [copies EXCEPT ![p][k] = Absent]
    /\ IF rows[k] # Absent
       THEN UNCHANGED <<call, writes>>
       ELSE /\ BeginWrite
            /\ call' = [call EXCEPT ![p] =
                   Saving("consolidate", k, [copies[p][k] EXCEPT !.upd = writes'])]
    /\ UNCHANGED <<rows, log, beliefs, ent, sweep, faults, gone, pruned>>

\* apply_decay_pass: read every row ...
DecayRead(p) ==
    /\ "decay" \in Background
    /\ Free(p)
    /\ sweep' = [sweep EXCEPT ![p] = rows]
    /\ UNCHANGED <<rows, log, beliefs, ent, copies, call, writes, faults, gone, pruned>>

\* ... and restore them one by one, as they were read but for their strength.
DecayRestore(p, k) ==
    /\ sweep[p][k] # Absent
    /\ rows' = [rows EXCEPT ![k] = Stored(k, sweep[p][k])]
    /\ sweep' = [sweep EXCEPT ![p][k] = Absent]
    /\ pruned' = pruned \ {k}
    /\ UNCHANGED <<log, beliefs, ent, copies, call, writes, faults, gone>>

\* ... or delete one that has faded, when the caller lets the pass prune: its slot
\* goes too, but there is no audit row and the belief is not contracted ...
DecayPrune(p, k) ==
    /\ "prune" \in Background
    /\ sweep[p][k] # Absent
    /\ rows' = [rows EXCEPT ![k] = Absent]
    /\ sweep' = [sweep EXCEPT ![p][k] = Absent]
    /\ IF rows[k] = Absent
       THEN UNCHANGED <<copies, pruned>>
       ELSE /\ copies' = [copies EXCEPT ![p][k] = Absent]
            /\ pruned' = pruned \cup {k}
    /\ UNCHANGED <<log, beliefs, ent, call, writes, faults, gone>>

\* ... or leave alone one that nobody touched, or that was touched just now.
DecaySkip(p, k) ==
    /\ sweep[p][k] # Absent
    /\ sweep' = [sweep EXCEPT ![p][k] = Absent]
    /\ UNCHANGED <<rows, log, beliefs, ent, copies, call, writes, faults, gone, pruned>>

\* The process starts (again): memories at or above the gate become beliefs,
\* some of those above it are warmed into the buffer.
Restart(p) ==
    LET level(k)  == IF rows[k] = Absent THEN 0 ELSE rows[k].imp
        loaded    == {k \in Keys : level(k) >= Neutral}
        from(set) == [k \in Keys |-> IF k \in set THEN rows[k] ELSE Absent]
    IN  /\ faults' = IF Free(p) THEN faults ELSE faults + 1
        /\ faults' <= MaxFaults
        /\ \E warmed \in SUBSET {k \in Keys : level(k) > Neutral} :
              copies' = [copies EXCEPT ![p] = from(warmed)]
        /\ beliefs' = [beliefs EXCEPT ![p] = from(loaded)]
        /\ ent' = [ent EXCEPT ![p] = [k \in Keys |-> IF k \in loaded THEN rows[k].imp ELSE 0]]
        /\ call' = [call EXCEPT ![p] = NoCall]
        /\ sweep' = [sweep EXCEPT ![p] = Empty]
        /\ UNCHANGED <<rows, log, writes, gone, pruned>>

Next ==
    \E p \in Procs :
        \/ \E k \in Keys, v \in Values, imp \in Levels : Commit(p, k, v, imp)
        \/ \E k \in Keys, v \in Values, imp \in Levels, s \in Strategies : Revise(p, k, v, imp, s)
        \/ Save(p)
        \/ LogRow(p)
        \/ Fail(p)
        \/ \E k \in Keys : Recall(p, k)
        \/ \E k \in Keys : Forget(p, k)
        \/ \E k \in Keys : ForgetRaises(p, k)
        \/ \E k \in Keys : Consolidate(p, k)
        \/ DecayRead(p)
        \/ \E k \in Keys : DecayRestore(p, k)
        \/ \E k \in Keys : DecayPrune(p, k)
        \/ \E k \in Keys : DecaySkip(p, k)
        \/ Restart(p)

Spec == Init /\ [][Next]_vars

-----------------------------------------------------------------------------
(* Properties *)

\* Every variable keeps its type, and what a call saves is an entry.
TypeOK ==
    /\ rows \in Table
    /\ log \in [Keys -> Values \cup {Absent}]
    /\ beliefs \in [Procs -> Table]
    /\ ent \in [Procs -> [Keys -> Levels \cup {0}]]
    /\ copies \in [Procs -> Table]
    /\ sweep \in [Procs -> Table]
    /\ call \in [Procs -> Calls \cup {NoCall}]
    /\ \A p \in Procs : call[p] # NoCall =>
          IF call[p].op = "forget" THEN call[p].at = "log" ELSE call[p].entry \in Entry
    /\ writes \in 0..MaxWrites
    /\ faults \in 0..MaxFaults
    /\ gone \subseteq Keys \X Values
    /\ pruned \subseteq Keys

\* A belief that looks current to _refresh_cached_belief (same value, same
\* updated_at) carries the row's importance, so leaving it alone is right.
StampsAgree ==
    \A p \in Procs, k \in Keys :
        (/\ beliefs[p][k] # Absent
         /\ rows[k] # Absent
         /\ beliefs[p][k].val = rows[k].val
         /\ beliefs[p][k].upd = rows[k].upd) => beliefs[p][k].imp = rows[k].imp

\* Whatever other processes wrote or forgot, and whichever own save failed
\* before: a recall now would leave the process believing nothing but what is
\* stored.
RecallHeals ==
    \A p \in Procs, k \in Keys :
        LET healed == Refreshed(View(p, k), rows[k]).belief
        IN  Free(p) /\ healed # Absent =>
                /\ rows[k] # Absent
                /\ healed.val = rows[k].val
                /\ healed.imp = rows[k].imp

\* Both: stamps that agree mean entries that agree, and a recall heals the cache.
BeliefsHeal == StampsAgree /\ RecallHeals

\* Between calls a process believes only values that are stored, or that were the
\* last to be logged of a key a decay pass deleted: apply_decay_pass contracts no
\* belief.  Holds for a process that has the file to itself and whose writes do
\* not fail.
BeliefsMatchRows ==
    \A p \in Procs, k \in Keys :
        Free(p) /\ beliefs[p][k] # Absent =>
            IF k \in pruned THEN log[k] = beliefs[p][k].val
            ELSE rows[k] # Absent /\ beliefs[p][k].val = rows[k].val

\* What agm_engine.py:166 and mcp-server.md:123 promise of the default strategy:
\* an important memory (at least the gate's 0.5) is not replaced by a different
\* value of lower importance.
ImportantKept ==
    [][\A k \in Keys :
          rows[k] # Absent /\ rows'[k] # Absent =>
              \/ rows'[k].val = rows[k].val
              \/ rows[k].imp < Neutral
              \/ rows'[k].imp >= rows[k].imp]_vars

\* The call process p begins in this step, if any, wants to save over a row
\* with a different value.
Overwrites(p, op) ==
    LET c == call'[p]
    IN  /\ call[p] = NoCall /\ c # NoCall
        /\ c.op = op
        /\ rows[c.key] # Absent
        /\ rows[c.key].val # c.entry.val

\* What stateplane.py:3760-3767 promises of commit_mem: a write over a value
\* another process stored is detected as a conflict, never made silently.
CommitNoticesConflict ==
    [][\A p \in Procs : Overwrites(p, "commit") =>
          LET c == call'[p]
          IN  Conflict(Reconciled(View(p, c.key), rows[c.key]), c.entry)]_vars

\* What server_v2.py:1423 promises of revise: it is made against the stored
\* row, so by entrenchment a less important value does not replace it.
ReviseWeighsStored ==
    [][\A p \in Procs : Overwrites(p, "revise") =>
          call'[p].entry.imp >= rows[call'[p].key].imp]_vars

\* A forgotten value comes back only when a caller writes it again, not from
\* something a process still holds (CHANGELOG.md:59).
ForgottenStaysForgotten ==
    \A k \in Keys : rows[k] # Absent => <<k, rows[k].val>> \notin gone

\* When no call runs, the newest audit row of a key tells what is stored, so
\* that a rollback to now would change nothing; but a key that a decay pass deleted
\* has no row, whatever was logged, until it is written again.
AuditFollowsStore ==
    (\A p \in Procs : Free(p)) =>
        \A k \in Keys :
            IF k \in pruned THEN rows[k] = Absent
            ELSE log[k] = IF rows[k] = Absent THEN Absent ELSE rows[k].val
=============================================================================
