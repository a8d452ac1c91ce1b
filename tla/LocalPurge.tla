----------------------------- MODULE LocalPurge -----------------------------
(***************************************************************************)
(* forget with purge on the local MCP server (mcp_server/server_v2.py),    *)
(* seen at one key, with several processes on one SQLite file.  The gate   *)
(* decides whether there is anything to purge; then the memory is          *)
(* forgotten as any other, and its values are removed from one place after *)
(* the other: eval captures, audit rows, event payloads, entity mentions,  *)
(* the blocks of the full-text index and the process's revision log.  Each *)
(* of these is a transaction of its own; any of them may raise ("database  *)
(* is locked"), the process may die, and other processes go on.            *)
(*                                                                         *)
(* A value is the number of the write that made it.  Whether a write wins  *)
(* against a believed value, and which rows a starting process takes as    *)
(* beliefs and slots, is left open (SharedBeliefs.tla decides it).  The    *)
(* hash chain of the audit rows is AuditTrail.tla.                         *)
(***************************************************************************)
EXTENDS Integers, Sequences

CONSTANTS
    Procs,
    MaxWrites, \* bound on the values written
    MaxRows,   \* bound on the audit rows with values
    MaxFaults, \* bound on steps that raise and processes that die
    None

ASSUME BoundAssumption == MaxWrites \in Nat /\ MaxRows \in Nat /\ MaxFaults \in Nat

Values == 1..MaxWrites

ASSUME NoneAssumption == None \notin [val : Values, lasting : BOOLEAN]

VARIABLES
    row,      \* the memories row: [val, lasting], or None
    log,      \* the audit rows that still hold values: [id, vals]
    payloads, \* what events carry: values, or 0 for the event of a forget
    captured, \* does an eval capture name the key?
    mentions, \* the values entities were taken from
    words,    \* the values whose words the full-text blocks hold, dead ones too
    slot, belief, records, \* per process: working memory, belief set, revision log
    call,     \* per process: the running call
    rowCount, writes, faults,
    gone,     \* for the properties: <<process, value>> that a purge by it removed
    loose,    \* for the properties: a call was cut between a row and its audit row, a
              \* recall was captured while a purge ran, or a forget that found no row
              \* deleted one that was saved meanwhile
    owed      \* for the properties: processes whose last purge answered purge_incomplete

file == <<row, log, payloads, captured, mentions, words>>
memory == <<slot, belief, records>>
pvars == <<file, memory, call, rowCount, writes, faults, gone, loose, owed>>

-----------------------------------------------------------------------------
NoCall == [at |-> "idle", val |-> 0, old |-> 0, purge |-> FALSE, rows |-> {}, seen |-> {}]

Idle(p)  == call[p].at = "idle"
AllIdle  == \A p \in Procs : Idle(p)
RowVal   == IF row = None THEN 0 ELSE row.val
Logged   == UNION {r.vals : r \in log}
To(p, at) == call' = [call EXCEPT ![p].at = at]

\* A process that reads the row takes its value out of what running purges of
\* others answer for.
Reads(p, next) ==
    call' = [q \in Procs |-> IF q = p THEN next ELSE [call[q] EXCEPT !.seen = @ \ {RowVal}]]

\* What other processes hold and may still write.
HeldByOthers(p) ==
    UNION {{slot[q], call[q].val, call[q].old} : q \in Procs \ {p}}

AddRow(vals) ==
    IF vals \subseteq {0} THEN UNCHANGED <<log, rowCount>>
    ELSE /\ log' = log \cup {[id |-> rowCount + 1, vals |-> vals \ {0}]}
         /\ rowCount' = rowCount + 1

Init ==
    /\ row = None /\ log = {} /\ payloads = {} /\ captured = FALSE
    /\ mentions = {} /\ words = {}
    /\ slot = [p \in Procs |-> 0]
    /\ belief = [p \in Procs |-> 0]
    /\ records = [p \in Procs |-> {}]
    /\ call = [p \in Procs |-> NoCall]
    /\ rowCount = 0 /\ writes = 0 /\ faults = 0
    /\ gone = {} /\ loose = FALSE /\ owed = {}

-----------------------------------------------------------------------------
(* Writes *)

\* commit_mem and revise: the row is read, the belief brought in line (or not,
\* see SharedBeliefs.tla) and revised; a write that loses ends here.
Write(p) ==
    /\ Idle(p) /\ writes < MaxWrites /\ rowCount < MaxRows
    /\ \E known \in {belief[p], RowVal}, wins \in BOOLEAN :
        /\ known = 0 => wins
        /\ writes' = writes + 1
        /\ belief' = [belief EXCEPT ![p] = IF wins THEN writes + 1 ELSE known]
        /\ records' = [records EXCEPT ![p] = @ \cup (IF wins THEN {writes + 1} ELSE {})
                                               \cup (IF known # belief[p] THEN {belief[p]} \ {0} ELSE {})]
        /\ Reads(p, IF wins THEN [NoCall EXCEPT !.at = "save", !.val = writes + 1, !.old = RowVal]
                    ELSE NoCall)
    /\ UNCHANGED <<file, slot, rowCount, faults, gone, loose, owed>>

Save(p) ==
    /\ call[p].at = "save"
    /\ \E lasting \in BOOLEAN : row' = [val |-> call[p].val, lasting |-> lasting]
    /\ words' = words \cup {call[p].val}
    /\ To(p, "project")
    /\ UNCHANGED <<log, payloads, captured, mentions, memory, rowCount, writes, faults, gone, loose, owed>>

\* The entities are taken from the new value, best effort.
Project(p) ==
    /\ call[p].at = "project"
    /\ mentions' = {call[p].val}
    /\ To(p, "event")
    /\ UNCHANGED <<row, log, payloads, captured, words, memory, rowCount, writes, faults, gone, loose, owed>>

\* The event carries the entry's metadata, best effort.
Event(p) ==
    /\ call[p].at = "event"
    /\ payloads' = payloads \cup {call[p].val}
    /\ To(p, "log")
    /\ UNCHANGED <<row, log, captured, mentions, words, memory, rowCount, writes, faults, gone, loose, owed>>

LogWrite(p) ==
    /\ call[p].at = "log"
    /\ AddRow({call[p].old, call[p].val})
    /\ call' = [call EXCEPT ![p] = NoCall]
    /\ UNCHANGED <<row, payloads, captured, mentions, words, memory, writes, faults, gone, loose, owed>>

\* A recall: one that returns the key is captured.
Recall(p) ==
    /\ Idle(p)
    /\ captured' = (captured \/ row # None)
    /\ loose' = (loose \/ (row # None /\ \E q \in Procs : call[q].purge))
    /\ UNCHANGED <<row, log, payloads, mentions, words, memory, call, rowCount, writes, faults, gone, owed>>

\* consolidate: a slot that is ready leaves the buffer; unless the row is a
\* long-term one it is saved and logged.
Consolidate(p) ==
    /\ Idle(p) /\ slot[p] # 0 /\ rowCount < MaxRows
    /\ slot' = [slot EXCEPT ![p] = 0]
    /\ IF row # None /\ row.lasting THEN UNCHANGED <<row, words, log, rowCount>>
       ELSE /\ row' = [val |-> slot[p], lasting |-> TRUE]
            /\ words' = words \cup {slot[p]}
            /\ AddRow({slot[p]})
    /\ UNCHANGED <<payloads, captured, mentions, belief, records, call, writes, faults, gone, loose, owed>>

-----------------------------------------------------------------------------
(* forget *)

\* Is there anything the call would work on?
Present(p) == row # None \/ belief[p] # 0 \/ slot[p] # 0
GateOpen(p) == Present(p) \/ log # {} \/ payloads # {}

\* Mutant: the captures are left for later, when nothing else leads to them.
PurgeOrderCapturesLate == <<"select", "empty", "payloads", "captures", "mentions", "compact", "redact">>

\* Mutant: the full-text blocks are left as they are.
PurgeOrderUncompacted == <<"captures", "select", "empty", "payloads", "mentions", "redact">>

\* The steps, each of which deletes by key.
PurgeOrder == <<"captures", "select", "empty", "payloads", "mentions", "compact", "redact">>

NextStep(at) == PurgeOrder[1 + CHOOSE i \in DOMAIN PurgeOrder : PurgeOrder[i] = at]

\* _handle_forget: what the gate finds decides where the call begins.
Forget(p, purge) ==
    /\ Idle(p) /\ rowCount < MaxRows
    /\ Present(p) \/ (purge /\ GateOpen(p))
    /\ call' = [call EXCEPT ![p] = [NoCall EXCEPT !.at = IF Present(p) THEN "load" ELSE PurgeOrder[1],
                                                  !.purge = purge,
                                                  !.seen = (1..writes) \ HeldByOthers(p)]]
    /\ UNCHANGED <<file, memory, rowCount, writes, faults, gone, loose, owed>>

\* Mutant: what this process remembers counts as what was stored.
ForgetFromCache(p) ==
    /\ call[p].at = "load"
    /\ slot' = [slot EXCEPT ![p] = 0]
    /\ Reads(p, [call[p] EXCEPT !.at = "delete",
                                !.old = IF row # None THEN RowVal ELSE IF slot[p] # 0 THEN slot[p] ELSE belief[p]])
    /\ UNCHANGED <<file, belief, records, rowCount, writes, faults, gone, loose, owed>>

\* StatePlane.forget: only the row counts as what was stored.
ForgetLoad(p) ==
    /\ call[p].at = "load"
    /\ slot' = [slot EXCEPT ![p] = 0]
    /\ Reads(p, [call[p] EXCEPT !.at = "delete", !.old = RowVal])
    /\ UNCHANGED <<file, belief, records, rowCount, writes, faults, gone, loose, owed>>

\* backend.delete, then the belief is contracted, which is recorded.
ForgetDelete(p) ==
    /\ call[p].at = "delete"
    /\ row' = None /\ mentions' = {}
    /\ belief' = [belief EXCEPT ![p] = 0]
    /\ records' = [records EXCEPT ![p] = @ \cup ({belief[p]} \ {0})]
    /\ To(p, "log forget")
    /\ loose' = (loose \/ (row # None /\ call[p].old = 0))
    /\ UNCHANGED <<log, payloads, captured, words, slot, rowCount, writes, faults, gone, owed>>

ForgetLog(p) ==
    /\ call[p].at = "log forget"
    /\ AddRow({call[p].old})
    /\ To(p, "event forget")
    /\ UNCHANGED <<row, payloads, captured, mentions, words, memory, writes, faults, gone, loose, owed>>

ForgetEvent(p) ==
    /\ call[p].at = "event forget"
    /\ payloads' = payloads \cup {0}
    /\ call' = [call EXCEPT ![p] = IF @.purge THEN [@ EXCEPT !.at = PurgeOrder[1]] ELSE NoCall]
    /\ UNCHANGED <<row, log, captured, mentions, words, memory, rowCount, writes, faults, gone, loose, owed>>

-----------------------------------------------------------------------------
(* _purge_key_history *)

PurgeCaptures(p) ==
    /\ call[p].at = "captures"
    /\ captured' = FALSE
    /\ To(p, NextStep("captures"))
    /\ UNCHANGED <<row, log, payloads, mentions, words, memory, rowCount, writes, faults, gone, loose, owed>>

\* audit.purge_key: the rows that hold values now are named in a receipt ...
PurgeSelect(p) ==
    /\ call[p].at = "select"
    /\ call' = [call EXCEPT ![p].at = NextStep("select"), ![p].rows = log]
    /\ UNCHANGED <<file, memory, rowCount, writes, faults, gone, loose, owed>>

\* ... and emptied.
PurgeEmpty(p) ==
    /\ call[p].at = "empty"
    /\ log' = log \ call[p].rows
    /\ To(p, NextStep("empty"))
    /\ UNCHANGED <<row, payloads, captured, mentions, words, memory, rowCount, writes, faults, gone, loose, owed>>

\* purge_memory_event_payloads, for every event of the key there is.
PurgePayloads(p) ==
    /\ call[p].at = "payloads"
    /\ payloads' = {}
    /\ To(p, NextStep("payloads"))
    /\ UNCHANGED <<row, log, captured, mentions, words, memory, rowCount, writes, faults, gone, loose, owed>>

PurgeMentions(p) ==
    /\ call[p].at = "mentions"
    /\ mentions' = {}
    /\ To(p, NextStep("mentions"))
    /\ UNCHANGED <<row, log, payloads, captured, words, memory, rowCount, writes, faults, gone, loose, owed>>

\* compact_search_index: only the words of the row there is stay.
PurgeCompact(p) ==
    /\ call[p].at = "compact"
    /\ words' = words \cap {RowVal}
    /\ To(p, NextStep("compact"))
    /\ UNCHANGED <<row, log, payloads, captured, mentions, memory, rowCount, writes, faults, gone, loose, owed>>

\* redact_operation_log, and the answer.
PurgeRedact(p) ==
    /\ call[p].at = "redact"
    /\ records' = [records EXCEPT ![p] = {}]
    /\ gone' = gone \cup ({p} \X (call[p].seen \ HeldByOthers(p)))
    /\ owed' = owed \ {p}
    /\ call' = [call EXCEPT ![p] = NoCall]
    /\ UNCHANGED <<file, slot, belief, rowCount, writes, faults, loose>>

-----------------------------------------------------------------------------
(* Faults *)

BestEffort == {"project", "event", "event forget"}
History    == {PurgeOrder[i] : i \in DOMAIN PurgeOrder}

\* The row was changed, and nothing was written about it.
Unlogged(p) == call[p].at \in {"project", "event", "log", "log forget"}

\* A best-effort step fails: the call goes on.
Swallowed(p) ==
    /\ call[p].at \in BestEffort /\ faults < MaxFaults
    /\ faults' = faults + 1
    /\ call' = [call EXCEPT ![p] =
            IF @.at = "project" THEN [@ EXCEPT !.at = "event"]
            ELSE IF @.at = "event" THEN [@ EXCEPT !.at = "log"]
            ELSE IF @.purge THEN [@ EXCEPT !.at = PurgeOrder[1]] ELSE NoCall]
    /\ UNCHANGED <<file, memory, rowCount, writes, gone, loose, owed>>

\* Any other step raises: the call is over, answered purge_incomplete when the
\* memory was already forgotten.
Raises(p) ==
    /\ call[p].at \notin BestEffort \cup {"idle", "redact"} /\ faults < MaxFaults
    /\ faults' = faults + 1
    /\ loose' = (loose \/ Unlogged(p))
    /\ owed' = IF call[p].at \in History THEN owed \cup {p} ELSE owed
    /\ call' = [call EXCEPT ![p] = NoCall]
    /\ UNCHANGED <<file, memory, rowCount, writes, gone>>

\* The process dies and another takes its place: beliefs and slots are loaded
\* from the row, or not; its revision log is empty.
Restart(p) ==
    /\ faults < MaxFaults
    /\ faults' = faults + 1
    /\ loose' = (loose \/ Unlogged(p))
    /\ \E b, s \in {0, RowVal} :
        /\ belief' = [belief EXCEPT ![p] = b]
        /\ slot' = [slot EXCEPT ![p] = s]
    /\ records' = [records EXCEPT ![p] = {}]
    /\ owed' = owed \ {p}
    /\ Reads(p, NoCall)
    /\ UNCHANGED <<file, rowCount, writes, gone>>

Next ==
    \E p \in Procs :
        \/ Write(p) \/ Save(p) \/ Project(p) \/ Event(p) \/ LogWrite(p)
        \/ Recall(p) \/ Consolidate(p)
        \/ \E purge \in BOOLEAN : Forget(p, purge)
        \/ ForgetLoad(p) \/ ForgetDelete(p) \/ ForgetLog(p) \/ ForgetEvent(p)
        \/ PurgeCaptures(p) \/ PurgeSelect(p) \/ PurgeEmpty(p) \/ PurgePayloads(p)
        \/ PurgeMentions(p) \/ PurgeCompact(p) \/ PurgeRedact(p)
        \/ Swallowed(p) \/ Raises(p) \/ Restart(p)

Spec == Init /\ [][Next]_pvars

-----------------------------------------------------------------------------
(* Properties *)

Stages == {"idle", "save", "project", "event", "log", "load", "delete", "log forget", "event forget"} \cup History

Calls == [at : Stages, val : Values \cup {0}, old : Values \cup {0}, purge : BOOLEAN,
          rows : SUBSET [id : 1..rowCount, vals : SUBSET Values], seen : SUBSET (1..writes)]

\* Every variable keeps its type, and only a purge is at a step of one, only
\* a write with a value at one of a write.
TypeOK ==
    /\ row \in [val : Values, lasting : BOOLEAN] \cup {None}
    /\ log \subseteq [id : 1..rowCount, vals : SUBSET Values] /\ \A r \in log : r.vals # {}
    /\ payloads \subseteq Values \cup {0} /\ captured \in BOOLEAN
    /\ mentions \subseteq Values /\ words \subseteq Values
    /\ slot \in [Procs -> Values \cup {0}] /\ belief \in [Procs -> Values \cup {0}]
    /\ records \in [Procs -> SUBSET Values]
    /\ call \in [Procs -> Calls]
    /\ \A p \in Procs : /\ call[p].at \in History => call[p].purge
                        /\ call[p].at \in {"save", "project", "event", "log"} => call[p].val # 0
    /\ rowCount \in Nat /\ writes \in 0..MaxWrites /\ faults \in 0..MaxFaults
    /\ gone \subseteq Procs \X (1..writes) /\ loose \in BOOLEAN /\ owed \subseteq Procs

\* Once a purge has answered, no value that was there when it began, and that no
\* other process read or held meanwhile, is anywhere in the file or in the memory
\* of the process that purged, nor does it come back (CHANGELOG.md:59).
PurgedIsGone ==
    \A g \in gone :
        /\ g[2] \notin {RowVal} \cup Logged \cup payloads \cup mentions \cup words
        /\ g[2] \notin {slot[g[1]], belief[g[1]]} \cup records[g[1]]

\* When no call runs, a capture that names the key can still be purged: every
\* process finds its gate open, wherever purges were cut short (server_v2.py:1359);
\* except for captures taken while a purge ran, and after a call that was cut
\* between a row and what is written about it, or deleted a row it had not seen.
CapturesKeepGateOpen ==
    AllIdle /\ captured /\ ~loose => \A p \in Procs : GateOpen(p)

\* A purge keeps its word: what it reports gone is gone, and the captures it left
\* when it was cut short can still be purged.
PurgeKeepsItsWord == PurgedIsGone /\ CapturesKeepGateOpen

\* What a purge that answered purge_incomplete may have left behind.
Leftover(p) == words \ {RowVal} # {} \/ records[p] # {} \/ mentions # {}

\* What server_v2.py:1345 says of a purge that did not finish: a retry finishes
\* it, so a process that was told so is not turned away while there is something
\* left to remove.
PurgeCanBeFinished ==
    \A p \in owed : Idle(p) /\ Leftover(p) => GateOpen(p)
=============================================================================
