---------------------------- MODULE RemoteWrites ----------------------------
(***************************************************************************)
(* Remote clients that write one memory of a hosted project: what a write  *)
(* is checked against and judged by (cloud/runtime.py commit, revise,      *)
(* confirm, forget, rollback_execute), and what the version that goes with *)
(* an answer promises (entry_version, _attach_provenance; client.py).      *)
(*                                                                         *)
(* Writes of a project take turns, so one is a step; which of its effects  *)
(* may be missing after a failure is in HostedProject.  What its caller    *)
(* knows does not change until it is answered, so a request is made in the *)
(* step that serves it.  The response may be lost, then the caller may     *)
(* send the request again; the key it may name to have that noticed is     *)
(* read by a gateway that is not part of the repository.  Reads do not wait*)
(* for writes: a recall loads the versions after the values it tells.      *)
(*                                                                         *)
(* The engine is that of AGMEngine, without its log.  A version is a hash  *)
(* of the whole entry and stands for it.  The clock of the process moves   *)
(* from write to write; every entry passes its verification.               *)
(***************************************************************************)
EXTENDS Integers, FiniteSets

CONSTANTS
    Clients, Values,
    Levels,         \* importances
    Neutral,
    Strategies,     \* the strategies a revision may name
    MaxClock, MaxFaults,
    MaxLost,        \* requests without response at a time
    None

VARIABLES
    row,            \* the entry stored, or None: [val, imp, at, upd, ok]
    eng,            \* the engine of the process
    snap,           \* what the snapshots hold; there is at most one
    clock, faults,
    know,           \* [client -> what it knows of the memory, or None]
    call,           \* [client -> a request without response, a recall, or None]
    changed,        \* ghost: when the row last changed
    marks,          \* ghost: when it last was restored, and last gone
    standing,       \* ghost: importances it was stored with, since it was last
                    \* loaded, restored or gone
    slipped,        \* ghost: a save has failed since then
    wrongs          \* ghost: what the last step should not have done, and did

ghosts == <<changed, marks, standing, slipped>>
rwvars == <<row, eng, snap, clock, faults, know, call, ghosts, wrongs>>

Entries == [val : Values, imp : Levels, at : 1..MaxClock, upd : 1..MaxClock, ok : {TRUE}]

AGM == INSTANCE AGMEngine WITH
    Subjects <- {"it"}, LogSize <- 0, MaxOps <- 0, held <- None, about <- None, purged <- None

\* What the constants have to be.
ConstantsFit ==
    /\ Levels \subseteq Nat \ {0} /\ Neutral \in Nat \ {0}
    /\ Strategies \subseteq AGM!ConflictStrategy
    /\ MaxClock \in Nat /\ MaxFaults \in Nat /\ MaxLost \in Nat
    /\ None \notin Entries \cup {"create"}

Quiet(g) == [g EXCEPT !.total = 0]

Belief(g) == g.beliefs["it"]
Believing(g, e) == [g EXCEPT !.beliefs["it"] = e]

Imps(r) == IF r = None THEN {} ELSE {r.imp}

-----------------------------------------------------------------------------
(* Requests *)

\* Mutant: the version leaves out when the entry was written.
VersionOfContent(r) == <<r.val, r.imp>>

\* entry_version
Version(r) == r

\* _assert_expected_version
Expected(r, version) == version = None \/ Version(r) = version

Request(op, val, imp, how, expected) ==
    [op |-> op, val |-> val, imp |-> imp, how |-> how, expected |-> expected, since |-> 0]

\* A version the client may send along, or none.
KnownTo(c) == {None} \cup IF know[c] = None THEN {} ELSE {know[c].ver}

Reading(c) == call[c] # None /\ call[c].op = "recall"

Unanswered == {c \in Clients : call[c] # None /\ ~Reading(c)}

\* What c may ask for: something new, or the same again.
Requests(c, op) ==
    IF call[c] # None THEN {r \in {call[c]} : r.op = op}
    ELSE CASE op = "commit" -> {Request(op, v, i, how, None) :
                                  v \in Values, i \in Levels, how \in {"put", "create"}}
           [] op = "revise" -> {Request(op, v, i, how, expected) :
                                  v \in Values, i \in Levels, how \in Strategies, expected \in KnownTo(c)}
           [] OTHER -> {Request(op, None, None, None, expected) : expected \in KnownTo(c)}

-----------------------------------------------------------------------------
(* What a request should not do *)

\* The client had seen what it replaces: nobody changed the memory since it was
\* told of, or a rollback brought it back to that; and the value was the one told.
HadSeen(k) ==
    /\ k.seen = changed \/ marks.back > k.seen
    /\ k.val \in {None, row.val}

\* A request that took effect before may do so again.
MayRepeat(q) ==
    \/ q.since = 0 \/ (q.expected = None /\ q.how # "create")
    \/ marks.back > q.since
    \/ q.how = "create" /\ marks.gone > q.since

\* Nothing that was stored is a reason to reject it.
NoReason(q) == q.how = "recency" \/ \A i \in standing : q.imp >= i

Wrongs(c, q, r, answer) ==
    {w \in {"unseen", "unseen after a recall", "repeated", "unfair", "unfair after a failure"} :
        CASE w = "unseen" -> r # row /\ q.expected # None /\ know[c].from # "recall" /\ ~HadSeen(know[c])
          [] w = "unseen after a recall" -> r # row /\ q.expected # None /\ ~HadSeen(know[c])
          [] w = "repeated" -> r # row /\ ~MayRepeat(q)
          [] w = "unfair" -> q.op = "revise" /\ answer = "rejected" /\ NoReason(q) /\ ~slipped
          [] w = "unfair after a failure" -> q.op = "revise" /\ answer = "rejected" /\ NoReason(q)}

-----------------------------------------------------------------------------
(* What a request does, in its turn *)

Knowledge(val, r, seen, from) == [val |-> val, ver |-> Version(r), seen |-> seen, from |-> from]

\* What the answer tells: the version of what was stored, or of what a rejected
\* revision left there.  Who wrote a value knows it; who named a version thinks so.
Told(c, q, r, answer) ==
    LET Named(seen) == IF q.expected = None THEN Knowledge(None, r, seen, "write")
                       ELSE Knowledge(know[c].val, r, seen, know[c].from)
    IN CASE q.op = "confirm" /\ answer = "done" -> Named(clock + 1)
         [] q.op \in {"commit", "revise"} /\ answer = "done" -> Knowledge(q.val, r, clock + 1, "write")
         [] q.op = "revise" /\ answer = "rejected" -> Named(changed)
         [] q.op = "forget" /\ answer = "done" -> None
         [] answer = "memory_not_found" -> None
         [] OTHER -> know[c]

\* The store and the engine become those; the response arrives, or the client,
\* which does not repeat a write, leaves that to its caller.
Takes(c, q, r, g, answer) ==
    /\ clock < MaxClock
    /\ row' = r /\ eng' = Quiet(g) /\ clock' = clock + 1
    /\ \/ call' = [call EXCEPT ![c] = None] /\ know' = [know EXCEPT ![c] = Told(c, q, r, answer)]
       \/ /\ Cardinality(Unanswered \ {c}) < MaxLost
          /\ call' = [call EXCEPT ![c] = [q EXCEPT !.since = IF r # row /\ @ = 0 THEN clock' ELSE @]]
          /\ UNCHANGED know
    /\ changed' = IF r # row THEN clock' ELSE changed
    /\ marks' = IF r = None /\ row # None THEN [marks EXCEPT !.gone = clock'] ELSE marks
    /\ standing' = IF r = None THEN {} ELSE standing \cup Imps(r)
    /\ wrongs' = Wrongs(c, q, r, answer)

Refused(c, q, g, answer) == Takes(c, q, row, g, answer) /\ UNCHANGED <<snap, faults, slipped>>

\* A save that fails leaves the engine as it became before.
Saved(c, q, r, g, failing) ==
    \/ Takes(c, q, r, g, "done") /\ UNCHANGED <<snap, faults, slipped>>
    \/ /\ faults < MaxFaults /\ faults' = faults + 1
       /\ slipped' = (slipped \/ failing # eng)
       /\ Takes(c, q, row, failing, "error") /\ UNCHANGED snap

Wins(g, e, strategy) ==
    Belief(g) = None \/ Belief(g).val = e.val \/ AGM!Replaces(g, "it", e, strategy)

\* commit_with_agm_async takes the row for the belief only if there is none, or
\* one that was created earlier; the row keeps when it was created.
Commit(c, q) ==
    LET e == [val |-> q.val, imp |-> q.imp, at |-> clock + 1, upd |-> clock + 1, ok |-> TRUE]
        g == IF row # None /\ (Belief(eng) = None \/ row.at > Belief(eng).at)
             THEN Believing(eng, row) ELSE eng
        h == AGM!Revised(g, "it", e, "entrenchment")
    IN
    \/ q.how = "create" /\ row # None /\ Refused(c, q, eng, "memory_exists")
    \/ /\ q.how = "create" => row = None
       /\ IF Wins(g, e, "entrenchment")
          THEN Saved(c, q, IF row = None THEN e ELSE [e EXCEPT !.at = row.at], h, h)
          ELSE Refused(c, q, h, "rejected")

\* The row is there, and it is the one the caller named.
Checked(q) == row # None /\ Expected(row, q.expected)

Unchecked(c, q) ==
    \/ row = None /\ Refused(c, q, eng, "memory_not_found")
    \/ row # None /\ ~Expected(row, q.expected) /\ Refused(c, q, eng, "version_conflict")

\* _revise_loaded judges by what is stored; how entrenched that is stays as it was
\* if the belief had the same value and importance.
Judged(g, r) ==
    IF Belief(g) = None \/ Belief(g).val # r.val \/ Belief(g).imp # r.imp
    THEN AGM!Reconciled(g, "it", r) ELSE Believing(g, r)

Revise(c, q) ==
    LET e == [row EXCEPT !.val = q.val, !.imp = q.imp, !.upd = clock + 1]
        g == Judged(eng, row)
        h == AGM!Revised(g, "it", e, q.how)
    IN
    \/ Unchecked(c, q)
    \/ /\ Checked(q)
       /\ IF Wins(g, e, q.how) THEN Saved(c, q, e, Believing(h, e), Believing(h, e))
          ELSE Refused(c, q, h, "rejected")

\* confirm: the engine believes the row, as entrenched as it was.
Confirm(c, q) ==
    LET e == [row EXCEPT !.upd = clock + 1] IN
    Unchecked(c, q) \/ (Checked(q) /\ Saved(c, q, e, Believing(eng, e), eng))

Forget(c, q) ==
    \/ Unchecked(c, q)
    \/ /\ Checked(q) /\ Takes(c, q, None, AGM!Contracted(eng, "it"), "done")
       /\ UNCHANGED <<snap, faults, slipped>>

-----------------------------------------------------------------------------
(* Readings *)

GiveUp(c) ==
    /\ c \in Unanswered
    /\ call' = [call EXCEPT ![c] = None]
    /\ UNCHANGED <<row, eng, snap, clock, faults, know, ghosts>> /\ wrongs' = {}

\* list_memories, and get_memory through it, tell version and value of one read.
List(c) ==
    /\ call[c] = None /\ clock < MaxClock
    /\ know' = [know EXCEPT ![c] = IF row = None THEN None ELSE Knowledge(row.val, row, changed, "list")]
    /\ UNCHANGED <<row, eng, snap, clock, faults, call, ghosts>> /\ wrongs' = {}

\* recall reads the values first,
Recall(c) ==
    /\ call[c] = None /\ clock < MaxClock /\ row # None
    /\ call' = [call EXCEPT ![c] = [op |-> "recall", val |-> row.val, seen |-> changed]]
    /\ UNCHANGED <<row, eng, snap, clock, faults, know, ghosts>> /\ wrongs' = {}

\* and _attach_provenance the versions, if a row is still there.
AttachProvenance(c) ==
    /\ Reading(c)
    /\ call' = [call EXCEPT ![c] = None]
    /\ know' = [know EXCEPT ![c] =
                   IF row = None THEN None ELSE Knowledge(call[c].val, row, call[c].seen, "recall")]
    /\ UNCHANGED <<row, eng, snap, clock, faults, ghosts>> /\ wrongs' = {}

-----------------------------------------------------------------------------
(* Rollbacks and restarts *)

Snapshot ==
    /\ snap = {} /\ clock < MaxClock /\ snap' = {row}
    /\ UNCHANGED <<row, eng, clock, faults, know, call, ghosts>> /\ wrongs' = {}

\* Mutant: what was entrenched stays entrenched.
SyncedKeepingRank(g, r) == Believing(g, r)

\* _sync_cached_state
Synced(g, r) == IF r = None THEN AGM!Contracted(g, "it") ELSE AGM!Reconciled(g, "it", r)

\* rollback_execute does not look at whether the row was restored.
Rollback(r) ==
    /\ r # row /\ clock < MaxClock /\ clock' = clock + 1
    /\ eng' = Quiet(Synced(eng, r))
    /\ \/ row' = r /\ slipped' = FALSE /\ UNCHANGED faults
       \/ /\ r # None /\ faults < MaxFaults /\ faults' = faults + 1
          /\ slipped' = TRUE /\ UNCHANGED row
    /\ changed' = IF row' # row THEN clock' ELSE changed
    /\ marks' = IF row' # row THEN [marks EXCEPT !.back = clock'] ELSE marks
    /\ standing' = Imps(row')
    /\ UNCHANGED <<snap, know, call>> /\ wrongs' = {}

\* The plane is unloaded and loaded again; a weak memory is not loaded, and its
\* entrenchment counts as neutral until something sets it.
Restart ==
    /\ \A c \in Clients : ~Reading(c)
    /\ eng' = AGM!Loaded([s \in {"it"} |-> row])
    /\ standing' = Imps(row) \cup {Neutral : i \in {i \in Imps(row) : i < Neutral}}
    /\ slipped' = FALSE
    /\ UNCHANGED <<row, snap, clock, faults, know, call, changed, marks>> /\ wrongs' = {}

Init ==
    /\ row = None /\ eng = AGM!Loaded([s \in {"it"} |-> None])
    /\ snap = {} /\ clock = 0 /\ faults = 0
    /\ know = [c \in Clients |-> None] /\ call = [c \in Clients |-> None]
    /\ changed = 0 /\ marks = [back |-> 0, gone |-> 0]
    /\ standing = {} /\ slipped = FALSE /\ wrongs = {}

Next ==
    \/ \E c \in Clients :
          \/ \E q \in Requests(c, "commit") : Commit(c, q)
          \/ \E q \in Requests(c, "revise") : Revise(c, q)
          \/ \E q \in Requests(c, "confirm") : Confirm(c, q)
          \/ \E q \in Requests(c, "forget") : Forget(c, q)
          \/ GiveUp(c) \/ List(c) \/ Recall(c) \/ AttachProvenance(c)
    \/ Snapshot \/ (\E r \in snap : Rollback(r))
    \/ Restart

Spec == Init /\ [][Next]_rwvars

-----------------------------------------------------------------------------
(* Properties *)

TypeOK ==
    /\ row \in Entries \cup {None} /\ Belief(eng) \in Entries \cup {None}
    /\ snap \subseteq Entries \cup {None} /\ Cardinality(snap) <= 1
    /\ clock \in 0..MaxClock /\ changed \in 0..clock /\ standing \subseteq Levels \cup {Neutral}
    /\ \A c \in Clients : know[c] # None => know[c].seen \in 1..clock

\* A write with the version of a listing or of an earlier write never replaces
\* what its caller has not seen (runtime.py:195-203, 1520-1522).
VersionedWritesSee == "unseen" \notin wrongs

\* Nor does one with the version a recall told.
RecalledVersionsSee == "unseen after a recall" \notin wrongs

\* A write with a version, or one that only creates, takes effect once however
\* often it is sent, unless the memory was restored, or for the latter forgotten,
\* since (runtime.py:798-804, client.py:1074-1089).
TakesEffectOnce == "repeated" \notin wrongs

\* A revision is rejected only for an importance the memory was stored with since
\* the plane was loaded or the memory restored or gone, or for being less than
\* neutral if it was weak then; with no failed save since (runtime.py:1234-1252).
RevisionsAreJudgedFairly == "unfair" \notin wrongs

\* Nor is it after a failed save.
FailuresDoNotJudge == "unfair after a failure" \notin wrongs
=============================================================================
