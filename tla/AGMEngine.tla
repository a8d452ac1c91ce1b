------------------------------ MODULE AGMEngine ------------------------------
(***************************************************************************)
(* The belief revision engine of one process (adaptive/agm_engine.py):     *)
(* what it believes of each key, how entrenched that is, and a log of the  *)
(* newest operations.  SharedBeliefs.tla has the engine in its place       *)
(* between store and callers; this module has the engine itself, with all  *)
(* of its strategies and operations.                                       *)
(*                                                                         *)
(* Importance is a level; Neutral is the one of 0.5, and 0 stands for an   *)
(* entrenchment that is not set.  The vector clock only ever compares a    *)
(* key with itself and decides nothing.  The log is kept as the set of its *)
(* records: they are only appended, so their numbers tell their order.     *)
(* The checks of the Darwiche and Pearl postulates are not called by the   *)
(* program and are left out.                                               *)
(***************************************************************************)
EXTENDS Integers, Sequences, FiniteSets

CONSTANTS
    Subjects,     \* keys of beliefs
    Entries,      \* entries that may be offered: [val, imp, at, ok]
    Neutral,
    LogSize,      \* max_operation_log
    MaxOps,       \* bound on the operations recorded
    None

VARIABLES
    eng,          \* the engine: [beliefs, entrench, log, total]
    held,         \* ghost: importances a key was believed with, since it was
                  \* last unknown or reconciled
    about,        \* ghost: the key of every operation ever recorded
    purged        \* ghost: how many were recorded when a key was last redacted

avars == <<eng, held, about, purged>>

\* What the constants have to be.
ConstantsFit ==
    /\ \A e \in Entries : e.imp \in Nat
    /\ None \notin Entries
    /\ Neutral \in Nat /\ LogSize \in Nat /\ MaxOps \in Nat

-----------------------------------------------------------------------------
(* Parts of the operations *)

Believed(k) == eng.beliefs[k] # None

Greater(a, b) == IF a >= b THEN a ELSE b

Entrenchment(g, k) == IF g.entrench[k] = 0 THEN Neutral ELSE g.entrench[k]

\* add_belief and _update_entrenchment: the greater importance stays.
Added(g, k, e) ==
    [g EXCEPT !.beliefs[k] = e, !.entrench[k] = Greater(@, e.imp)]

ButOldest(log) == {r \in log : \E o \in log : o.n < r.n}

\* _record keeps the newest records; one names its key as affected or only in
\* its explanation.
Recorded(g, k, affected) ==
    LET log == g.log \cup {[n |-> g.total + 1, key |-> k, affected |-> affected]} IN
    [g EXCEPT !.log = IF Cardinality(log) > LogSize THEN ButOldest(log) ELSE log, !.total = @ + 1]

\* _resolve_strategy: does the new entry replace the one that is believed?
Replaces(g, k, new, strategy) ==
    LET old == g.beliefs[k] IN
    CASE strategy = "entrenchment" -> new.imp >= Entrenchment(g, k)
      [] strategy = "recency"      -> new.at >= old.at
      [] strategy = "importance"   -> new.imp >= old.imp
      [] strategy = "verification" ->
           IF new.ok # old.ok THEN new.ok ELSE new.imp >= old.imp

\* What resolve_multi_conflict sorts candidates by.
Score(g, k, e, strategy) ==
    CASE strategy = "entrenchment" -> Greater(Entrenchment(g, k), e.imp)
      [] strategy = "recency"      -> e.at
      [] strategy = "importance"   -> e.imp
      [] strategy = "verification" -> IF e.ok THEN 1 ELSE 0

ConflictStrategy == {"entrenchment", "recency", "importance", "verification"}

\* load_beliefs_from_entries leaves out what is less than neutral.
Loaded(rows) ==
    [beliefs  |-> [k \in Subjects |-> IF rows[k] # None /\ rows[k].imp >= Neutral THEN rows[k] ELSE None],
     entrench |-> [k \in Subjects |-> IF rows[k] # None /\ rows[k].imp >= Neutral THEN rows[k].imp ELSE 0],
     log |-> {}, total |-> 0]

ContractedKeepingRank(g, k) ==
    IF g.beliefs[k] = None THEN g ELSE Recorded([g EXCEPT !.beliefs[k] = None], k, TRUE)

Contracted(g, k) ==
    IF g.beliefs[k] = None THEN g
    ELSE Recorded([g EXCEPT !.beliefs[k] = None, !.entrench[k] = 0], k, TRUE)

Expanded(g, k, e) ==
    IF g.beliefs[k] # None /\ g.beliefs[k].val = e.val THEN g
    ELSE Recorded(Added(g, k, e), k, TRUE)

Revised(g, k, e, strategy) ==
    CASE g.beliefs[k] = None -> Recorded(Added(g, k, e), k, TRUE)
      [] g.beliefs[k] # None /\ g.beliefs[k].val = e.val -> g
      [] OTHER -> IF Replaces(g, k, e, strategy)
                  THEN Recorded(Added(g, k, e), k, TRUE)
                  ELSE Recorded(g, k, FALSE)

\* The first of two candidates wins a tie.
Resolved(g, k, first, second, strategy) ==
    Recorded(Added(g, k, IF Score(g, k, first, strategy) >= Score(g, k, second, strategy)
                         THEN first ELSE second), k, TRUE)

\* redact_operation_log drops what mentions the key.
RedactedAffected(g, k) ==
    [g EXCEPT !.log = {r \in @ : ~(r.key = k /\ r.affected)}]

Redacted(g, k) == [g EXCEPT !.log = {r \in @ : r.key # k}]

\* The program brings the engine in line with a row of the store.
Reconciled(g, k, e) == [g EXCEPT !.beliefs[k] = e, !.entrench[k] = e.imp]

-----------------------------------------------------------------------------
(* Operations *)

Init ==
    /\ \E rows \in [Subjects -> Entries \cup {None}] : eng = Loaded(rows)
    /\ held = [k \in Subjects |-> IF eng.beliefs[k] = None THEN {} ELSE {eng.beliefs[k].imp}]
    /\ about = <<>> /\ purged = [k \in Subjects |-> 0]

\* The engine becomes g by an operation on k, and the ghosts follow.
Becomes(g, k, anew) ==
    /\ g.total <= MaxOps
    /\ eng' = g
    /\ held' = [held EXCEPT ![k] =
                  IF g.beliefs[k] = None THEN {}
                  ELSE (IF anew THEN {} ELSE @) \cup {g.beliefs[k].imp}]
    /\ about' = IF g.total > eng.total THEN Append(about, k) ELSE about

Load(k, e) ==
    /\ e.imp >= Neutral /\ Becomes(Added(eng, k, e), k, FALSE) /\ UNCHANGED purged

Contract(k) == Becomes(Contracted(eng, k), k, FALSE) /\ UNCHANGED purged

Expand(k, e) == Becomes(Expanded(eng, k, e), k, FALSE) /\ UNCHANGED purged

Revise(k, e) ==
    /\ \E s \in ConflictStrategy : Becomes(Revised(eng, k, e, s), k, FALSE)
    /\ UNCHANGED purged

Resolve(k, e, f) ==
    /\ \E s \in ConflictStrategy : Becomes(Resolved(eng, k, e, f, s), k, FALSE)
    /\ UNCHANGED purged

Reconcile(k, e) == Becomes(Reconciled(eng, k, e), k, TRUE) /\ UNCHANGED purged

Redact(k) ==
    /\ eng' = Redacted(eng, k)
    /\ purged' = [purged EXCEPT ![k] = eng.total]
    /\ UNCHANGED <<held, about>>

Next ==
    \E k \in Subjects :
        \/ Contract(k) \/ Redact(k)
        \/ \E e \in Entries : Load(k, e) \/ Expand(k, e) \/ Revise(k, e) \/ Reconcile(k, e)
        \/ \E e, f \in Entries : Resolve(k, e, f)

Spec == Init /\ [][Next]_avars

-----------------------------------------------------------------------------
(* Properties *)

TypeOK ==
    /\ eng.beliefs \in [Subjects -> Entries \cup {None}]
    /\ DOMAIN eng.entrench = Subjects
    /\ Cardinality(eng.log) <= LogSize /\ eng.total = Len(about) /\ eng.total <= MaxOps

\* A belief is exactly as hard to give up as the most important entry it was ever
\* held with since the key was last unknown or reconciled with the store: a
\* weaker replacement does not wear it down, and nothing of a belief that was
\* contracted stays behind (agm_engine.py:146-149, 355-357).
EntrenchmentIsPeak ==
    \A k \in Subjects :
        IF Believed(k) THEN eng.entrench[k] \in held[k] /\ \A i \in held[k] : i <= eng.entrench[k]
        ELSE eng.entrench[k] = 0

\* The log has the newest operations, all of them but those whose key was
\* redacted since, and of a redacted key only what came later
\* (agm_engine.py:312-318, 762-781; a rejected revision mentions its key too).
LogIsRecent ==
    /\ \A r \in eng.log : r.n \in 1..eng.total /\ r.key = about[r.n] /\ r.n > purged[r.key]
    /\ \A n \in 1..eng.total :
          n > eng.total - LogSize /\ n > purged[about[n]] => \E r \in eng.log : r.n = n
=============================================================================
