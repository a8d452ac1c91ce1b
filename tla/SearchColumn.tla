---------------------------- MODULE SearchColumn ----------------------------
(***************************************************************************)
(* The full-text column of a project on Postgres (storage/postgres.py      *)
(* init, _backfill_fts, save): every save writes the search vector of its  *)
(* text and the updated_at it was built from.  A runtime that opens the    *)
(* project brings what older ones left up to date, in batches, while       *)
(* others save; one at a time does that, under an advisory lock.           *)
(*                                                                         *)
(* Runtimes before version 2 save without the column.  A vector is the     *)
(* text it was built from and whether that was folded, as since version 3. *)
(* A save that restores a snapshot brings back text and updated_at; every  *)
(* other one has a stamp of its own.                                       *)
(***************************************************************************)
EXTENDS Integers, FiniteSets

CONSTANTS
    Procs, Keys, Texts,
    Batch,          \* FTS_BACKFILL_BATCH
    OlderFills,     \* do runtimes of version 2 save too, with the text as it is?
    MaxStamp,       \* bound on the saves
    None

ConstantsFit ==
    /\ Batch \in Nat \ {0} /\ MaxStamp \in Nat \ {0}
    /\ None \notin Procs /\ None \notin Texts /\ None \notin [text : Texts, upd : 1..MaxStamp]

VARIABLES
    row,            \* [Keys -> [text, upd], or None if there is none]
    col,            \* [Keys -> tsv and tsv_at: [text, folded, of]; None and 0 are null]
    version,        \* of the schema; 0 if none is recorded
    lock,           \* who migrates, or None
    at,             \* [Procs -> where in init it is, "open" or "closed"]
    batch,          \* [Procs -> rows it has read and not written back]
    past,           \* [Keys -> earlier rows, which snapshots may hold]
    clock,
    since           \* ghost: saved by an older runtime since a backfill found nothing

cvars == <<row, col, version, lock, at, batch, past, clock, since>>

Vector(text, folds, of) == [text |-> text, folded |-> folds, of |-> of]
NoVector == Vector(None, FALSE, 0)

Outdated(k) == row[k] # None /\ (col[k].text = None \/ col[k].of # row[k].upd)

\* A new project, one from before the column, or one of version 2.
Init ==
    /\ row \in [Keys -> [text : Texts, upd : {1}] \cup {None}]
    /\ version \in {0, 2}
    /\ col = [k \in Keys |-> IF version = 2 /\ row[k] # None THEN Vector(row[k].text, FALSE, 1) ELSE NoVector]
    /\ past = [k \in Keys |-> {row[k]} \ {None}]
    /\ lock = None /\ clock = 1 /\ since = {}
    /\ at = [p \in Procs |-> "closed"] /\ batch = [p \in Procs |-> {}]

-----------------------------------------------------------------------------
(* Opening *)

Goes(p, place) == at' = [at EXCEPT ![p] = place]

\* Mutant: nobody waits.
FreeForAll == TRUE

Free == lock = None

\* The version is read under the lock.
Migrate(p) ==
    /\ at[p] = "closed" /\ Free /\ lock' = p
    /\ Goes(p, IF version = 2 THEN "reset" ELSE "backfill")
    /\ UNCHANGED <<row, col, version, batch, past, clock, since>>

\* Mutant: vectors of version 2 stay.
TrustedAsItIs(vector) == vector

\* Vectors of version 2 count as outdated.
NotTrusted(vector) == [vector EXCEPT !.of = 0]

Reset(p) ==
    /\ at[p] = "reset"
    /\ col' = [k \in Keys |-> NotTrusted(col[k])]
    /\ Goes(p, "backfill")
    /\ UNCHANGED <<row, version, lock, batch, past, clock, since>>

Fetch(p) ==
    /\ at[p] = "backfill" /\ batch[p] = {}
    /\ LET outdated == {k \in Keys : Outdated(k)} IN
       \/ /\ outdated = {} /\ Goes(p, "record") /\ since' = {} /\ UNCHANGED batch
       \/ /\ \E some \in SUBSET outdated :
                /\ Cardinality(some) = IF Cardinality(outdated) < Batch THEN Cardinality(outdated) ELSE Batch
                /\ some # {}
                /\ batch' = [batch EXCEPT ![p] = {<<k, row[k]>> : k \in some}]
          /\ UNCHANGED <<at, since>>
    /\ UNCHANGED <<row, col, version, lock, past, clock>>

\* Mutant: what was read is written, whatever was saved since.
StillReadAnyway(k, old) == row[k] # None

StillRead(k, old) == row[k] # None /\ row[k].upd = old.upd

Fill(p) ==
    /\ batch[p] # {}
    /\ col' = [k \in Keys |->
                  IF \E old \in {b[2] : b \in {b \in batch[p] : b[1] = k}} : StillRead(k, old)
                  THEN LET old == (CHOOSE b \in batch[p] : b[1] = k)[2] IN Vector(old.text, TRUE, old.upd)
                  ELSE col[k]]
    /\ batch' = [batch EXCEPT ![p] = {}]
    /\ UNCHANGED <<row, version, lock, at, past, clock, since>>

Record(p) ==
    /\ at[p] = "record" /\ version' = 3 /\ lock' = None
    /\ Goes(p, "open")
    /\ UNCHANGED <<row, col, batch, past, clock, since>>

\* The runtime dies or unloads the project; its session gives the lock back.
Close(p) ==
    /\ at[p] # "closed" /\ Goes(p, "closed")
    /\ lock' = IF lock = p THEN None ELSE lock
    /\ batch' = [batch EXCEPT ![p] = {}]
    /\ UNCHANGED <<row, col, version, past, clock, since>>

-----------------------------------------------------------------------------
(* Saving *)

\* What a save may store under k: a text, stamped now, or an earlier row.
Offers(k) ==
    past[k] \cup IF clock < MaxStamp THEN {[text |-> t, upd |-> clock + 1] : t \in Texts} ELSE {}

Stores(k, r, vector) ==
    /\ row' = [row EXCEPT ![k] = r] /\ col' = [col EXCEPT ![k] = vector]
    /\ past' = [past EXCEPT ![k] = @ \cup {r}]
    /\ clock' = IF r.upd > clock THEN r.upd ELSE clock
    /\ UNCHANGED <<version, lock, at, batch>>

Save(k, r) ==
    /\ \E p \in Procs : at[p] = "open"
    /\ Stores(k, r, Vector(r.text, TRUE, r.upd)) /\ since' = since \ {k}

\* An older runtime leaves the column of a row as it was.
OldSave(k, r) ==
    /\ \/ Stores(k, r, IF row[k] = None THEN NoVector ELSE col[k])
       \/ OlderFills /\ version >= 2 /\ Stores(k, r, Vector(r.text, FALSE, r.upd))
    /\ since' = since \cup {k}

Delete(k) ==
    /\ row[k] # None
    /\ row' = [row EXCEPT ![k] = None] /\ col' = [col EXCEPT ![k] = NoVector]
    /\ UNCHANGED <<version, lock, at, batch, past, clock, since>>

Next ==
    \/ \E p \in Procs : Migrate(p) \/ Reset(p) \/ Fetch(p) \/ Fill(p) \/ Record(p) \/ Close(p)
    \/ \E k \in Keys : Delete(k) \/ \E r \in Offers(k) : Save(k, r) \/ OldSave(k, r)

Spec == Init /\ [][Next]_cvars

-----------------------------------------------------------------------------
(* Properties *)

TypeOK ==
    /\ \A k \in Keys : col[k].text \in Texts \cup {None} /\ col[k].of \in 0..MaxStamp
    /\ \A k \in Keys : row[k] # None => row[k] \in past[k]
    /\ version \in {0, 2, 3} /\ (lock # None => at[lock] # "open")

\* Once the schema is of version 3, a vector that counts as current is that of
\* the text stored, folded (postgres.py:355-359, 376-378).
CurrentIsRight ==
    version = 3 =>
        \A k \in Keys : row[k] # None /\ ~Outdated(k) => col[k].text = row[k].text /\ col[k].folded

\* As long as a runtime has the project open, every memory is found by its words,
\* but for what an older runtime saved since the last backfill (postgres.py:804-835).
OpenMeansSearchable ==
    (\E p \in Procs : at[p] \in {"record", "open"}) => \A k \in Keys \ since : ~Outdated(k)
=============================================================================
