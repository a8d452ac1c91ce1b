---------------------------- MODULE EntityIndex ----------------------------
(***************************************************************************)
(* What is derived from a stored row and kept in tables of its own: the    *)
(* claims it states and the entities it mentions (core/claims.py,          *)
(* core/entities.py, storage/sqlite.py, storage/postgres.py).              *)
(*                                                                         *)
(* A write saves the row and then projects it, one small transaction after *)
(* another, best effort: an exception ends the projection of the claims or *)
(* of the entities, never the write.  Entities are shared by the rows that *)
(* mention them and are pruned when the last mention goes; the mentions    *)
(* table has no foreign key.  A sweep for orphans, run by an operator or   *)
(* by the first open of a database, does not wait for writers: it only     *)
(* spares what was saved or relinked recently.                             *)
(***************************************************************************)
EXTENDS FiniteSets, Integers

CONSTANTS
    Procs,      \* writers: threads of the hosted runtime, or local processes
    Keys,
    Entities,
    Claims,     \* what rows claim; a claim's id contains its row's key
    Rows,       \* the rows callers write
    Serialized, \* writers exclude each other (the hosted runtime's project lock)
    MaxFaults,  \* bound on projections and jobs cut short
    Absent

Row == [names  : SUBSET Entities,
        claims : SUBSET Claims,
        hinted : BOOLEAN,             \* names come from the metadata
        kind   : {"working", "lasting"}]

\* What the rows of an instance have to look like.
RowsFit == Rows \subseteq Row /\ Absent \notin Row

VARIABLES
    rows,       \* [Keys -> Rows or Absent]: the memories table
    claims,     \* [Keys -> [Claims -> {"none", "active", "inactive"}]]
    mentions,   \* [Keys -> SUBSET Entities]: entity_mentions
    entities,   \* the entities table
    fresh,      \* entities saved or relinked within ORPHAN_SWEEP_MIN_AGE_SECONDS
    job,        \* [Procs -> what the writer is doing]
    faults,     \* failures so far
    \* For the properties only:
    cut,        \* <<key, projection>> pairs whose last projection was cut short
    promoted,   \* rows retyped since they were projected
    leftover    \* entities an unfinished projection saved or unlinked

vars == <<rows, claims, mentions, entities, fresh, job, faults, cut, promoted, leftover>>

-----------------------------------------------------------------------------
\* Mutant: hints in the metadata do not count for a working memory.
NamesOfIgnoringHints(r) == IF r.kind = "working" THEN {} ELSE r.names

\* extract_entities_from_entry: explicit hints always, proper nouns found in
\* the text only for semantic and episodic memories.
NamesOf(r) == IF r.hinted \/ r.kind = "lasting" THEN r.names ELSE {}

Mentioned == UNION {mentions[k] : k \in Keys}

NoJob    == [at |-> "idle", key |-> Absent, row |-> Absent, todo |-> {}, now |-> Absent,
             touched |-> {}, stamped |-> {}]
At(p, a) == job[p].at = a
AllIdle  == \A p \in Procs : At(p, "idle")

Init ==
    /\ rows = [k \in Keys |-> Absent]
    /\ claims = [k \in Keys |-> [c \in Claims |-> "none"]]
    /\ mentions = [k \in Keys |-> {}]
    /\ entities = {}
    /\ fresh = {}
    /\ job = [p \in Procs |-> NoJob]
    /\ faults = 0
    /\ cut = {}
    /\ promoted = {}
    /\ leftover = {}

\* Mutant: nothing excludes two mutations from each other.
MayStartUnlocked(p) == At(p, "idle")

\* A mutation may start: in a hosted project one at a time.
MayStart(p) == At(p, "idle") /\ (Serialized => AllIdle)

Store(p, k, r, at) ==
    /\ MayStart(p)
    /\ rows' = [rows EXCEPT ![k] = r]
    /\ job' = [job EXCEPT ![p] = [NoJob EXCEPT !.at = at, !.key = k, !.row = r, !.todo = r.claims]]
    /\ promoted' = promoted \ {k}
    /\ UNCHANGED <<claims, mentions, entities, fresh, faults, cut, leftover>>

\* commit and revise: the row is saved, then projected.
Save(p, k, r) == Store(p, k, r, "claims")

\* rollback restores a row and first drops every claim its key ever made.
Restore(p, k, r) == Store(p, k, r, "clear")

DeleteClaims(p) ==
    /\ At(p, "clear")
    /\ claims' = [claims EXCEPT ![job[p].key] = [c \in Claims |-> "none"]]
    /\ job' = [job EXCEPT ![p].at = "claims"]
    /\ UNCHANGED <<rows, mentions, entities, fresh, faults, cut, promoted, leftover>>

SaveClaim(p) ==
    /\ At(p, "claims")
    /\ \E c \in job[p].todo :
        /\ claims' = [claims EXCEPT ![job[p].key][c] = "active"]
        /\ job' = [job EXCEPT ![p].todo = @ \ {c}]
    /\ UNCHANGED <<rows, mentions, entities, fresh, faults, cut, promoted, leftover>>

\* Mutant: the claims the row no longer makes stay active.
DeactivateNothing(p) ==
    /\ At(p, "claims")
    /\ job[p].todo = {}
    /\ job' = [job EXCEPT ![p].at = "touch"]
    /\ cut' = cut \ {<<job[p].key, "claims">>}
    /\ UNCHANGED <<rows, claims, mentions, entities, fresh, faults, promoted, leftover>>

\* deactivate_claims_for_memory_key: the claims this row does not make.
Deactivate(p) ==
    /\ At(p, "claims")
    /\ job[p].todo = {}
    /\ claims' = [claims EXCEPT ![job[p].key] = [c \in Claims |->
                      IF @[c] = "active" /\ c \notin job[p].row.claims THEN "inactive" ELSE @[c]]]
    /\ job' = [job EXCEPT ![p].at = "touch"]
    /\ cut' = cut \ {<<job[p].key, "claims">>}
    /\ UNCHANGED <<rows, mentions, entities, fresh, faults, promoted, leftover>>

\* entity_ids_for_memory_key: what this key mentioned so far.
Touch(p) ==
    /\ At(p, "touch")
    /\ job' = [job EXCEPT ![p].at = "unlink", ![p].touched = mentions[job[p].key]]
    /\ UNCHANGED <<rows, claims, mentions, entities, fresh, faults, cut, promoted, leftover>>

\* Mutant: the entities are pruned as soon as they are unlinked.
UnlinkAndPrune(p) ==
    LET k == job[p].key
    IN  /\ At(p, "unlink")
        /\ mentions' = [mentions EXCEPT ![k] = {}]
        /\ entities' = entities \ {e \in mentions[k] : \A o \in Keys \ {k} : e \notin mentions[o]}
        /\ job' = [job EXCEPT ![p].at = "entity", ![p].todo = NamesOf(job[p].row)]
        /\ UNCHANGED <<rows, claims, fresh, faults, cut, promoted, leftover>>

\* delete_entity_mentions_for_memory_key(prune=False): the mentions go, their
\* entities count as relinked just now.
Unlink(p) ==
    LET k == job[p].key
    IN  /\ At(p, "unlink")
        /\ mentions' = [mentions EXCEPT ![k] = {}]
        /\ fresh' = fresh \cup mentions[k]
        /\ job' = [job EXCEPT ![p].at = "entity", ![p].todo = NamesOf(job[p].row),
                              ![p].stamped = @ \cup mentions[k]]
        /\ UNCHANGED <<rows, claims, entities, faults, cut, promoted, leftover>>

SaveEntity(p) ==
    /\ At(p, "entity")
    /\ \E e \in job[p].todo :
        /\ entities' = entities \cup {e}
        /\ fresh' = fresh \cup {e}
        /\ job' = [job EXCEPT ![p].at = "mention", ![p].now = e, ![p].stamped = @ \cup {e}]
    /\ UNCHANGED <<rows, claims, mentions, faults, cut, promoted, leftover>>

SaveMention(p) ==
    LET e == job[p].now
    IN  /\ At(p, "mention")
        /\ mentions' = [mentions EXCEPT ![job[p].key] = @ \cup {e}]
        /\ job' = [job EXCEPT ![p].at = "entity", ![p].now = Absent, ![p].todo = @ \ {e}]
        /\ UNCHANGED <<rows, claims, entities, fresh, faults, cut, promoted, leftover>>

\* Mutant: nothing is pruned.
PruneNothing(p) ==
    /\ At(p, "prune") \/ (At(p, "entity") /\ job[p].todo = {})
    /\ cut' = IF At(p, "entity") THEN cut \ {<<job[p].key, "entities">>} ELSE cut
    /\ job' = [job EXCEPT ![p] = NoJob]
    /\ UNCHANGED <<rows, claims, mentions, entities, fresh, faults, promoted, leftover>>

\* prune_orphan_entities, in the finally block: of the entities this key used
\* to mention, those nobody mentions now.
Prune(p) ==
    /\ At(p, "prune") \/ (At(p, "entity") /\ job[p].todo = {})
    /\ entities' = entities \ (job[p].touched \ Mentioned)
    /\ cut' = IF At(p, "entity") THEN cut \ {<<job[p].key, "entities">>} ELSE cut
    /\ job' = [job EXCEPT ![p] = NoJob]
    /\ UNCHANGED <<rows, claims, mentions, fresh, faults, promoted, leftover>>

\* What a job that stops here leaves unfinished.
Unfinished(p) ==
    {job[p].key} \X (IF job[p].at \in {"clear", "claims"} THEN {"claims", "entities"} ELSE {"entities"})

\* An exception in the claim projection: the entities are projected all the same.
ClaimsFail(p) ==
    /\ At(p, "claims")
    /\ faults < MaxFaults
    /\ faults' = faults + 1
    /\ job' = [job EXCEPT ![p].at = "touch"]
    /\ cut' = cut \cup {<<job[p].key, "claims">>}
    /\ UNCHANGED <<rows, claims, mentions, entities, fresh, promoted, leftover>>

\* An exception in the entity projection: once there is something to prune,
\* the finally block still prunes it, else the write is done.
EntitiesFail(p) ==
    /\ job[p].at \in {"touch", "unlink", "entity", "mention", "prune"}
    /\ faults < MaxFaults
    /\ faults' = faults + 1
    /\ job' = [job EXCEPT ![p] = IF @.at \in {"entity", "mention"} /\ @.todo # {} /\ @.touched # {}
                                 THEN [@ EXCEPT !.at = "prune"] ELSE NoJob]
    /\ cut' = IF At(p, "prune") \/ (At(p, "entity") /\ job[p].todo = {})
              THEN cut ELSE cut \cup {<<job[p].key, "entities">>}
    /\ leftover' = leftover \cup job[p].stamped
    /\ UNCHANGED <<rows, claims, mentions, entities, fresh, promoted>>

\* The process dies, or a failed statement ends a rollback: the project lock
\* is free, what was done stays done.
Crash(p) ==
    /\ ~At(p, "idle")
    /\ faults < MaxFaults
    /\ faults' = faults + 1
    /\ job' = [job EXCEPT ![p] = NoJob]
    /\ cut' = cut \cup Unfinished(p)
    /\ leftover' = leftover \cup job[p].stamped
    /\ UNCHANGED <<rows, claims, mentions, entities, fresh, promoted>>

\* Mutant: the mentions stay.
ForgetKeepingMentions(p, k) ==
    /\ MayStart(p)
    /\ rows[k] # Absent
    /\ rows' = [rows EXCEPT ![k] = Absent]
    /\ claims' = [claims EXCEPT ![k] = [c \in Claims |-> "none"]]
    /\ cut' = cut \ ({k} \X {"claims", "entities"})
    /\ promoted' = promoted \ {k}
    /\ UNCHANGED <<mentions, entities, fresh, job, faults, leftover>>

\* backend.delete, one transaction: claims, mentions, orphans, row.
Forget(p, k) ==
    /\ MayStart(p)
    /\ rows[k] # Absent
    /\ rows' = [rows EXCEPT ![k] = Absent]
    /\ claims' = [claims EXCEPT ![k] = [c \in Claims |-> "none"]]
    /\ mentions' = [mentions EXCEPT ![k] = {}]
    /\ entities' = entities \ {e \in mentions[k] : \A o \in Keys \ {k} : e \notin mentions[o]}
    /\ cut' = cut \ ({k} \X {"claims", "entities"})
    /\ promoted' = promoted \ {k}
    /\ UNCHANGED <<fresh, job, faults, leftover>>

\* Consolidation and eviction retype a working row and save it; nothing is
\* projected again.
Promote(p, k) ==
    /\ MayStart(p)
    /\ rows[k] # Absent
    /\ rows[k].kind = "working"
    /\ rows' = [rows EXCEPT ![k].kind = "lasting"]
    /\ promoted' = promoted \cup {k}
    /\ UNCHANGED <<claims, mentions, entities, fresh, job, faults, cut, leftover>>

\* Mutant: the sweep takes entities of any age.
SweepAnyAge ==
    /\ entities' = entities \cap Mentioned
    /\ leftover' = leftover \cap entities'
    /\ UNCHANGED <<rows, claims, mentions, fresh, job, faults, cut, promoted>>

\* sweep_orphan_entities: one statement, at any time, without the lock.
Sweep ==
    /\ entities' = entities \cap (Mentioned \cup fresh)
    /\ leftover' = leftover \cap entities'
    /\ UNCHANGED <<rows, claims, mentions, fresh, job, faults, cut, promoted>>

\* The hour passes for an entity.  No job takes an hour, so none that stamped
\* the entity is still running.
Age(e) ==
    /\ \A p \in Procs : e \notin job[p].stamped
    /\ fresh' = fresh \ {e}
    /\ UNCHANGED <<rows, claims, mentions, entities, job, faults, cut, promoted, leftover>>

Next ==
    \/ \E p \in Procs, k \in Keys, r \in Rows : Save(p, k, r) \/ Restore(p, k, r)
    \/ \E p \in Procs, k \in Keys : Forget(p, k) \/ Promote(p, k)
    \/ \E p \in Procs :
          \/ DeleteClaims(p) \/ SaveClaim(p) \/ Deactivate(p)
          \/ Touch(p) \/ Unlink(p) \/ SaveEntity(p) \/ SaveMention(p) \/ Prune(p)
          \/ ClaimsFail(p) \/ EntitiesFail(p) \/ Crash(p)
    \/ Sweep
    \/ \E e \in Entities : Age(e)

Spec == Init /\ [][Next]_vars

-----------------------------------------------------------------------------
(* Properties *)

\* Every variable keeps its type, and job stages carry what they need.
TypeOK ==
    /\ rows \in [Keys -> Row \cup {Absent}]
    /\ claims \in [Keys -> [Claims -> {"none", "active", "inactive"}]]
    /\ mentions \in [Keys -> SUBSET Entities]
    /\ entities \subseteq Entities /\ fresh \subseteq Entities
    /\ \A p \in Procs : ~At(p, "idle") => job[p].key \in Keys
    /\ Serialized => Cardinality({p \in Procs : ~At(p, "idle")}) <= 1

\* Every mention leads to an entity: with writers that exclude each other, a
\* prune or a sweep never removes an entity another job is about to mention,
\* wherever the job stops (there is no foreign key that would enforce it).
MentionsHaveEntity == Mentioned \subseteq entities

\* When no job runs, the index says what the stored rows say: a key that is not
\* stored has neither claims nor mentions, a stored one has the claims it makes
\* (its earlier ones inactive) and the entities it names, unless that
\* projection of its last write was cut short or its row was retyped since.
IndexMatchesRows ==
    AllIdle => \A k \in Keys :
        IF rows[k] = Absent
        THEN mentions[k] = {} /\ \A c \in Claims : claims[k][c] = "none"
        ELSE /\ <<k, "claims">> \in cut
                  \/ {c \in Claims : claims[k][c] = "active"} = rows[k].claims
             /\ <<k, "entities">> \in cut \/ k \in promoted \/ mentions[k] = NamesOf(rows[k])

\* When no job runs, an entity without a mention is one an unfinished
\* projection left behind; the sweep is what removes those.
NoOtherOrphans == AllIdle => entities \subseteq Mentioned \cup leftover

\* Rewriting or restoring a memory never deletes an entity, with its aliases
\* and metadata, that the memory mentioned and still names, and no job deletes
\* one that another row's complete index names (stateplane.py:702-704).
EntityOutlivesMention ==
    [][\A e \in entities \ entities', k \in Keys :
          (rows'[k] # Absent /\ <<k, "entities">> \notin cut' /\ k \notin promoted'
                            /\ e \in NamesOf(rows'[k]))
              => \E p \in Procs : job[p].key = k /\ e \notin mentions[k] \cup job[p].stamped]_vars

\* What entities.py:222-226 says of the text of episodic memories: it gets the
\* same entity backlinks as durable facts.
LastingIsLinked ==
    AllIdle => \A k \in Keys :
        rows[k] # Absent /\ <<k, "entities">> \notin cut => mentions[k] = NamesOf(rows[k])

=============================================================================
