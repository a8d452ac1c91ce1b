----------------------------- MODULE MCDerived ------------------------------
(* What is kept of a memory beside its row: claims and entities in tables of *)
(* the database, the full-text index of either database, the graph in the    *)
(* process, and everything a purge has to find; and the checkpoints of       *)
(* agents, which are found by their keys.  The six share no state and a      *)
(* behaviour exercises one of them.                                          *)
EXTENDS LocalPurge, FiniteSets, TLC

CONSTANTS e1, e2, c1, t1, t2

\* Of the entity index; two other parts have the same keys
CONSTANTS Keys, Entities, Claims, Rows, Serialized, Absent

\* Of the graph
CONSTANTS Memories, Names, Sayings, Fold, PerEntity, PerEntry, MaxStale, MaxUnheard

\* Of the full-text index and the search column
CONSTANTS Texts, Batch, MaxStamp, OlderFills

\* Of the checkpoints
CONSTANTS Threads, Spaces, Covers, CoversPending, Compressed, MaxPuts, MaxTime, MaxPending

VARIABLES part, rows, claims, mentioned, entities, fresh, job, stumbles, cut, promoted, leftover,
          stored, nodes, dated, edges, links, back, norm, shown, stale,
          mem, folded, versions, writer, opens, knows, target, seen,
          saved, col, version, migrator, opening, batch, past, clock, since,
          points, tasks, owner, doing, answer, time, acked, floor

\* Two rows share an entity; names come from hints or from the text.
MadeRow(names, made, hinted, kind) == [names |-> names, claims |-> made, hinted |-> hinted, kind |-> kind]

MCRows == {MadeRow({e1}, {c1}, TRUE, "working"), MadeRow({e1, e2}, {}, FALSE, "working"),
           MadeRow({e1}, {}, FALSE, "lasting"), MadeRow({}, {c1}, FALSE, "lasting")}

EI == INSTANCE EntityIndex WITH mentions <- mentioned, faults <- stumbles

ASSUME RowsAssumption == EI!RowsFit

KG == INSTANCE KnowledgeGraph WITH Keys <- Memories, Texts <- Sayings, row <- stored

FT == INSTANCE FullTextIndex WITH lock <- writer, at <- opens

SC == INSTANCE SearchColumn WITH row <- saved, lock <- migrator, at <- opening

KP == INSTANCE Checkpoints WITH
    Workers <- Procs, MaxWrites <- MaxPending, Nothing <- None, stored <- points, pending <- tasks

ASSUME DerivedConstants == KG!ConstantsFit /\ FT!ConstantsFit /\ SC!ConstantsFit /\ KP!ConstantsFit

\* Three memories; a fact, an entity in two spellings, another memory's key.
Text(caps, facts, kind) == [caps |-> caps, facts |-> facts, kind |-> kind]
ThreeSayings == {Text({4}, {6}, "semantic"), Text({5, 1}, {}, "episodic"), Text({}, {6}, "working")}
TwoSpellings == [n \in 1..6 |-> IF n = 5 THEN 4 ELSE n]

\* The keys of the second thread begin as those of the first, which has no name.
OneNameless == {<<e1, e1>>, <<e1, e2>>, <<e2, e2>>}

Symmetry == Permutations(Procs) \cup Permutations(Keys) \cup Permutations({t1, t2})

evars == <<rows, claims, mentioned, entities, fresh, job, stumbles, cut, promoted, leftover>>
gvars == <<stored, nodes, dated, edges, links, back, norm, shown, stale>>
ftvars == <<mem, folded, versions, writer, opens, knows, target, seen>>
scvars == <<saved, col, version, migrator, opening, batch, past, clock, since>>
kvars == <<points, tasks, owner, doing, answer, time, acked, floor>>

\* How many memories the graph may be behind with, and how many of them it was not
\* shown again since.
FewStale == Cardinality(stale') <= MaxStale /\ Cardinality(stale' \ shown') <= MaxUnheard

\* The index of a part that is not exercised begins empty.
MCInit ==
    /\ part \in {"index", "graph", "purge", "folding", "column", "checkpoints"}
    /\ Init /\ EI!Init /\ KG!Init /\ KP!Init
    /\ FT!Init /\ (part # "folding" => versions = {})
    /\ SC!Init /\ (part # "column" => version = 0 /\ \A k \in Keys : saved[k] = None)

MCNext ==
    \/ part = "purge" /\ Next /\ UNCHANGED <<part, evars, gvars, ftvars, scvars, kvars>>
    \/ part = "index" /\ EI!Next /\ UNCHANGED <<part, pvars, gvars, ftvars, scvars, kvars>>
    \/ part = "graph" /\ KG!Next /\ FewStale /\ UNCHANGED <<part, pvars, evars, ftvars, scvars, kvars>>
    \/ part = "folding" /\ FT!Next /\ UNCHANGED <<part, pvars, evars, gvars, scvars, kvars>>
    \/ part = "column" /\ SC!Next /\ UNCHANGED <<part, pvars, evars, gvars, ftvars, kvars>>
    \/ part = "checkpoints" /\ KP!Next /\ UNCHANGED <<part, pvars, evars, gvars, ftvars, scvars>>

MCSpec == MCInit /\ [][MCNext]_<<part, pvars, evars, gvars, ftvars, scvars, kvars>>

\* Every variable of the six keeps its type.
TypesOK == TypeOK /\ EI!TypeOK /\ KG!TypeOK /\ FT!TypeOK /\ SC!TypeOK /\ KP!TypeOK

\* No process is refused a file because another opens it too (FullTextIndex.tla).
OpensTogether == FT!OpensTogether

\* The index of a hosted project is right between the requests: mentions have
\* their entity, claims, mentions and names are those of the row, and the only
\* entities nobody mentions are those a crash left for the sweep, which never
\* takes one that is being mentioned (the three parts are in EntityIndex.tla).
IndexIsRight ==
    /\ []EI!MentionsHaveEntity /\ []EI!IndexMatchesRows /\ []EI!NoOtherOrphans
    /\ EI!EntityOutlivesMention

\* A lasting memory has the mentions of its text (EntityIndex.tla).
LastingIsLinked == EI!LastingIsLinked

\* A memory is found by what it says, and nothing else by it.  In the graph of
\* a process the indexes agree, no edge dangles, nothing of a forgotten memory is
\* left, and everything the stored text names is linked; except, until it is read or
\* written, of a memory whose row changed without the graph hearing of it: by a
\* promotion, a pruning, a rollback or another process (KnowledgeGraph.tla).
\* The full-text index of a SQLite file holds what the file does from the moment
\* it is there, and is there if the version says so (FullTextIndex.tla).  The
\* search vectors of a Postgres project that count as current are right, and
\* none is missing while it is open (SearchColumn.tla).  A thread that is resumed
\* goes on from the last checkpoint it was told is saved (Checkpoints.tla).
MemoriesAreFound ==
    /\ KG!IndexesAgree /\ KG!GraphIsWhole /\ KG!ForgottenLeavesNoTrace /\ KG!LinksCoverText
    /\ FT!IndexFollowsRows /\ FT!VersionIsTrue
    /\ SC!CurrentIsRight /\ SC!OpenMeansSearchable
    /\ KP!ResumesFromLast

\* What get_tuple hands out leads back to the checkpoint (Checkpoints.tla).
ConfigLeadsBack == KP!ConfigLeadsBack

\* A thread is resumed from its own checkpoints only (Checkpoints.tla).
ResumesItself == KP!ResumesItself

\* The graph lists no entity the stored text does not name (KnowledgeGraph.tla).
GraphMatchesText == KG!LinksMatchText
=============================================================================
