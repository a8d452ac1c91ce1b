--------------------------- MODULE KnowledgeGraph ---------------------------
(***************************************************************************)
(* The in-memory graph of a plane (core/knowledge_graph.py): a node for    *)
(* every memory it was shown and for every entity their texts name, edges  *)
(* between them, and the indexes recall uses.  The state plane shows it    *)
(* each commit, takes a memory out before it shows the revised one, and    *)
(* lets jobs prune it and catch up with what it was never shown.  Rows also*)
(* change without the graph hearing of it.                                 *)
(*                                                                         *)
(* Names, memory keys among them, are numbers in the order the code sorts  *)
(* them.  Parallel edges that differ only in weight are one edge.          *)
(***************************************************************************)
EXTENDS Integers, FiniteSets, Functions

CONSTANTS
    Keys,      \* memory keys
    Names,     \* what a text can name: entities, facts, keys of other memories
    Texts,     \* memory texts: the entities and facts they name, their kind
    Fold,      \* [Nodes -> Nodes]: the name without case
    PerEntity, \* max_cross_memory_links_per_entity
    PerEntry,  \* max_cross_memory_links_per_entry
    None

Nodes == Keys \cup Names

ConstantsFit ==
    /\ Nodes \subseteq Int /\ None \notin Texts
    /\ \A t \in Texts : t.caps \subseteq Names /\ t.facts \subseteq Names
    /\ Fold \in [Nodes -> Nodes]

VARIABLES
    row,       \* [Keys -> Texts or None]: the stored memories
    nodes,     \* the nodes of the graph
    dated,     \* nodes that carry created_at: those of memories
    edges,     \* <<source, target, kind>>
    links,     \* _memory_to_entities
    back,      \* _entity_to_memories
    norm,      \* _normalized_entity_to_memories
    \* For the properties only:
    shown,     \* keys whose stored text the graph was shown
    stale      \* keys of which the graph may say what an earlier row said

graph == <<nodes, dated, edges, links, back, norm>>
vars  == <<row, graph, shown, stale>>

-----------------------------------------------------------------------------
\* The graph as one value, for the operations that the actions combine.
Graph == [nodes |-> nodes, dated |-> dated, edges |-> edges, links |-> links,
          back |-> back, norm |-> norm]

Becomes(g) ==
    /\ nodes' = g.nodes /\ dated' = g.dated /\ edges' = g.edges
    /\ links' = g.links /\ back' = g.back /\ norm' = g.norm

Empty == [nodes |-> {}, dated |-> {}, edges |-> {},
          links |-> [k \in Keys |-> {}], back |-> [n \in Nodes |-> {}], norm |-> [n \in Nodes |-> {}]]

Init ==
    /\ row = [k \in Keys |-> None]
    /\ nodes = Empty.nodes /\ dated = Empty.dated /\ edges = Empty.edges
    /\ links = Empty.links /\ back = Empty.back /\ norm = Empty.norm
    /\ shown = {}
    /\ stale = {}

Named(t) == t.caps \cup t.facts

\* _rebuild_normalized_entity_index
Normalized(b) == [n \in Nodes |-> UNION {b[e] : e \in {x \in Nodes : Fold[x] = n}}]

\* sorted(S)[:n]
Smallest(S, n) == {x \in S : Cardinality({y \in S : y < x}) < n}

\* The memories a text shares a name with, within the two caps: its names are
\* looked up in order until enough are found.
Related(g, k, t) ==
    LET of(names) == UNION {Smallest(g.back[n], PerEntity) : n \in names}
        asked     == {n \in Named(t) : Cardinality(of({m \in Named(t) : m < n})) < PerEntry}
    IN  Smallest(of(asked) \ {k}, PerEntry)

\* add_entity: a node that is there already stays.
AddNodes(g, new) == [g EXCEPT !.nodes = @ \cup new]

\* add_relation: an end that is missing becomes a node.
AddRelations(g, new) ==
    [AddNodes(g, UNION {{e[1], e[2]} : e \in new}) EXCEPT !.edges = @ \cup new]

\* The relations of a text.
Relations(g, k, t) ==
    {<<k, e, "related">> : e \in t.caps} \cup {<<k, f, "supports">> : f \in t.facts}
        \cup {<<k, o, "cross">> : o \in Related(g, k, t)}

\* _index_memory_entities, for some memories and their texts: all three indexes.
IndexNames(g, texts) ==
    LET naming(n) == {k \in DOMAIN texts : n \in Named(texts[k])}
    IN  [g EXCEPT !.links = [k \in Keys |-> @[k] \cup IF k \in DOMAIN texts THEN Named(texts[k]) ELSE {}],
                  !.back = [n \in Nodes |-> @[n] \cup naming(n)],
                  !.norm = [n \in Nodes |-> @[n] \cup UNION {naming(e) : e \in {x \in Nodes : Fold[x] = n}}]]

\* Adds what the texts name, and their relations.
Show(g, texts, relations) ==
    LET keys == DOMAIN texts
        new  == keys \cup UNION {Named(texts[k]) : k \in keys}
    IN  IndexNames(AddRelations([AddNodes(g, new) EXCEPT !.dated = @ \cup keys], relations), texts)

\* ingest_memory_entry: adds what the text names, removes nothing.
Ingest(g, k, t) ==
    IF t.kind = "working" THEN g ELSE Show(g, [m \in {k} |-> t], Relations(g, k, t))

\* Mutant: the edges into the removed nodes stay.
RemoveNodesKeepingEdges(g, gone) ==
    LET newBack == [n \in Nodes |-> IF n \in gone THEN {} ELSE g.back[n]]
    IN  [nodes |-> g.nodes \ gone,
         dated |-> g.dated \ gone,
         edges |-> {e \in g.edges : e[1] \notin gone},
         links |-> [m \in Keys |-> g.links[m] \ {n \in gone : m \in g.back[n]}],
         back  |-> newBack,
         norm  |-> Normalized(newBack)]

\* Mutant: the index by normalized name is not rebuilt.
RemoveNodesStaleNorm(g, gone) ==
    [g EXCEPT !.nodes = @ \ gone,
              !.dated = @ \ gone,
              !.edges = {e \in @ : e[1] \notin gone /\ e[2] \notin gone},
              !.links = [m \in Keys |-> @[m] \ {n \in gone : m \in g.back[n]}],
              !.back  = [n \in Nodes |-> IF n \in gone THEN {} ELSE @[n]]]

\* _remove_nodes, and remove_entity for a single one.
RemoveNodes(g, gone) ==
    LET newBack == [n \in Nodes |-> IF n \in gone THEN {} ELSE g.back[n]]
    IN  [nodes |-> g.nodes \ gone,
         dated |-> g.dated \ gone,
         edges |-> {e \in g.edges : e[1] \notin gone /\ e[2] \notin gone},
         links |-> [m \in Keys |-> g.links[m] \ {n \in gone : m \in g.back[n]}],
         back  |-> newBack,
         norm  |-> Normalized(newBack)]

\* Mutant: entities only this memory named stay, with their empty index rows.
ForgetMemoryNodeOnly(g, k) ==
    RemoveNodes([g EXCEPT !.links[k] = {},
                          !.back = [n \in Nodes |-> g.back[n] \ {k}]], {k} \cap g.nodes)

\* forget_memory: the memory's node goes, and every entity only it named that
\* is not itself a memory.
ForgetMemory(g, k) ==
    LET unlinked == [g EXCEPT !.links[k] = {},
                              !.back = [n \in Nodes |-> IF n \in g.links[k] THEN @[n] \ {k} ELSE @[n]]]
        orphaned == {n \in g.links[k] : unlinked.back[n] = {}}
        doomed   == ({k} \cup (orphaned \ g.dated)) \cap g.nodes
    IN  IF doomed # {} THEN RemoveNodes(unlinked, doomed)
        ELSE IF g.links[k] # {} THEN [unlinked EXCEPT !.norm = Normalized(unlinked.back)]
        ELSE unlinked

-----------------------------------------------------------------------------
\* commit_with_agm_async: the graph is shown the new text on top of the old.
Commit(k, t) ==
    /\ row' = [row EXCEPT ![k] = t]
    /\ Becomes(Ingest(Graph, k, t))
    /\ shown' = shown \cup {k}
    /\ stale' = IF row[k] = None THEN stale ELSE stale \cup {k}

\* Mutant: the revised text is shown on top of the old one.
ReviseOnTop(k, t) ==
    /\ row' = [row EXCEPT ![k] = t]
    /\ Becomes(Ingest(Graph, k, t))
    /\ shown' = shown \cup {k}
    /\ stale' = stale \ {k}

\* _record_revision and _sync_cached_state: forget, then show the new text.  The
\* latter also when a read or a hosted rollback has found the row changed, to show
\* what is stored.
Revise(k, t) ==
    /\ row' = [row EXCEPT ![k] = t]
    /\ Becomes(Ingest(ForgetMemory(Graph, k), k, t))
    /\ shown' = shown \cup {k}
    /\ stale' = stale \ {k}

\* forget, and _sync_cached_state when a read or a hosted rollback finds no row.
Forget(k) ==
    /\ row' = [row EXCEPT ![k] = None]
    /\ Becomes(ForgetMemory(Graph, k))
    /\ shown' = shown \ {k}
    /\ stale' = stale \ {k}

\* The row changes, and the graph hears nothing.
Unheard(k, t) ==
    /\ row[k] # t
    /\ row' = [row EXCEPT ![k] = t]
    /\ shown' = shown \ {k}
    /\ stale' = stale \cup ({k} \cap shown)
    /\ UNCHANGED graph

\* consolidate stores a gated slot as episodic, over no row or a working one.
Promote(k, t) ==
    /\ row[k] # None => row[k].kind = "working"
    /\ t.kind = "episodic"
    /\ Unheard(k, t)

\* apply_decay_pass deletes a row that has faded.
Prune(k) == Unheard(k, None)

\* StatePlane.rollback puts rows back or takes them away; another process does as
\* much, and so do a slot pushed out of the buffer and a commit cut short here.
RollBack(k, t) == Unheard(k, t)

\* run_kg_maintenance: nodes without an edge go.
Maintain ==
    LET lonely == {n \in nodes : \A e \in edges : n # e[1] /\ n # e[2]}
    IN  /\ lonely # {}
        /\ Becomes(RemoveNodes(Graph, lonely))
        /\ UNCHANGED <<row, shown, stale>>

\* run_entity_linking_backlog: stored semantic memories without links are shown one
\* after the other, the most important first; each finds those before it.
LinkBacklog ==
    LET unlinked == {k \in Keys : row[k] # None /\ row[k].kind = "semantic" /\ links[k] = {}}
        texts    == [k \in unlinked |-> row[k]]
    IN  /\ unlinked # {}
        /\ \E place \in Injection(unlinked, 1..Cardinality(unlinked)) :
              LET before(k) == [m \in {m \in unlinked : place[m] < place[k]} |-> row[m]]
              IN  Becomes(Show(Graph, texts,
                      UNION {Relations(IndexNames(Graph, before(k)), k, row[k]) : k \in unlinked}))
        /\ shown' = shown \cup unlinked
        /\ UNCHANGED <<row, stale>>

\* The process starts again: the rows are there, the graph is not.
Restart ==
    /\ Becomes(Empty)
    /\ shown' = {}
    /\ stale' = {}
    /\ UNCHANGED row

Next ==
    \/ \E k \in Keys, t \in Texts : Commit(k, t) \/ Revise(k, t)
    \/ \E k \in Keys : Forget(k) \/ Prune(k)
    \/ \E k \in Keys, t \in Texts : Promote(k, t)
    \/ \E k \in Keys, t \in Texts \cup {None} : RollBack(k, t)
    \/ Maintain
    \/ LinkBacklog
    \/ Restart

Spec == Init /\ [][Next]_vars

-----------------------------------------------------------------------------
(* Properties *)

\* Every variable keeps its type.
TypeOK ==
    /\ row \in [Keys -> Texts \cup {None}]
    /\ nodes \subseteq Nodes /\ dated \subseteq nodes
    /\ edges \subseteq Nodes \X Nodes \X {"related", "supports", "cross"}
    /\ links \in [Keys -> SUBSET Names]
    /\ back \in [Nodes -> SUBSET Keys]
    /\ norm \in [Nodes -> SUBSET Keys]
    /\ shown \subseteq Keys /\ stale \subseteq Keys

\* The three indexes say the same after any mix of incremental updates,
\* removals and rebuilds: recall by entity, in whatever case, finds exactly
\* the memories that list the entity.
IndexesAgree ==
    /\ \A k \in Keys, n \in Nodes : n \in links[k] <=> k \in back[n]
    /\ norm = Normalized(back)

\* The graph is one: an edge joins two nodes, an entity a memory lists has an
\* edge from that memory, and a cross link leads to a memory, never to what is
\* left of a forgotten one.
GraphIsWhole ==
    /\ \A e \in edges : e[1] \in dated /\ e[2] \in nodes
    /\ \A k \in Keys : \A n \in links[k] :
          <<k, n, "related">> \in edges \/ <<k, n, "supports">> \in edges
    /\ \A e \in edges : e[3] = "cross" => e[2] \in dated

\* Nothing of a memory without a row is left, unless its row went unheard after
\* the graph was shown it: no node that says it is a memory, no link, no edge out of
\* it.  And no entity at all that only forgotten memories named.
ForgottenLeavesNoTrace ==
    /\ \A k \in Keys \ stale : row[k] = None => k \notin dated /\ links[k] = {} /\ \A e \in edges : e[1] # k
    /\ \A n \in nodes \ dated : back[n] # {}

\* The graph lists for a memory the entities its stored text names, keys of
\* other memories aside, once it was shown the text; a commit over an existing
\* memory may leave more, a revision leaves exactly these, also of a memory that
\* had changed unheard.
LinksCoverText ==
    \A k \in shown :
        LET named == IF row[k].kind = "working" THEN {} ELSE Named(row[k]) \ Keys
        IN  /\ named \subseteq links[k]
            /\ k \notin stale => links[k] \ Keys = named

\* What stateplane.py:3731-3732 says of a commit: it keeps the graph in step with
\* the backend.
LinksMatchText ==
    \A k \in shown : row[k].kind # "working" => links[k] \subseteq Named(row[k])

=============================================================================
