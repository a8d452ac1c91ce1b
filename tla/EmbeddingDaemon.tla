-------------------------- MODULE EmbeddingDaemon ---------------------------
(***************************************************************************)
(* The local embedding daemon (embeddings/daemon.py, embeddings/store.py)  *)
(* and a process that recalls (core/stateplane.py).  A pass reads the      *)
(* memories and what is indexed, embeds a bounded number of texts without  *)
(* a lock, then writes what is still true in one transaction.  Meanwhile   *)
(* memories are saved and forgotten.  A recall keeps the vectors it loaded *)
(* as long as the signature of the table, read before, stays the same.     *)
(* Delays are counted in passes; the clock that stamps writes is monotone. *)
(***************************************************************************)
EXTENDS Integers, Sequences, FiniteSets

SX == INSTANCE SequencesExt

CONSTANTS
    LastRow,    \* the keys are 1..LastRow, in the order the table returns them
    Contents,   \* the texts of memories
    Blank,      \* the one that is empty or out of scope: not to be indexed
    Rejects,    \* those the encoder rejects
    PassSize,   \* keys_per_pass
    MaxInARow,  \* MAX_FAILURES_PER_PASS
    LongestWait,\* FAILURE_BACKOFF_MAX, in passes
    MaxEdits,   \* bound on saves
    MaxOutages, \* bound on outages, failed passes and restarts
    None

ConstantsFit ==
    /\ LastRow \in Nat /\ PassSize \in Nat
    /\ MaxInARow \in Nat \ {0} /\ LongestWait \in Nat \ {0}
    /\ MaxEdits \in Nat /\ MaxOutages \in Nat
    /\ None \notin Contents \cup (Nat \X Nat)
    /\ None \notin [of : Contents, at : Nat] \cup [of : Contents, left : Nat, delay : Nat]
    /\ None \notin [sig : Nat \X Nat, vecs : [1..LastRow -> [of : Contents, at : Nat] \cup {None}]]

VARIABLES
    text,    \* [key -> text or None]: memories
    vec,     \* [key -> [of, at] or None]: memory_embeddings
    failed,  \* _failed: [key -> [of, left, delay] or None]
    pass,    \* the running pass
    cache,   \* _embedding_cache: [sig, vecs] or None
    sig,     \* the signature a recall read and found new, or None
    now,     \* the time of the last write
    edits, outages

dvars == <<text, vec, failed, pass, cache, sig, now, edits, outages>>

-----------------------------------------------------------------------------
Names == 1..LastRow
NoPass == [at |-> "idle", wanted |-> [k \in Names |-> None], todo |-> << >>,
           stale |-> {}, done |-> {}, row |-> 0]

Indexed   == {k \in Names : vec[k] # None}
LastWrite == SX!Max({0} \cup {vec[k].at : k \in Indexed})

\* Mutant: only the number of vectors counts.
SignatureByCount == <<Cardinality(Indexed), 0>>

\* store.signature: their number and the latest write.
Signature == <<Cardinality(Indexed), LastWrite>>

\* The first keys of some, as the slice of keys_per_pass takes them.
FirstRows(S) ==
    [i \in 1..(IF PassSize < Cardinality(S) THEN PassSize ELSE Cardinality(S)) |->
        CHOOSE k \in S : Cardinality({o \in S : o < k}) = i - 1]

\* What a delay belongs to: only the text it was set for.
FailedAs(k, of) == failed[k] # None /\ failed[k].of = of
Delayed(k)      == failed[k] # None /\ failed[k].left > 0

Init ==
    /\ text = [k \in Names |-> None]
    /\ vec = [k \in Names |-> None]
    /\ failed = [k \in Names |-> None]
    /\ pass = NoPass
    /\ cache = None
    /\ sig = None
    /\ now = 0
    /\ edits = 0 /\ outages = 0

-----------------------------------------------------------------------------
(* Memories are written by other processes *)

SaveText(k, t) ==
    /\ edits < MaxEdits
    /\ edits' = edits + 1
    /\ text' = [text EXCEPT ![k] = t]
    /\ UNCHANGED <<vec, failed, pass, cache, sig, outages, now>>

\* SQLiteBackend.delete: the vectors go with the memory.
ForgetText(k) ==
    /\ text[k] # None
    /\ text' = [text EXCEPT ![k] = None]
    /\ vec' = [vec EXCEPT ![k] = None]
    /\ UNCHANGED <<failed, pass, cache, sig, edits, outages, now>>

(* A pass of the daemon *)

\* _wanted, first statement: the memories to index.
ReadMemories ==
    /\ pass.at = "idle"
    /\ pass' = [NoPass EXCEPT !.at = "reading",
                              !.wanted = [k \in Names |-> IF text[k] = Blank THEN None ELSE text[k]]]
    /\ UNCHANGED <<text, vec, failed, cache, sig, edits, outages, now>>

\* Mutant: a rejected memory does not wait.
ReadIndexImpatient ==
    /\ pass.at = "reading"
    /\ LET wanted == pass.wanted
           todo == {k \in Names : wanted[k] # None /\ (vec[k] = None \/ vec[k].of # wanted[k])}
       IN  /\ failed' = [k \in Names |-> None]
           /\ pass' = [pass EXCEPT !.at = "embedding",
                                   !.todo = FirstRows(todo),
                                   !.stale = {k \in Indexed : wanted[k] = None}]
    /\ UNCHANGED <<text, vec, cache, sig, edits, outages, now>>

\* _wanted, second statement, and the start of index_once: what is indexed, so
\* what is stale and what is to do; delays of other texts are dropped.
ReadIndex ==
    /\ pass.at = "reading"
    /\ LET wanted == pass.wanted
           kept(k) == wanted[k] # None /\ FailedAs(k, wanted[k])
           todo == {k \in Names : /\ wanted[k] # None
                                  /\ vec[k] = None \/ vec[k].of # wanted[k]
                                  /\ ~(kept(k) /\ Delayed(k))}
       IN  /\ failed' = [k \in Names |-> IF ~kept(k) THEN None
                                         ELSE IF Delayed(k) THEN [failed[k] EXCEPT !.left = @ - 1]
                                         ELSE failed[k]]
           /\ pass' = [pass EXCEPT !.at = "embedding",
                                   !.todo = FirstRows(todo),
                                   !.stale = {k \in Indexed : wanted[k] = None}]
    /\ UNCHANGED <<text, vec, cache, sig, edits, outages, now>>

NextUp == Head(pass.todo)
Wants(k) == pass.wanted[k]

\* The text is embedded.
Embed ==
    /\ pass.at = "embedding" /\ pass.todo # << >>
    /\ Wants(NextUp) \notin Rejects
    /\ pass' = [pass EXCEPT !.todo = Tail(@), !.done = @ \cup {NextUp}, !.row = 0]
    /\ failed' = [failed EXCEPT ![NextUp] = None]
    /\ UNCHANGED <<text, vec, cache, sig, edits, outages, now>>

\* The encoder rejects it: a longer delay; after several in a row the pass ends.
Reject ==
    LET k == NextUp
        delay == IF failed[k] = None THEN 1
                 ELSE IF 2 * failed[k].delay < LongestWait THEN 2 * failed[k].delay ELSE LongestWait
    IN  /\ pass.at = "embedding" /\ pass.todo # << >>
        /\ Wants(k) \in Rejects
        /\ failed' = [failed EXCEPT ![k] = [of |-> Wants(k), left |-> delay, delay |-> delay]]
        /\ pass' = [pass EXCEPT !.row = @ + 1,
                                !.todo = IF pass.row + 1 >= MaxInARow THEN << >> ELSE Tail(@)]
        /\ UNCHANGED <<text, vec, cache, sig, edits, outages, now>>

\* The encoder cannot be reached: nobody is to blame, the pass ends.
Outage ==
    /\ pass.at = "embedding" /\ pass.todo # << >>
    /\ outages < MaxOutages
    /\ outages' = outages + 1
    /\ pass' = [pass EXCEPT !.todo = << >>]
    /\ UNCHANGED <<text, vec, failed, cache, sig, edits, now>>

\* Mutant: what was embedded is written without another look.
WritePassUnchecked ==
    /\ pass.at = "embedding" /\ pass.todo = << >>
    /\ vec' = [k \in Names |-> IF k \in pass.done THEN [of |-> Wants(k), at |-> now + 1]
                               ELSE IF k \in pass.stale THEN None ELSE vec[k]]
    /\ pass' = NoPass
    /\ now' = IF pass.done # {} THEN now + 1 ELSE now
    /\ UNCHANGED <<text, failed, cache, sig, edits, outages>>

\* The transaction at the end, under the write lock: vectors of texts that are
\* still stored, and the removal of the stale ones.
WritePass ==
    /\ pass.at = "embedding" /\ pass.todo = << >>
    /\ vec' = [k \in Names |-> IF k \in pass.done /\ text[k] = Wants(k) THEN [of |-> Wants(k), at |-> now + 1]
                               ELSE IF k \in pass.stale THEN None ELSE vec[k]]
    /\ pass' = NoPass
    /\ now' = IF pass.done # {} THEN now + 1 ELSE now
    /\ UNCHANGED <<text, failed, cache, sig, edits, outages>>

\* The pass raises (a locked database), or the daemon starts again.
PassLost(restart) ==
    /\ pass.at # "idle"
    /\ outages < MaxOutages
    /\ outages' = outages + 1
    /\ pass' = NoPass
    /\ failed' = IF restart THEN [k \in Names |-> None] ELSE failed
    /\ UNCHANGED <<text, vec, cache, sig, edits, now>>

(* A recall, in another process *)

\* _embedding_matrix: the signature first ...
ReadSignature ==
    /\ sig = None
    /\ ~(cache # None /\ cache.sig = Signature)
    /\ sig' = Signature
    /\ UNCHANGED <<text, vec, failed, pass, cache, edits, outages, now>>

\* ... then the vectors, kept under the signature that was read.
LoadVectors ==
    /\ sig # None
    /\ cache' = [sig |-> sig, vecs |-> vec]
    /\ sig' = None
    /\ UNCHANGED <<text, vec, failed, pass, edits, outages, now>>

Daemon == ReadMemories \/ ReadIndex \/ Embed \/ Reject \/ WritePass

Next ==
    \/ \E k \in Names, t \in Contents : SaveText(k, t)
    \/ \E k \in Names : ForgetText(k)
    \/ Daemon \/ Outage
    \/ \E restart \in BOOLEAN : PassLost(restart)
    \/ ReadSignature \/ LoadVectors

\* run_indexer goes on after every pass, also one that raised; the encoder and
\* the database answer or fail.
Spec == Init /\ [][Next]_dvars /\ WF_dvars(Daemon)

-----------------------------------------------------------------------------
(* Properties *)

\* Every variable keeps its type.
TypeOK ==
    /\ text \in [Names -> Contents \cup {None}]
    /\ \A k \in Names :
        /\ vec[k] # None => vec[k].of \in Contents \ {Blank} /\ vec[k].at \in Nat \ {0}
        /\ failed[k] # None => failed[k].left \in 0..LongestWait /\ failed[k].of \in Rejects
    /\ pass.at \in {"idle", "reading", "embedding"}
    /\ Len(pass.todo) <= PassSize /\ pass.row <= MaxInARow

\* A forgotten memory has no vectors, and a batch that was being embedded
\* meanwhile brings none back (embeddings/daemon.py:166-168).
ForgottenHasNoVector == \A k \in Names : text[k] = None => vec[k] = None

\* A recall that finds the signature it knows ranks every indexed memory by the
\* vector that is stored, although signature and vectors are read one after the
\* other (core/stateplane.py:2788-2798).
KnownSignatureKnownVectors ==
    cache # None /\ cache.sig = Signature => \A k \in Indexed : cache.vecs[k] = vec[k]

\* A memory the encoder accepts is indexed in the end, however often the ones
\* before it are rejected.
AcceptedIsIndexed ==
    \A k \in Names :
        text[k] \notin Rejects \cup {None, Blank}
            ~> text[k] \in Rejects \cup {None, Blank} \/ (vec[k] # None /\ vec[k].of = text[k])
=============================================================================
