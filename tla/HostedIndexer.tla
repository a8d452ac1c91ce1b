--------------------------- MODULE HostedIndexer ----------------------------
(***************************************************************************)
(* Keeping the vectors of one hosted tenant current (embeddings/hosted.py, *)
(* the embedding part of storage/postgres.py).  Pass after pass the        *)
(* indexer fetches a bounded number of entries that changed, newest first, *)
(* embeds them one after the other in a thread, and writes each result     *)
(* only if the entry is still the one it read; meanwhile entries are       *)
(* saved, restored to older versions and forgotten.  A text the encoder    *)
(* rejects is retried with a growing delay, counted in passes here.        *)
(***************************************************************************)
EXTENDS Integers, Sequences, FiniteSets

CONSTANTS
    EntryKeys,
    Words,        \* the texts entries have
    Unembeddable, \* those the encoder rejects every time
    PerPass,      \* keys_per_pass
    MaxDelay,     \* FAILURE_BACKOFF_MAX, in passes; the first delay is one pass
    MaxStamp,     \* bound on the saves
    MaxTrouble,   \* bound on the failures that say nothing about the text, and restarts
    Nothing

ConstantsFit ==
    /\ IsFiniteSet(EntryKeys) /\ PerPass \in Nat
    /\ MaxDelay \in Nat \ {0} /\ MaxStamp \in Nat /\ MaxTrouble \in Nat
    /\ Nothing \notin Words
    /\ Nothing \notin [word : Words, stamp : Nat] \cup [word : Words, left : Nat, delay : Nat]
    /\ Nothing \notin [key : EntryKeys, word : Words, stamp : Nat, known : Words \cup {Nothing}]

VARIABLES
    entry,   \* [EntryKeys -> [word, stamp] or Nothing]: bilinc_entries
    past,    \* versions a rollback can still bring back, with their updated_at
    vector,  \* [EntryKeys -> [word, stamp] or Nothing]: memory_embeddings
    stamp,   \* the last updated_at
    backoff, \* _failed: [EntryKeys -> [word, left, delay] or Nothing]
    queue,   \* entries the running pass has still to index
    working, \* a pass is running
    result,  \* the embedding the encoder thread came back with, or Nothing
    trouble  \* transient failures so far

vars == <<entry, past, vector, stamp, backoff, queue, working, result, trouble>>

-----------------------------------------------------------------------------
Stored    == {k \in EntryKeys : entry[k] # Nothing}
Waiting   == {k \in EntryKeys : backoff[k] # Nothing /\ backoff[k].left > 0}
Candidate == {k \in Stored : vector[k] = Nothing \/ vector[k].stamp # entry[k].stamp}

\* ORDER BY updated_at DESC; no two entries have the same one.
Newer(S, k) == {o \in S : entry[o].stamp > entry[k].stamp}

\* The first n of some entries, as LIMIT and a slice take them, and their order.
Newest(S, n)   == {k \in S : Cardinality(Newer(S, k)) < n}
NewestFirst(S) == [i \in 1..Cardinality(S) |-> CHOOSE k \in S : Cardinality(Newer(S, k)) = i - 1]

\* What a pass keeps of an entry, with the text of the vector it has.
Item(k) == [key |-> k, word |-> entry[k].word, stamp |-> entry[k].stamp,
            known |-> IF vector[k] = Nothing THEN Nothing ELSE vector[k].word]

Init ==
    /\ entry = [k \in EntryKeys |-> Nothing]
    /\ past = [k \in EntryKeys |-> {}]
    /\ vector = [k \in EntryKeys |-> Nothing]
    /\ stamp = 0
    /\ backoff = [k \in EntryKeys |-> Nothing]
    /\ queue = << >>
    /\ working = FALSE
    /\ result = Nothing
    /\ trouble = 0

UNCHANGED_index == UNCHANGED <<backoff, queue, working, result, trouble>>

\* save: a new updated_at, whether the text changed or not.
Save(k, w) ==
    /\ stamp < MaxStamp
    /\ stamp' = stamp + 1
    /\ entry' = [entry EXCEPT ![k] = [word |-> w, stamp |-> stamp + 1]]
    /\ past' = [past EXCEPT ![k] = @ \cup {entry'[k]}]
    /\ UNCHANGED vector
    /\ UNCHANGED_index

\* restore: a rollback brings an older version back with the updated_at it had
\* (each version at most once, which bounds the rollbacks).
Restore(k) ==
    /\ \E e \in past[k] \ {entry[k]} :
        /\ entry' = [entry EXCEPT ![k] = e]
        /\ past' = [past EXCEPT ![k] = @ \ {e}]
    /\ UNCHANGED <<vector, stamp>>
    /\ UNCHANGED_index

\* Mutant: the vectors stay for the next prune.
ForgetKeepingVector(k) ==
    /\ entry[k] # Nothing
    /\ entry' = [entry EXCEPT ![k] = Nothing]
    /\ UNCHANGED <<past, vector, stamp>>
    /\ UNCHANGED_index

\* delete: the entry and its vectors, in one transaction.
Forget(k) ==
    /\ entry[k] # Nothing
    /\ entry' = [entry EXCEPT ![k] = Nothing]
    /\ vector' = [vector EXCEPT ![k] = Nothing]
    /\ UNCHANGED <<past, stamp>>
    /\ UNCHANGED_index

\* Mutant: what waits out its delay takes its place in the fetch all the same.
FetchTooFew ==
    LET due == NewestFirst(Newest(Candidate, PerPass) \ Waiting)
    IN  /\ ~working
        /\ working' = TRUE
        /\ queue' = [i \in DOMAIN due |-> Item(due[i])]
        /\ backoff' = [k \in EntryKeys |-> IF k \in Waiting THEN [backoff[k] EXCEPT !.left = @ - 1] ELSE backoff[k]]
        /\ UNCHANGED <<entry, past, vector, stamp, result, trouble>>

\* A pass starts: the newest candidates, as many more as wait out a delay; a
\* delay is dropped when every candidate was seen and its key is not one.
Fetch ==
    LET limit == PerPass + Cardinality(Waiting) + 1
        seen  == Newest(Candidate, limit)
        due   == NewestFirst(Newest(seen \ Waiting, PerPass))
        gone(k) == Cardinality(seen) < limit /\ k \notin Candidate
    IN  /\ ~working
        /\ working' = TRUE
        /\ queue' = [i \in DOMAIN due |-> Item(due[i])]
        /\ backoff' = [k \in EntryKeys |->
                          IF gone(k) THEN Nothing
                          ELSE IF k \in Waiting THEN [backoff[k] EXCEPT !.left = @ - 1] ELSE backoff[k]]
        /\ UNCHANGED <<entry, past, vector, stamp, result, trouble>>

Now == Head(queue)
Current(item) == entry[item.key] # Nothing /\ entry[item.key].stamp = item.stamp

\* touch_embeddings: saved again with the same text; only the mark is renewed,
\* and only if the entry is still the one that was read.
Touch ==
    /\ queue # << >> /\ result = Nothing
    /\ Now.known = Now.word
    /\ vector' = IF Current(Now) /\ vector[Now.key] # Nothing
                 THEN [vector EXCEPT ![Now.key].stamp = Now.stamp] ELSE vector
    /\ queue' = Tail(queue)
    /\ UNCHANGED <<entry, past, stamp, backoff, working, result, trouble>>

\* The encoder thread returns vectors of the text that was read.
Embedded ==
    /\ queue # << >> /\ result = Nothing
    /\ Now.known # Now.word
    /\ Now.word \notin Unembeddable
    /\ result' = Now
    /\ backoff' = [backoff EXCEPT ![Now.key] = Nothing]
    /\ UNCHANGED <<entry, past, vector, stamp, queue, working, trouble>>

\* The next delay of a key: twice its last one if that was for the same text.
BackOff(k, w) ==
    LET before == backoff[k]
        delay  == IF before = Nothing \/ before.word # w THEN 1
                  ELSE IF 2 * before.delay < MaxDelay THEN 2 * before.delay ELSE MaxDelay
    IN  [word |-> w, left |-> delay, delay |-> delay]

Reject(k, w) ==
    /\ backoff' = [backoff EXCEPT ![k] = BackOff(k, w)]
    /\ queue' = Tail(queue)
    /\ UNCHANGED <<entry, past, vector, stamp, working, result>>

\* The encoder rejects the text.
Rejected ==
    /\ queue # << >> /\ result = Nothing
    /\ Now.known # Now.word
    /\ Now.word \in Unembeddable
    /\ Reject(Now.key, Now.word)
    /\ UNCHANGED trouble

\* It fails for a reason that has nothing to do with the text.
EncoderTrouble ==
    /\ queue # << >> /\ result = Nothing
    /\ Now.known # Now.word
    /\ trouble < MaxTrouble
    /\ trouble' = trouble + 1
    /\ Reject(Now.key, Now.word)

\* Mutant: the vectors are written for whatever the entry says now.
WriteBlindly ==
    /\ result # Nothing
    /\ vector' = IF entry[result.key] # Nothing
                 THEN [vector EXCEPT ![result.key] = [word |-> result.word, stamp |-> entry[result.key].stamp]]
                 ELSE vector
    /\ result' = Nothing
    /\ queue' = Tail(queue)
    /\ UNCHANGED <<entry, past, stamp, backoff, working, trouble>>

\* write_embeddings: under a share lock, only if the entry is unchanged.
Write ==
    /\ result # Nothing
    /\ vector' = IF Current(result)
                 THEN [vector EXCEPT ![result.key] = [word |-> result.word, stamp |-> result.stamp]]
                 ELSE vector
    /\ result' = Nothing
    /\ queue' = Tail(queue)
    /\ UNCHANGED <<entry, past, stamp, backoff, working, trouble>>

\* The pass is over; prune_embeddings finds no vector without its entry here.
EndPass ==
    /\ working /\ queue = << >>
    /\ working' = FALSE
    /\ vector' = [k \in EntryKeys |-> IF k \in Stored THEN vector[k] ELSE Nothing]
    /\ UNCHANGED <<entry, past, stamp, backoff, queue, result, trouble>>

\* The database fails in the middle of a pass, or the process starts again
\* (which forgets the delays too).
Interrupted(restart) ==
    /\ trouble < MaxTrouble
    /\ trouble' = trouble + 1
    /\ working' = FALSE /\ queue' = << >> /\ result' = Nothing
    /\ backoff' = IF restart THEN [k \in EntryKeys |-> Nothing] ELSE backoff
    /\ UNCHANGED <<entry, past, vector, stamp>>

Index == Fetch \/ Touch \/ Embedded \/ Rejected \/ Write \/ EndPass

Next ==
    \/ \E k \in EntryKeys, w \in Words : Save(k, w)
    \/ \E k \in EntryKeys : Restore(k) \/ Forget(k)
    \/ Index
    \/ EncoderTrouble
    \/ \E restart \in BOOLEAN : Interrupted(restart)

Spec == Init /\ [][Next]_vars

\* The loop goes on: run() starts a pass at the latest poll_seconds after the
\* last one, and a pass waits for nothing but the encoder and the database.
FairSpec == Spec /\ WF_vars(Index)

-----------------------------------------------------------------------------
(* Properties *)

\* Every variable keeps its type.
TypeOK ==
    /\ \A k \in EntryKeys :
        /\ entry[k] # Nothing => entry[k].word \in Words /\ entry[k].stamp \in 1..MaxStamp
        /\ vector[k] # Nothing => vector[k].word \in Words /\ vector[k].stamp \in 1..MaxStamp
        /\ backoff[k] # Nothing => backoff[k].left \in 0..MaxDelay /\ backoff[k].delay \in 1..MaxDelay
    /\ Len(queue) <= PerPass
    /\ ~working => queue = << >> /\ result = Nothing

\* A vector that counts as current was made from the entry's text, whatever was
\* saved, restored or forgotten while it was being made (postgres.py:1269-1273).
CurrentMeansSameText ==
    \A k \in Stored : vector[k] # Nothing /\ vector[k].stamp = entry[k].stamp => vector[k].word = entry[k].word

\* A forgotten entry has no vectors, not even between two passes, and none come
\* back from an embedding that was under way.
ForgottenHasNoVector == \A k \in EntryKeys : entry[k] = Nothing => vector[k] = Nothing

\* Once writes stop, every entry whose text the encoder accepts gets its
\* vectors, however many entries before it are rejected again and again.
EveryEntryIsIndexed ==
    \A k \in EntryKeys :
        entry[k] # Nothing ~> \/ entry[k] = Nothing
                              \/ entry[k].word \in Unembeddable
                              \/ vector[k] # Nothing /\ vector[k].stamp = entry[k].stamp
=============================================================================
