------------------------------- MODULE Recall -------------------------------
(***************************************************************************)
(* A question to the state plane (core/stateplane.py recall_reflective,    *)
(* recall_intelligent and what they rank with): which memories are its     *)
(* candidates, how several rankings are fused, what a question about the   *)
(* current state or about a past moment edits, when the question is      *)
(* asked again in other words, and which sources are attached.             *)
(*                                                                         *)
(* Words are model values.  What a search (lexical, full-text or vector)   *)
(* finds among the candidates, and in which order, is any ranking: the     *)
(* scores behind it are numbers of other modules.  The fusion of the       *)
(* rankings is as in the code, in millionths.  Reranking by a model, off   *)
(* by default, is left out, and so are the texts that explain a result.    *)
(*                                                                         *)
(* While the call waits for the storage, memories are written and          *)
(* forgotten, and time passes.                                             *)
(***************************************************************************)
EXTENDS Integers, Sequences, FiniteSets

LOCAL FX == INSTANCE FiniteSetsExt
LOCAL SX == INSTANCE SequencesExt

CONSTANTS
    LastKey,     \* keys are 1..LastKey, in their order
    KeyWords,    \* [key -> the words in it]
    Versions,    \* [key -> what it may hold: [words, now, at, from, till, gone, event, imp, source]]
    Questions,   \* [words, topics, current, dir, when, asOf, more]
    Limits, MaxReflections,
    Threshold,   \* adequacy_threshold, in sixtieths
    Found,       \* how many keys a search may find, at most
    SemanticWeights, Boosts, RecencyFusion,
    SparseMax,   \* SPARSE_COMPLETION_MAX_CANDIDATES
    Context,     \* the word a question is widened with
    MaxSlots, MaxTime, MaxEdits,
    None

VARIABLES
    rows,        \* [key -> version or None], the storage
    slots,       \* [key -> version or None], working memory
    now, edits,
    call,        \* the call
    shown        \* ghost: what the question could have been told since it was asked

rcvars == <<rows, slots, now, edits, call, shown>>

Keys == 1..LastKey

Held == {h \in [Keys -> UNION {Versions[k] : k \in Keys} \cup {None}] :
            \A k \in Keys : h[k] \in Versions[k] \cup {None}}

-----------------------------------------------------------------------------
(* Candidates *)

\* _is_recallable_entry; till stands for invalid_at or, without one, for the
\* end of a legacy TTL, and 0 for neither (ttl_expired).
Recallable(v, time) == ~v.gone /\ v.from <= time /\ (v.till = 0 \/ time < v.till)

\* _filter_candidates_as_of does not look at superseded_by.
VisibleAt(v, moment) ==
    /\ v.event <= moment /\ v.from <= moment
    /\ v.till = 0 \/ moment < v.till

\* A question about a moment sees the past, any other the present.
VisibleTo(q, v, time) == IF q.asOf = 0 THEN Recallable(v, time) ELSE VisibleAt(v, q.asOf)

Shown(q, held, time) == {k \in Keys : held[k] # None /\ VisibleTo(q, held[k], time)}


\* _collect_recall_candidates: a stored memory goes before the copy in working
\* memory, but one that is not visible does not hide the copy.
Candidates(q, buffer, stored, time) ==
    [k \in DOMAIN buffer \cup Shown(q, stored, time) |->
        IF k \in Shown(q, stored, time) THEN stored[k] ELSE buffer[k]]

\* _current_state_projection leaves only the new value of "moved from a to b".
Content(q, v) == IF q.asOf = 0 THEN v.now ELSE v.words

Surface(q, C, k) == KeyWords[k] \cup Content(q, C[k])

Singular(q) == q.current /\ Cardinality(q.topics) = 1

Newer(C, k, l) == C[k].at > C[l].at \/ (C[k].at = C[l].at /\ k > l)

Newest(C, S) == CHOOSE k \in S : \A l \in S \ {k} : Newer(C, k, l)

\* Memories on the topic, and those that share a word with one, unless all have it.
OnTopic(q, C) ==
    LET direct == {k \in DOMAIN C : q.topics \subseteq Surface(q, C, k)}
        Bridges(S) == {w \in UNION {Content(q, C[k]) : k \in S} :
                         \E k \in DOMAIN C : w \notin Content(q, C[k])}
        reach[n \in 0..LastKey] ==
            IF n = 0 THEN direct
            ELSE reach[n - 1] \cup {k \in DOMAIN C : Content(q, C[k]) \cap Bridges(reach[n - 1]) # {}}
    IN IF Cardinality(direct) < 2 THEN {} ELSE reach[LastKey]

CollapsedToOldest(q, C) ==
    IF Singular(q) /\ q.asOf = 0 /\ OnTopic(q, C) # {}
    THEN LET all == OnTopic(q, C)
             kept == CHOOSE k \in all : \A l \in all \ {k} : Newer(C, l, k)
         IN [k \in DOMAIN C \ (all \ {kept}) |-> C[k]]
    ELSE C

\* _collapse_current_state_candidates keeps the newest of one topic.
Collapsed(q, C) ==
    IF Singular(q) /\ q.asOf = 0 /\ OnTopic(q, C) # {}
    THEN [k \in DOMAIN C \ (OnTopic(q, C) \ {Newest(C, OnTopic(q, C))}) |-> C[k]]
    ELSE C

-----------------------------------------------------------------------------
(* Rankings and their fusion *)

Rankings(S, n) == UNION {SX!SetToSeqs(T) : T \in {T \in SUBSET S : Cardinality(T) <= n}}

Hits(q, C) == {k \in DOMAIN C : q.words \cap Surface(q, C, k) # {}}

\* Mutant: keys found twice count twice.
SparseCounted(C, limit, primary) ==
    IF Cardinality(DOMAIN C) > SparseMax
       \/ FX!MapThenSumSet(LAMBDA i : Len(primary[i]), DOMAIN primary) >= FX!Min({limit, Cardinality(DOMAIN C)})
    THEN {<<>>}
    ELSE SX!SetToSeqs(DOMAIN C \ UNION {SX!ToSet(primary[i]) : i \in DOMAIN primary})

\* _rank_sparse_completion_keys: what no search found, most important first.
Sparse(C, limit, primary) ==
    LET found == UNION {SX!ToSet(primary[i]) : i \in DOMAIN primary} IN
    IF Cardinality(DOMAIN C) > SparseMax \/ Cardinality(found) >= FX!Min({limit, Cardinality(DOMAIN C)})
    THEN {<<>>}
    ELSE {s \in SX!SetToSeqs(DOMAIN C \ found) :
            \A i, j \in DOMAIN s : i < j =>
                \/ C[s[i]].imp > C[s[j]].imp
                \/ C[s[i]].imp = C[s[j]].imp /\ C[s[i]].at > C[s[j]].at
                \/ C[s[i]].imp = C[s[j]].imp /\ C[s[i]].at = C[s[j]].at /\ s[i] < s[j]}

\* _rank_temporal_keys: memories with an event time among those found, if the
\* question names dates or a direction; the latest first for "after".
Temporal(q, C, found) ==
    LET timed == {k \in found : C[k].event > 0}
        dated == {k \in timed : C[k].event \in q.when}
        some  == dated # {} /\ dated # timed
    IN IF Cardinality(timed) < 2 \/ (q.dir = "none" /\ ~some) THEN <<>>
       ELSE CHOOSE s \in SX!SetToSeqs(IF some THEN dated ELSE timed) :
              \A i, j \in DOMAIN s : i < j =>
                 LET a == C[s[i]].event
                     b == C[s[j]].event
                 IN IF q.dir = "after"
                    THEN a > b \/ (a = b /\ (IF some THEN s[i] < s[j] ELSE s[i] > s[j]))
                    ELSE a < b \/ (a = b /\ s[i] < s[j])

\* A ranking with its weight, in hundredths.
Channel(weight, keys) == [weight |-> weight, keys |-> keys]

\* _apply_rrf_signal for every channel, and the boost of entities in common.
Fused(channels, boost) ==
    LET Part(k, c) == IF \E r \in DOMAIN c.keys : c.keys[r] = k
                      THEN (c.weight * 10000) \div (60 + (CHOOSE r \in DOMAIN c.keys : c.keys[r] = k))
                      ELSE 0
    IN [k \in UNION {SX!ToSet(channels[i].keys) : i \in DOMAIN channels} |->
          FX!MapThenSumSet(LAMBDA i : Part(k, channels[i]), DOMAIN channels)
          + IF k \in DOMAIN boost THEN boost[k] ELSE 0]

\* The orders in which keys of these scores may come.
ByScore(score) ==
    {s \in SX!SetToSeqs(DOMAIN score) : \A i, j \in DOMAIN s : i < j => score[s[i]] >= score[s[j]]}

\* Mutant: the tolerance is absolute.
CloseAbsolute(a, b) == (IF a > b THEN a - b ELSE b - a) <= 50000

Close(a, b) == 20 * (IF a > b THEN a - b ELSE b - a) <= (IF a < 0 THEN -a ELSE a)

\* _fuse_recency: places of the order, the newest event first among those whose
\* scores are close to the first one's of their group.
FusedRecency(q, C, order, score) ==
    LET lead[i \in DOMAIN order] ==
            IF i = 1 THEN 1
            ELSE IF Close(score[order[lead[i - 1]]], score[order[i]]) THEN lead[i - 1] ELSE i
    IN SX!SortSeq([i \in DOMAIN order |-> i], LAMBDA i, j :
            \/ lead[i] < lead[j]
            \/ lead[i] = lead[j] /\ C[order[i]].event > C[order[j]].event
            \/ lead[i] = lead[j] /\ C[order[i]].event = C[order[j]].event /\ i < j)

\* The scores are handed out again in the new order.
Reassigned(order, places, score) ==
    [k \in DOMAIN score |-> score[order[CHOOSE i \in DOMAIN places : order[places[i]] = k]]]

\* _apply_current_state_boost
Boosted(q, C, score, time) ==
    LET stamps == {C[k].at : k \in DOMAIN score}
        span == FX!Max(stamps) - FX!Min(stamps)
    IN IF ~Singular(q) \/ Cardinality(DOMAIN score) < 2 THEN score
       ELSE [k \in DOMAIN score |->
               score[k] + (IF span = 0 THEN 0 ELSE (20000 * (C[k].at - FX!Min(stamps))) \div span)
                        - (IF Recallable(C[k], time) THEN 0 ELSE 40000)]

\* The memories of one family, for "the latest of ..." with several topics.
Family(q, C, score) ==
    LET Matched(words) == q.topics \cap words
        top == CHOOSE k \in DOMAIN score :
                 \A l \in DOMAIN score \ {k} : score[k] > score[l] \/ (score[k] = score[l] /\ k > l)
        anchor == IF Matched(KeyWords[top]) # {} THEN Matched(KeyWords[top])
                  ELSE Matched(Surface(q, C, top))
        cover == FX!Max({Cardinality(anchor), (Cardinality(q.topics) + 1) \div 2})
    IN IF ~q.current \/ Cardinality(q.topics) < 2 \/ DOMAIN score = {} \/ anchor = {} THEN {}
       ELSE {k \in DOMAIN C :
               /\ Matched(KeyWords[k]) # {} /\ Matched(Content(q, C[k])) # {}
               /\ anchor \subseteq Surface(q, C, k)
               /\ Cardinality(Matched(Surface(q, C, k))) >= cover}

\* Mutant: the greatest key counts as the newest.
LatestFirstByKey(q, C, score) ==
    LET family == Family(q, C, score)
        all == [k \in DOMAIN score \cup family |-> IF k \in DOMAIN score THEN score[k] ELSE 0]
        NewerIn(k) == Cardinality({l \in family : l > k})
        ranked == CHOOSE s \in ByScore([k \in family |-> all[k]]) : TRUE
    IN IF Cardinality(family) < 2 THEN score
       ELSE [k \in DOMAIN all |-> IF k \in family THEN all[ranked[NewerIn(k) + 1]] ELSE all[k]]

\* _apply_latest_family_order hands the scores of a family out newest first; a
\* member nothing found takes part with no score.
LatestFirst(q, C, score) ==
    LET family == Family(q, C, score)
        all == [k \in DOMAIN score \cup family |-> IF k \in DOMAIN score THEN score[k] ELSE 0]
        NewerIn(k) == Cardinality({l \in family \ {k} : Newer(C, l, k)})
        ranked == CHOOSE s \in ByScore([k \in family |-> all[k]]) : TRUE
    IN IF Cardinality(family) < 2 THEN score
       ELSE [k \in DOMAIN all |-> IF k \in family THEN all[ranked[NewerIn(k) + 1]] ELSE all[k]]

-----------------------------------------------------------------------------
(* The call *)

\* _evaluate_recall_adequacy: the words of the question found in the results.
Adequacy(q, C, keys) ==
    IF q.words = {} THEN 0
    ELSE (60 * Cardinality(q.words \cap UNION {Surface(q, C, k) : k \in keys}))
         \div Cardinality(q.words)

\* _expand_reflection_query: longer forms of its words, else one word more.
Expanded(q) ==
    LET more == IF q.more = {} THEN {Context} ELSE q.more IN
    [q EXCEPT !.words = @ \cup more, !.topics = @ \cup more]

Init ==
    /\ rows \in Held /\ slots \in Held
    /\ \A k \in Keys : slots[k] # None => rows[k] # None /\ slots[k].at <= rows[k].at
    /\ Cardinality({k \in Keys : slots[k] # None}) <= MaxSlots
    /\ now = 1 /\ edits = 0 /\ shown = {} /\ call = [pc |-> "idle"]

Running == call.pc \notin {"idle", "done"}

\* Everything a question about that moment could be told.
Tellable(q, stored, buffer, time) ==
    {<<k, stored[k]>> : k \in Shown(q, stored, time)}
        \cup {<<k, buffer[k]>> : k \in Shown(q, buffer, time)}

\* Working memory is read at once, before the call waits for the storage.
Visible(q) == [k \in Shown(q, slots, now) |-> slots[k]]

NoAnswer == [q |-> None, C |-> <<>>, base |-> <<>>, places |-> <<>>, plain |-> <<>>,
             keys |-> <<>>, of |-> 0, adequacy |-> -1]

Ask(q, limit) ==
    /\ call.pc = "idle"
    /\ call' = [pc |-> "collect", q |-> q, limit |-> limit, passes |-> 0,
                buffer |-> Visible(q), C |-> <<>>, best |-> NoAnswer, next |-> 1, sources |-> {}]
    /\ shown' = Tellable(q, rows, slots, now)
    /\ UNCHANGED <<rows, slots, now, edits>>

\* list_all
Collect ==
    /\ call.pc = "collect"
    /\ call' = [call EXCEPT !.pc = "rank", !.C = Candidates(call.q, call.buffer, rows, now)]
    /\ UNCHANGED <<rows, slots, now, edits, shown>>

\* A single singular question about the current state is not asked again.
PassesLeft == (IF Singular(call.q) /\ call.passes = 0 THEN 0 ELSE MaxReflections) > call.passes

\* The best attempt so far stays; each is judged by the words it was asked with.
Answered(answer) ==
    LET best == IF answer.adequacy >= call.best.adequacy THEN answer ELSE call.best
        again == best.adequacy < Threshold /\ PassesLeft
        q == IF again THEN Expanded(call.q) ELSE call.q
    IN [call EXCEPT !.best = best, !.q = q, !.C = <<>>,
                    !.passes = IF again THEN @ + 1 ELSE @,
                    !.buffer = IF again THEN Visible(q) ELSE <<>>,
                    !.pc = IF again THEN "collect" ELSE "sources"]

\* From the candidates to an answer, whatever the searches find.
Rank ==
    LET q == call.q
        C == Collapsed(q, call.C)
        Finds == Rankings(DOMAIN C, Found)
    IN
    /\ call.pc = "rank"
    /\ \E lexical \in SX!SetToSeqs(Hits(q, C)), hybrid, semantic \in Finds, w \in SemanticWeights :
       \E surface \in IF lexical = <<>> /\ hybrid = <<>> /\ semantic = <<>> THEN Finds ELSE {lexical} :
       \E sparse \in Sparse(C, call.limit, <<surface, hybrid, semantic>>),
          boost \in {<<>>} \cup UNION {[{k} -> Boosts] : k \in DOMAIN C} :
       LET found == SX!ToSet(surface) \cup SX!ToSet(hybrid)
           score == Fused(<<Channel(25, surface), Channel(55, hybrid), Channel(w, semantic),
                            Channel(1, sparse), Channel(10, Temporal(q, C, found)),
                            Channel(5, SX!SetToSeq(DOMAIN boost))>>, boost)
       IN \E base \in ByScore(score) :
          LET places == IF q.asOf # 0 /\ RecencyFusion THEN FusedRecency(q, C, base, score)
                        ELSE [i \in DOMAIN base |-> i]
              plain == Boosted(q, C, Reassigned(base, places, score), now)
          IN \E order \in ByScore(LatestFirst(q, C, plain)) :
             LET keys == SubSeq(order, 1, FX!Min({call.limit, Len(order)})) IN
             call' = Answered([q |-> q, C |-> call.C, base |-> [i \in DOMAIN base |-> score[base[i]]],
                               places |-> places, plain |-> plain, keys |-> keys,
                               of |-> Cardinality(DOMAIN C), adequacy |-> Adequacy(q, C, SX!ToSet(keys))])
    /\ UNCHANGED <<rows, slots, now, edits, shown>>

\* _load_any prefers working memory.
Loaded(s) == IF slots[s] # None THEN slots[s] ELSE rows[s]

\* _attach_sources: the memory a result names is loaded once, and attached if it
\* is still visible.
Attach ==
    LET answer == call.best
        k == answer.keys[call.next]
        s == answer.C[k].source
        known == s = None \/ s = k \/ \E p \in call.sources : p[1] = s
        v == IF known THEN None ELSE Loaded(s)
    IN
    /\ call.pc = "sources" /\ call.next <= Len(answer.keys)
    /\ call' = [call EXCEPT !.next = @ + 1, !.sources = IF known THEN @ ELSE @ \cup
                   {<<s, IF v # None /\ VisibleTo(call.q, v, now) THEN v ELSE None>>}]
    /\ UNCHANGED <<rows, slots, now, edits, shown>>

Return ==
    /\ call.pc = "sources" /\ call.next > Len(call.best.keys)
    /\ call' = [call EXCEPT !.pc = "done"]
    /\ UNCHANGED <<rows, slots, now, edits, shown>>

-----------------------------------------------------------------------------
(* Meanwhile *)

\* The ghost follows the store while the call runs.
Change ==
    /\ Running /\ edits < MaxEdits /\ edits' = edits + 1
    /\ shown' = shown \cup Tellable(call.q, rows', slots', now')
    /\ UNCHANGED call

\* A long-term commit leaves a slot as it is, a commit to working memory fills it.
Write(k, v) ==
    /\ rows' = [rows EXCEPT ![k] = v]
    /\ slots' = slots \/ slots' = [slots EXCEPT ![k] = v]
    /\ UNCHANGED now /\ Change

Forget(k) ==
    /\ rows' = [rows EXCEPT ![k] = None] /\ slots' = [slots EXCEPT ![k] = None]
    /\ UNCHANGED now /\ Change

Tick ==
    /\ now < MaxTime /\ now' = now + 1
    /\ UNCHANGED <<rows, slots>> /\ Change

Next ==
    \/ \E q \in Questions, limit \in Limits : Ask(q, limit)
    \/ Collect \/ Rank \/ Attach \/ Return
    \/ \E k \in Keys : Forget(k) \/ \E v \in Versions[k] : Write(k, v)
    \/ Tick

Spec == Init /\ [][Next]_rcvars

-----------------------------------------------------------------------------
(* Properties *)

TypeOK ==
    /\ rows \in Held /\ slots \in Held
    /\ now \in 1..MaxTime /\ edits \in 0..MaxEdits
    /\ call.pc \in {"idle", "collect", "rank", "sources", "done"}
    /\ call.pc # "idle" => call.passes <= MaxReflections /\ SX!ToSet(call.best.keys) \subseteq Keys

\* Everything in an answer was stored, or in working memory, and visible to the
\* question at a moment since it was asked, the sources as well: nothing forgotten
\* earlier, nothing that had ended or not begun, and nothing from after the moment
\* the question is about; and if nothing changes meanwhile, a memory that is
\* visible in the storage is told as it is there (stateplane.py:2047-2104,
\* 1662-1693).
AnswersAreVisible ==
    call.pc = "done" =>
        /\ \A i \in DOMAIN call.best.keys :
              LET k == call.best.keys[i] IN
              /\ <<k, call.best.C[k]>> \in shown
              /\ edits = 0 /\ k \in Shown(call.q, rows, now) => call.best.C[k] = rows[k]
        /\ \A p \in call.sources : p[2] # None => p \in shown

\* A small store is told in full: there are as many results as the limit or the
\* candidates allow, whatever the searches found, and no memory comes twice
\* (stateplane.py:2530-2563).
SmallStoreIsToldInFull ==
    LET answer == IF call.pc = "idle" THEN NoAnswer ELSE call.best IN
    /\ answer.of \in 1..SparseMax => Len(answer.keys) = FX!Min({call.limit, answer.of})
    /\ \A i, j \in DOMAIN answer.keys : i # j => answer.keys[i] # answer.keys[j]

\* Asked for the current state of one topic, the call tells nothing of it that is
\* older than another memory it could have told (stateplane.py:2295-2377).
CurrentIsNewest ==
    LET answer == IF call.pc = "idle" THEN NoAnswer ELSE call.best
        On(k) == answer.q.topics \subseteq Surface(answer.q, answer.C, k)
    IN answer.q # None /\ answer.q.asOf = 0 /\ Singular(answer.q) =>
        \A i \in DOMAIN answer.keys : On(answer.keys[i]) =>
            \A k \in DOMAIN answer.C : On(k) => ~Newer(answer.C, k, answer.keys[i])

\* Asked for the latest of a family, the call tells its members newest first, and
\* every other memory has as many better ones as before (stateplane.py:2954-3015).
LatestComesFirst ==
    LET answer == IF call.pc = "idle" THEN NoAnswer ELSE call.best
        C == Collapsed(answer.q, answer.C)
        score == LatestFirst(answer.q, C, answer.plain)
        family == Family(answer.q, C, answer.plain)
    IN answer.q # None /\ Cardinality(family) >= 2 =>
        /\ \A i, j \in DOMAIN answer.keys :
              {answer.keys[i], answer.keys[j]} \subseteq family /\ i < j
              => Newer(C, answer.keys[i], answer.keys[j])
        /\ \A k \in DOMAIN answer.plain \ family :
              Cardinality({l \in DOMAIN score : score[l] > score[k]})
                = Cardinality({l \in DOMAIN answer.plain : answer.plain[l] > answer.plain[k]})

\* Recency only breaks ties: a memory goes before a better match only if they are
\* within a twentieth of the best score there is (stateplane.py:1600-1654).
RecencyBreaksTies ==
    LET answer == IF call.pc = "idle" THEN NoAnswer ELSE call.best IN
    \A i, j \in DOMAIN answer.places :
        i < j /\ answer.places[i] > answer.places[j] =>
            20 * (answer.base[answer.places[j]] - answer.base[answer.places[i]]) <= answer.base[1]

\* A result or a source is what the storage had, not an older copy of it.
NoOldCopies ==
    call.pc = "done" /\ edits = 0 =>
        /\ \A i \in DOMAIN call.best.keys :
              call.best.C[call.best.keys[i]] = rows[call.best.keys[i]]
        /\ \A p \in call.sources : p[2] # None => p[2] = rows[p[1]]
=============================================================================
