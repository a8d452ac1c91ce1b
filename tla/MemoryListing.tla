--------------------------- MODULE MemoryListing ----------------------------
(***************************************************************************)
(* Walking all memories of a project page by page: the client's walk       *)
(* (client.py iter_memories, list_memories, get_memory, the read retries), *)
(* the page it asks for (cloud/runtime.py list_memories) and the query     *)
(* behind it (list_page of both storages).  A cursor is the position of    *)
(* the last entry of a page; between two pages memories are written,       *)
(* deleted and restored, responses are lost, a page can be too large, and  *)
(* an answer can come from a service that does not know orders or filters. *)
(***************************************************************************)
EXTENDS Integers, Sequences, FiniteSets

SX == INSTANCE SequencesExt

CONSTANTS
    LastKey,   \* keys are 1..LastKey, in their order
    Sources,   \* effective sources of memories
    Sizes,     \* the page sizes of a walk, largest first; the last is 1
    MaxBytes,  \* MAX_LIST_RESPONSE_BYTES, where a memory has one or, if its
    Large,     \* key is in Large, more than these
    Attempts,  \* READ_RETRY_ATTEMPTS
    MaxChanges,\* bound on writes after the walk began
    Nil

MemKeys == 1..LastKey

ConstantsFit ==
    /\ LastKey \in Nat /\ Attempts \in Nat \ {0} /\ MaxChanges \in Nat
    /\ Sizes \in Seq(Nat \ {0}) /\ Sizes # << >> /\ Sizes[Len(Sizes)] = 1
    /\ Nil \notin MemKeys
    /\ Nil \notin [stamp : Nat, source : Sources] /\ Nil \notin [stamp : Nat, key : MemKeys]

VARIABLES
    memory,   \* [key -> [stamp, source] or Nil]
    time,     \* the latest updated_at
    walk,     \* the client's walk
    got,      \* the entries it yielded, in order
    steady,   \* [key -> the memory as it was when the walk began, if unchanged since]
    changes

lvars == <<memory, time, walk, got, steady, changes>>

-----------------------------------------------------------------------------
Orders  == {"key", "newest", "oldest"}

\* The position of an entry under an order; COALESCE(updated_at, 0), key.
At(k, m) == [stamp |-> m.stamp, key |-> k]

\* ORDER BY.
Before(order, a, b) ==
    CASE order = "key"    -> a.key < b.key
      [] order = "newest" -> a.stamp > b.stamp \/ (a.stamp = b.stamp /\ a.key < b.key)
      [] order = "oldest" -> a.stamp < b.stamp \/ (a.stamp = b.stamp /\ a.key < b.key)

\* Mutant: entries of one instant are not told apart.
AfterByStamp(order, cursor, a) ==
    CASE order = "key"    -> a.key > cursor.key
      [] order = "newest" -> a.stamp < cursor.stamp
      [] order = "oldest" -> a.stamp > cursor.stamp

\* The comparison with the cursor.
After(order, cursor, a) ==
    CASE order = "key"    -> a.key > cursor.key
      [] order = "newest" -> a.stamp < cursor.stamp \/ (a.stamp = cursor.stamp /\ a.key > cursor.key)
      [] order = "oldest" -> a.stamp > cursor.stamp \/ (a.stamp = cursor.stamp /\ a.key > cursor.key)

\* list_page: what matches the filter after the cursor, in order, at most n.
ListPage(order, filter, cursor, n) ==
    LET found    == {At(k, memory[k]) : k \in {k \in MemKeys : memory[k] # Nil /\ memory[k].source \in filter}}
        left     == {a \in found : cursor # Nil => After(order, cursor, a)}
        place(a) == Cardinality({b \in left : Before(order, b, a)})
    IN  [i \in 1..(IF n < Cardinality(left) THEN n ELSE Cardinality(left)) |->
            CHOOSE a \in left : place(a) = i - 1]

\* The bytes of a page with whole values.
Bytes(page) == SX!FoldLeft(LAMBDA sum, e : sum + (IF e.key \in Large THEN MaxBytes + 1 ELSE 1), 0, page)

Fresh(order, filter, wanted) ==
    [at |-> "walking", order |-> order, filter |-> filter, wanted |-> wanted,
     cursor |-> Nil, seen |-> {}, size |-> 1, attempt |-> 1]

Init ==
    /\ time = 0
    /\ memory = [k \in MemKeys |-> Nil]
    /\ walk = [Fresh("key", {}, Nil) EXCEPT !.at = "none"]
    /\ got = << >>
    /\ steady = [k \in MemKeys |-> Nil]
    /\ changes = 0

-----------------------------------------------------------------------------
(* Other callers *)

Change(k, m) ==
    /\ memory' = [memory EXCEPT ![k] = m]
    /\ changes' = IF walk.at = "none" THEN changes ELSE changes + 1
    /\ steady' = [steady EXCEPT ![k] = Nil]
    /\ UNCHANGED <<walk, got>>

Calm == walk.at = "none" => time < LastKey

\* A write, at the latest time seen or later.
Put(k, source) ==
    /\ Calm /\ changes < MaxChanges
    /\ walk.at = "none" => memory[k] = Nil
    /\ \E t \in {time, time + 1} \ {0} :
          /\ time' = t
          /\ Change(k, [stamp |-> t, source |-> source])

\* forget, or a rollback that deletes.
Drop(k) ==
    /\ walk.at = "walking" /\ changes < MaxChanges
    /\ memory[k] # Nil
    /\ Change(k, Nil)
    /\ UNCHANGED time

\* A rollback restores a version with the updated_at it had.
PutBack(k) ==
    /\ walk.at = "walking" /\ changes < MaxChanges
    /\ memory[k] # Nil
    /\ \E t \in 1..memory[k].stamp - 1 : Change(k, [memory[k] EXCEPT !.stamp = t])
    /\ UNCHANGED time

(* The walk *)

\* iter_memories is called; get_memory looks for one key among those that start
\* with it, ten at a time.
Start(order, filter, wanted) ==
    /\ walk.at = "none"
    /\ wanted # Nil => order = "key" /\ filter = Sources
    /\ walk' = Fresh(order, filter, wanted)
    /\ steady' = memory
    /\ UNCHANGED <<memory, time, got, changes>>

\* One entry more than asked for was fetched: is it there?
HasMore(page, bound) == Len(page) > bound

\* One entry is always returned whole.
TooLarge(entries) == Len(entries) > 1 /\ Bytes(entries) > MaxBytes

\* Mutant: after a page that does not fit the next one is asked for.
AskSmallerAndSkip(entries) ==
    /\ TooLarge(entries)
    /\ walk' = [walk EXCEPT !.size = @ + 1, !.cursor = entries[1], !.attempt = 1]
    /\ UNCHANGED got

\* response_too_large: the same page in a smaller size, or the error.
AskSmaller(entries) ==
    /\ TooLarge(entries)
    /\ walk' = IF walk.size = Len(Sizes) THEN [walk EXCEPT !.at = "size error"]
               ELSE [walk EXCEPT !.size = @ + 1, !.attempt = 1]
    /\ UNCHANGED got

\* What a caller who looks for one key takes from a page.
Yielded(entries) ==
    LET with == {i \in DOMAIN entries : entries[i].key = walk.wanted}
    IN  IF walk.wanted = Nil THEN entries
        ELSE IF with = {} THEN << >> ELSE <<entries[CHOOSE i \in with : TRUE]>>

\* A page that fits: its entries, and the next cursor, which has to be new.
TakePage(page, entries) ==
    /\ ~TooLarge(entries)
    /\ got' = got \o Yielded(entries)
    /\ LET next == IF HasMore(page, Sizes[walk.size]) THEN entries[Len(entries)] ELSE Nil
       IN  walk' = IF next = Nil \/ (walk.wanted # Nil /\ Yielded(entries) # << >>)
                       THEN [walk EXCEPT !.at = "done"]
                   ELSE IF next \in walk.seen THEN [walk EXCEPT !.at = "repeated cursor"]
                   ELSE [walk EXCEPT !.cursor = next, !.seen = @ \cup {next},
                                     !.size = IF @ > 1 THEN @ - 1 ELSE 1, !.attempt = 1]

\* The service answers.
Answer ==
    /\ walk.at = "walking"
    /\ LET bound == Sizes[walk.size]
           page == ListPage(walk.order, walk.filter, walk.cursor, bound + 1)
           entries == SubSeq(page, 1, IF bound < Len(page) THEN bound ELSE Len(page))
       IN  AskSmaller(entries) \/ TakePage(page, entries)
    /\ UNCHANGED <<memory, time, steady, changes>>

\* An old service ignores order and sources and says nothing of them.
OldServiceAnswers ==
    /\ walk.at = "walking"
    /\ walk.order # "key" \/ walk.filter # Sources
    /\ walk' = [walk EXCEPT !.at = "unavailable"]
    /\ UNCHANGED <<memory, time, got, steady, changes>>

\* The response is lost or the service is in trouble: the read is repeated.
NoAnswer ==
    /\ walk.at = "walking"
    /\ walk' = IF walk.attempt = Attempts THEN [walk EXCEPT !.at = "gave up"]
               ELSE [walk EXCEPT !.attempt = @ + 1]
    /\ UNCHANGED <<memory, time, got, steady, changes>>

Next ==
    \/ \E k \in MemKeys, s \in Sources : Put(k, s)
    \/ \E k \in MemKeys : Drop(k) \/ PutBack(k)
    \/ \E order \in Orders, filter \in (SUBSET Sources) \ {{}}, wanted \in MemKeys \cup {Nil} :
          Start(order, filter, wanted)
    \/ Answer \/ OldServiceAnswers \/ NoAnswer

Spec == Init /\ [][Next]_lvars

-----------------------------------------------------------------------------
(* Properties *)

\* Every variable keeps its type, and the cursor is one the walk was given.
TypeOK ==
    /\ \A k \in MemKeys : memory[k] # Nil => memory[k].stamp \in 1..time /\ memory[k].source \in Sources
    /\ walk.at \in {"none", "walking", "done", "unavailable", "gave up", "size error", "repeated cursor"}
    /\ walk.size \in 1..Len(Sizes) /\ walk.attempt \in 1..Attempts
    /\ walk.cursor # Nil => walk.cursor \in walk.seen
    /\ changes \in 0..MaxChanges

Times(k) == Cardinality({i \in 1..Len(got) : got[i].key = k})

\* A walk that ends has yielded every memory that matched and did not change
\* while it ran exactly once, in every order, whatever changed around it
\* (cloud/runtime.py:996-1000).
UnchangedExactlyOnce ==
    walk.at = "done" =>
        \A k \in MemKeys :
            steady[k] # Nil /\ (walk.wanted = Nil \/ walk.wanted = k)
                => Times(k) = IF steady[k].source \in walk.filter THEN 1 ELSE 0

\* In key order no memory is yielded twice, not even one that changed.
KeyOrderNeverTwice == walk.order = "key" => \A k \in MemKeys : Times(k) <= 1

\* A walk never fails on size (client.py:807-808), and an honest service never
\* makes it see a cursor twice.
OnlyTroubleStopsAWalk == walk.at \notin {"size error", "repeated cursor"}
=============================================================================
