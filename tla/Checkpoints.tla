----------------------------- MODULE Checkpoints -----------------------------
(***************************************************************************)
(* Checkpoints of LangGraph threads as memories of a state plane           *)
(* (integrations/langgraph.py): put commits one under a key made of the    *)
(* thread, its namespace and the id; get_tuple loads it by its key, or,    *)
(* without an id or when there is none, lists every memory and takes the   *)
(* newest one whose key begins as the thread's do.  Workers share the      *)
(* store; every checkpoint has an id of its own (LangGraph), and a put     *)
(* that raised may be made again.                                          *)
(*                                                                         *)
(* A checkpoint is compressed on the way in by default, which drops its    *)
(* id: what is read back has the id of the memory, which is in no key.     *)
(* Stamps of two saves differ.                                             *)
(***************************************************************************)
EXTENDS Integers, FiniteSets

CONSTANTS
    Workers, Threads, Spaces,
    Covers,         \* <<t, u>>: keys of u begin with "langgraph:" and the name of t
    CoversPending,  \* threads whose keys begin as those of pending writes do
    Compressed,     \* compress_checkpoints
    MaxPuts, MaxTime,
    MaxWrites,      \* bound on the pending writes
    Nothing

Ids == 1..MaxPuts

ConstantsFit ==
    /\ MaxPuts \in Nat /\ MaxTime \in Nat /\ MaxWrites \in Nat
    /\ \A t \in Threads : <<t, t>> \in Covers
    /\ Nothing \notin Threads \X Spaces
    /\ Nothing \notin [thread : Threads, space : Spaces, id : Ids, stamp : 1..MaxTime]

VARIABLES
    stored,     \* [thread, space, id, stamp] of the checkpoints stored
    pending,    \* [thread, stamp] of pending writes
    owner,      \* [ids -> <<thread, space>> it was made for], or Nothing
    doing,      \* [Workers -> the call it is in]
    answer,     \* what get_tuple or list has just handed out, or Nothing: [row, config, floor]
    time,
    \* For the properties only:
    acked,      \* [Threads -> the newest stamp of a put that returned]
    floor       \* [Workers -> what was acked when its get_tuple began]

kvars == <<stored, pending, owner, doing, answer, time, acked, floor>>

Idle == [op |-> "idle", thread |-> Nothing, space |-> Nothing, id |-> 0, stamp |-> 0]
Call(op, t, s, i) == [op |-> op, thread |-> t, space |-> s, id |-> i, stamp |-> 0]
Silent == answer' = Nothing

Is(w, op) == doing[w].op = op
Does(w, call) == doing' = [doing EXCEPT ![w] = call]

Checkpoint(t, s, i, stamp) == [thread |-> t, space |-> s, id |-> i, stamp |-> stamp]

Init ==
    /\ stored = {} /\ pending = {} /\ time = 0
    /\ owner = [i \in Ids |-> Nothing] /\ doing = [w \in Workers |-> Idle]
    /\ answer = Nothing
    /\ acked = [t \in Threads |-> 0] /\ floor = [w \in Workers |-> 0]

-----------------------------------------------------------------------------
(* put, put_writes *)

\* The next checkpoint of a thread, or one whose put has ended once more.
Put(w, t, s, i) ==
    /\ Is(w, "idle") /\ time < MaxTime
    /\ \A j \in 1..(i - 1) : owner[j] # Nothing
    /\ owner[i] \in {Nothing, <<t, s>>} /\ \A v \in Workers : ~(Is(v, "put") /\ doing[v].id = i)
    /\ owner' = [owner EXCEPT ![i] = <<t, s>>]
    /\ Does(w, Call("put", t, s, i))
    /\ Silent /\ UNCHANGED <<stored, pending, time, acked, floor>>

\* The save stamps what it stores before it has the database.
Stamp(w) ==
    /\ Is(w, "put") /\ doing[w].stamp = 0 /\ time < MaxTime
    /\ time' = time + 1
    /\ doing' = [doing EXCEPT ![w].stamp = time + 1]
    /\ Silent /\ UNCHANGED <<stored, pending, owner, acked, floor>>

Stored(c) ==
    {o \in stored : <<o.thread, o.space, o.id>> # <<c.thread, c.space, c.id>>}
        \cup {Checkpoint(c.thread, c.space, c.id, c.stamp)}

Store(w) ==
    /\ Is(w, "put") /\ doing[w].stamp > 0
    /\ stored' = Stored(doing[w])
    /\ LET t == doing[w].thread IN
       acked' = [acked EXCEPT ![t] = IF doing[w].stamp > @ THEN doing[w].stamp ELSE @]
    /\ Does(w, Idle)
    /\ Silent /\ UNCHANGED <<pending, owner, time, floor>>

\* The commit raises, before it saved or after.
PutRaises(w) ==
    /\ Is(w, "put") /\ Does(w, Idle)
    /\ \/ UNCHANGED stored
       \/ doing[w].stamp > 0 /\ stored' = Stored(doing[w])
    /\ Silent /\ UNCHANGED <<pending, owner, time, acked, floor>>

\* One memory holds the writes of a task.
PutWrites(w, t) ==
    /\ Is(w, "idle") /\ Cardinality(pending) < MaxWrites
    /\ time < MaxTime /\ time' = time + 1
    /\ pending' = {p \in pending : p.thread # t} \cup {[thread |-> t, stamp |-> time + 1]}
    /\ Silent /\ UNCHANGED <<stored, owner, doing, acked, floor>>

-----------------------------------------------------------------------------
(* get_tuple, list *)

\* With an id, or without one, 0.
Get(w, t, s, i) ==
    /\ Is(w, "idle") /\ (i > 0 => owner[i] # Nothing)
    /\ Does(w, Call(IF i = 0 THEN "list" ELSE "load", t, s, i))
    /\ floor' = [floor EXCEPT ![w] = acked[t]]
    /\ Silent /\ UNCHANGED <<stored, pending, owner, time, acked>>

\* The thread and namespace that were asked for, and the id that was read.
Config(t, s, row) ==
    IF row = Nothing THEN Nothing ELSE <<t, s, IF Compressed THEN 0 ELSE row.id>>

Answers(w, row, least) ==
    /\ answer' = [row |-> row, config |-> Config(doing[w].thread, doing[w].space, row), floor |-> least]
    /\ Does(w, Idle) /\ floor' = [floor EXCEPT ![w] = 0]
    /\ UNCHANGED <<stored, pending, owner, time, acked>>

\* The memory of that key; if there is none the newest will do.
Load(w) ==
    /\ Is(w, "load")
    /\ LET found == {c \in stored : <<c.thread, c.space, c.id>> =
                                    <<doing[w].thread, doing[w].space, doing[w].id>>} IN
       \/ \E c \in found : Answers(w, c, 0)
       \/ /\ found = {} /\ doing' = [doing EXCEPT ![w].op = "list"]
          /\ Silent /\ UNCHANGED <<stored, pending, owner, time, acked, floor>>

Candidates(t) == {c \in stored : <<t, c.thread>> \in Covers}

\* Mutant: pending writes are taken for checkpoints.
CandidatesAndPending(t) ==
    Candidates(t) \cup IF t \in CoversPending
                       THEN {Checkpoint(Nothing, Nothing, 0, p.stamp) : p \in pending} ELSE {}

\* Pending writes are left out.
Listed(t) == Candidates(t)

\* Mutant: the one that was made last, the first of the list.
NewestMade(rows) == {c \in rows : \A o \in rows : o.id <= c.id}

\* The one that was saved last.
Newest(rows) == {c \in rows : \A o \in rows : o.stamp <= c.stamp}

List(w) ==
    /\ Is(w, "list")
    /\ LET t == doing[w].thread IN
       \/ \E c \in Newest(Listed(t)) : Answers(w, c, floor[w])
       \/ Listed(t) = {} /\ Answers(w, Nothing, floor[w])

\* list reads the memories once; one of the checkpoints it hands out.
History(w, t, s) ==
    /\ Is(w, "idle")
    /\ \E c \in Listed(t) :
          answer' = [row |-> c, config |-> Config(t, s, c), floor |-> 0]
    /\ UNCHANGED <<stored, pending, owner, doing, time, acked, floor>>

Next ==
    \E w \in Workers :
        \/ \E t \in Threads :
              \/ PutWrites(w, t)
              \/ \E s \in Spaces :
                    \/ History(w, t, s)
                    \/ \E i \in Ids : Put(w, t, s, i)
                    \/ \E i \in {0} \cup Ids : Get(w, t, s, i)
        \/ Stamp(w) \/ Store(w) \/ PutRaises(w) \/ Load(w) \/ List(w)

Spec == Init /\ [][Next]_kvars

-----------------------------------------------------------------------------
(* Properties *)

TypeOK ==
    /\ \A c \in stored : owner[c.id] = <<c.thread, c.space>> /\ c.stamp \in 1..time
    /\ \A w \in Workers : doing[w].op \in {"idle", "put", "load", "list"}
    /\ \A t \in Threads : acked[t] \in 0..time

\* A thread that is resumed goes on from a checkpoint no older than the last one
\* it was told is saved, and never from pending writes (langgraph.py:57-81).
ResumesFromLast ==
    answer # Nothing =>
        IF answer.row = Nothing THEN answer.floor = 0
        ELSE answer.row.id \in Ids /\ answer.row.stamp >= answer.floor

\* A checkpoint can be asked for again by the config it was handed out with
\* (langgraph.py:218-224).
ConfigLeadsBack ==
    answer # Nothing /\ answer.row # Nothing =>
        answer.config = <<answer.row.thread, answer.row.space, answer.row.id>>

\* A thread is only resumed from a checkpoint of its own (langgraph.py:70-74).
ResumesItself ==
    answer # Nothing /\ answer.row # Nothing => answer.row.thread = answer.config[1]
=============================================================================
