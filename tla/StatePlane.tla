----------------------------- MODULE StatePlane -----------------------------
(***************************************************************************)
(* One process's StatePlane (core/stateplane.py): the persisted memories,  *)
(* the working-memory buffer in front of them (core/working_memory.py) and *)
(* the audit rows that rollback replays (core/audit.py).                   *)
(*                                                                         *)
(* With SQLite no method of the backend suspends, so calls do not          *)
(* interleave inside a process; but a call is several transactions, and an *)
(* exception or a crash can come between any two of them.  A call is       *)
(* therefore a plan: the durable and in-memory effects it will have, in    *)
(* program order, executed one at a time.                                  *)
(*                                                                         *)
(* Priority, heat and access counts are abstracted: which slot is evicted, *)
(* gated or warmed up is a choice.  CREATE, UPDATE and CONSOLIDATE rows,   *)
(* which the replay treats alike, are "set"; DELETE and FORGET "unset".    *)
(* Decay passes, which delete rows and log nothing, are in SharedBeliefs.  *)
(***************************************************************************)
EXTENDS Integers, Sequences, FiniteSets

CONSTANTS
    UserKeys,    \* keys callers write
    SummaryKey,  \* the key of the session summary consolidation may write
    System,      \* the key of ROLLBACK rows
    Values,      \* what callers write
    Digest,      \* the value of a session summary
    Slots,       \* WorkingMemory.max_slots
    AutoAt,      \* slots in use from which a commit may consolidate on its own
    MinEpisodes, \* episodic memories that are worth a summary
    MaxRows,     \* bound on the audit log
    MaxFaults,   \* bound on the calls that are cut short
    CommitKinds, \* the kinds of long-term memory callers commit
    Absent,      \* no entry
    NoValue      \* an audit row without an after_value

ConstantsFit ==
    /\ IsFiniteSet(UserKeys) /\ SummaryKey \notin UserKeys /\ System \notin UserKeys \cup {SummaryKey}
    /\ Slots \in Nat /\ MaxRows \in Nat /\ MaxFaults \in Nat
    /\ CommitKinds \subseteq {"episodic", "semantic"}
    /\ Absent # NoValue
    /\ {Absent, NoValue} \cap [val : Values \cup {Digest}, kind : {"working", "episodic", "semantic"}] = {}

AllKeys  == UserKeys \cup {SummaryKey}
Entry    == [val : Values \cup {Digest}, kind : {"working", "episodic", "semantic"}]
LongTerm == {"episodic", "semantic"}

VARIABLES
    store,       \* [AllKeys -> Entry or Absent]: the memories table
    slots,       \* [AllKeys -> Entry or Absent]: WorkingMemory._slots
    audit,       \* the audit rows, oldest first
    plan,        \* what the running call has still to do
    call,        \* [op, key] of the running call; "none" or "refused" once it ended
    faults,      \* calls cut short so far
    \* For the properties only:
    torn,        \* keys whose last change was cut short before its audit row
    checkpoint   \* a moment somebody noted: the length of the audit log, the
                 \* memories stored then, and the keys torn then

vars == <<store, slots, audit, plan, call, faults, torn, checkpoint>>

-----------------------------------------------------------------------------
(* The effects a call is made of *)

Save(k, e)       == [do |-> "save", key |-> k, entry |-> e]
Delete(k)        == [do |-> "delete", key |-> k, entry |-> Absent]
Log(op, k, e)    == [do |-> op, key |-> k, entry |-> e]
Drop(k)          == [do |-> "drop", key |-> k, entry |-> Absent]
Refuse(k)        == [do |-> "refuse", key |-> k, entry |-> Absent]

Logs == {"set", "unset", "rollback"}

Held(f) == {k \in DOMAIN f : f[k] # Absent}

As(e, kind) == [e EXCEPT !.kind = kind]

\* The code goes through keys in orders of its own, left open here.
Orders(set) ==
    {order \in [1..Cardinality(set) -> set] :
        /\ \A i, j \in DOMAIN order : order[i] = order[j] => i = j
        /\ \A k \in set : \E i \in DOMAIN order : order[i] = k}

\* Two, or three, effects of each key of order.
Pairs(order, first, second) ==
    [i \in 1..2 * Len(order) |->
        LET k == order[(i + 1) \div 2] IN IF i % 2 = 1 THEN first[k] ELSE second[k]]

Triples(order, first, second, third) ==
    [i \in 1..3 * Len(order) |->
        LET k == order[(i + 2) \div 3]
        IN  IF i % 3 = 1 THEN first[k] ELSE IF i % 3 = 2 THEN second[k] ELSE third[k]]

\* get_state_at over the first n rows.
Replay(n) ==
    [k \in AllKeys |->
        LET hits == {i \in 1..n : audit[i].key = k /\ audit[i].op # "rollback"}
        IN  IF hits = {} THEN Absent
            ELSE audit[CHOOSE i \in hits : \A j \in hits : j <= i].entry]

-----------------------------------------------------------------------------
Ended(how) == [op |-> how, key |-> System]

Init ==
    /\ store = [k \in AllKeys |-> Absent]
    /\ slots = [k \in AllKeys |-> Absent]
    /\ audit = << >>
    /\ plan = << >>
    /\ call = Ended("none")
    /\ faults = 0
    /\ torn = {}
    /\ checkpoint = [rows |-> 0, store |-> [k \in AllKeys |-> Absent], torn |-> {}]

Idle == plan = << >>

\* A call starts when its audit rows still fit under the bound MaxRows.
Begin(op, k, steps) ==
    /\ Len(audit) + Cardinality({i \in DOMAIN steps : steps[i].do \in Logs}) <= MaxRows
    /\ plan' = steps
    /\ call' = [op |-> op, key |-> k]
    /\ UNCHANGED <<store, audit, faults, torn, checkpoint>>

\* summarize_episodic_sessions: one summary for the session, once.
SummarySteps(s) ==
    LET outline  == [val |-> Digest, kind |-> "semantic"]
        episodes == {k \in Held(s) : s[k].kind = "episodic"}
    IN  IF s[SummaryKey] = Absent /\ Cardinality(episodes) >= MinEpisodes
        THEN << Save(SummaryKey, outline), Log("set", SummaryKey, outline) >>
        ELSE << >>

\* Mutant: every gated slot is written, whatever the row it copies.
PromotableUnchecked(s, ready) == ready

\* Of the gated slots, those whose row is not long-term already.
Promotable(s, ready) == {k \in ready : ~(s[k] # Absent /\ s[k].kind \in LongTerm)}

\* What the gate lets through.
Gated(w) == SUBSET Held(w)

\* consolidate over the memories s and the buffer w: the gated slots leave the
\* buffer, some are promoted, and the session may get its summary.
ConsolidatePlans(s, w, ready) ==
    LET entry == [k \in ready |-> As(w[k], "episodic")]
        save  == [k \in ready |-> Save(k, entry[k])]
        log   == [k \in ready |-> Log("set", k, entry[k])]
        after == [k \in AllKeys |-> IF k \in Promotable(s, ready) THEN entry[k] ELSE s[k]]
    IN  {[i \in DOMAIN drops |-> Drop(drops[i])] \o Pairs(promoted, save, log) \o SummarySteps(after) :
            drops \in Orders(ready), promoted \in Orders(Promotable(s, ready))}

\* Mutant: room is made one entry too late.
FullOffByOne(k) == slots[k] = Absent /\ Cardinality(Held(slots)) > Slots

\* WorkingMemory.put has to evict before it can take a new key.
Full(k) == slots[k] = Absent /\ Cardinality(Held(slots)) >= Slots

\* commit(memory_type=WORKING): put first, then save the entry, save and log
\* the slot it pushed out, maybe consolidate, and only then log the entry, which is
\* the object in the buffer: gating retypes it.
CommitWorking(k, v) ==
    LET e == [val |-> v, kind |-> "working"]
    IN  /\ Idle
        /\ \E out \in IF Full(k) THEN {{x} : x \in Held(slots)} ELSE {{}} : \E order \in Orders(out) :
            LET pushed == [x \in out |-> As(slots[x], "semantic")]
                save   == [x \in out |-> Save(x, pushed[x])]
                log    == [x \in out |-> Log("set", x, NoValue)]
                saves  == << Save(k, e) >> \o Pairs(order, save, log)
                w == [x \in AllKeys |-> IF x = k THEN e ELSE IF x \in out THEN Absent ELSE slots[x]]
                s == [x \in AllKeys |-> IF x = k THEN e ELSE IF x \in out THEN pushed[x] ELSE store[x]]
            IN  /\ slots' = w
                /\ \/ Begin("commit", k, saves \o << Log("set", k, e) >>)
                   \/ /\ Cardinality(Held(w)) >= AutoAt
                      /\ \E ready \in Gated(w) : \E auto \in ConsolidatePlans(s, w, ready) :
                            Begin("commit", k, saves \o auto \o
                                  << Log("set", k, IF k \in ready THEN As(e, "episodic") ELSE e) >>)

\* commit of a long-term memory: save, log.  The buffer is not looked at.
CommitLongTerm(k, v, kind) ==
    LET e == [val |-> v, kind |-> kind]
    IN  /\ Idle
        /\ Begin("commit", k, << Save(k, e), Log("set", k, e) >>)
        /\ UNCHANGED slots

\* consolidate, called by the scheduler or a tool.
Consolidate ==
    /\ Idle
    /\ \E ready \in Gated(slots) : \E steps \in ConsolidatePlans(store, slots, ready) :
        steps # << >> /\ Begin("consolidate", System, steps)
    /\ UNCHANGED slots

\* Mutant: the buffer keeps its copy of what is forgotten.
ForgetKeepingSlot(k) ==
    /\ Idle
    /\ Begin("forget", k, << Delete(k), Log("unset", k, Absent) >>)
    /\ UNCHANGED slots

\* Mutant: nothing is logged.
ForgetUnlogged(k) ==
    /\ Idle
    /\ slots' = [slots EXCEPT ![k] = Absent]
    /\ Begin("forget", k, << Delete(k) >>)

\* forget: the slot goes first, then the row, then the audit row.
Forget(k) ==
    /\ Idle
    /\ slots' = [slots EXCEPT ![k] = Absent]
    /\ Begin("forget", k, << Delete(k), Log("unset", k, Absent) >>)

\* Mutant: keys created after the target moment are not deleted.
NoneNewer(target) == {}

\* The stored keys that the target moment did not have.
Newer(target) == {k \in Held(store) : target[k] = Absent}

\* rollback: delete what the target moment did not have, then restore what it
\* had key by key; a target that cannot be rebuilt raises when it is reached.
RollbackSteps(target, away, back) ==
    LET or(k, step) == IF target[k] = NoValue THEN Refuse(k) ELSE step
        delete  == [k \in AllKeys |-> Delete(k)]
        drop    == [k \in AllKeys |-> Drop(k)]
        unset   == [k \in AllKeys |-> Log("unset", k, Absent)]
        restore == [k \in AllKeys |-> or(k, Save(k, target[k]))]
        dropOld == [k \in AllKeys |-> or(k, Drop(k))]
        set     == [k \in AllKeys |-> or(k, Log("set", k, target[k]))]
    IN  Triples(away, delete, drop, unset) \o Triples(back, restore, dropOld, set)
        \o << Log("rollback", System, Absent) >>

\* rollback to the checkpoint's moment; equal entries are rewritten when they
\* differ in bookkeeping fields.
Rollback ==
    /\ Idle
    /\ LET target  == Replay(checkpoint.rows)
           changed == {k \in Held(target) : store[k] # target[k]}
       IN  \E equal \in SUBSET (Held(target) \ changed) :
           \E away \in Orders(Newer(target)), back \in Orders(changed \cup equal) :
              Begin("rollback", System, RollbackSteps(target, away, back))
    /\ UNCHANGED slots

\* The next effect of the running call takes place.
Step ==
    LET now == Head(plan)
    IN  /\ ~Idle
        /\ now.do # "refuse"
        /\ plan' = Tail(plan)
        /\ store' = IF now.do \in {"save", "delete"}
                    THEN [store EXCEPT ![now.key] = now.entry] ELSE store
        /\ slots' = IF now.do = "drop" THEN [slots EXCEPT ![now.key] = Absent] ELSE slots
        /\ audit' = IF now.do \in Logs
                    THEN Append(audit, [op |-> now.do, key |-> now.key, entry |-> now.entry])
                    ELSE audit
        /\ torn' = IF now.do \in Logs THEN torn \ {now.key} ELSE torn
        /\ call' = IF Tail(plan) = << >> THEN Ended("none") ELSE call
        /\ UNCHANGED <<faults, checkpoint>>

\* Keys the abandoned part of the plan would still have saved, deleted or logged.
Unfinished == {plan[i].key : i \in {j \in DOMAIN plan : plan[j].do \notin {"drop", "refuse"}}} \ {System}

CutShort ==
    /\ plan' = << >>
    /\ faults' = IF Idle THEN faults ELSE faults + 1
    /\ faults' <= MaxFaults

\* The next write raises and the call gives up: what it did stays done.
Fail ==
    /\ ~Idle
    /\ Head(plan).do \in {"save", "delete"} \cup Logs
    /\ CutShort
    /\ call' = Ended("none")
    /\ torn' = torn \cup Unfinished
    /\ UNCHANGED <<store, slots, audit, checkpoint>>

\* rollback's ValueError for an audit row without a value.
RefuseStep ==
    /\ ~Idle
    /\ Head(plan).do = "refuse"
    /\ UNCHANGED faults
    /\ plan' = << >>
    /\ call' = Ended("refused")
    /\ torn' = torn \cup Unfinished
    /\ UNCHANGED <<store, slots, audit, checkpoint>>

\* The process dies and starts again: init hydrates the buffer from working
\* rows and warms it up with semantic ones while there are slots.
Restart ==
    LET of(kind) == {k \in Held(store) : store[k].kind = kind}
        working  == of("working")
    IN  \E hydrated \in SUBSET working, warmed \in SUBSET of("semantic") :
        /\ Cardinality(hydrated) = IF Cardinality(working) > Slots THEN Slots ELSE Cardinality(working)
        /\ Cardinality(hydrated) + Cardinality(warmed) <= Slots
        /\ slots' = [k \in AllKeys |-> IF k \in hydrated \cup warmed
                                    THEN As(store[k], "working") ELSE Absent]
        /\ CutShort
        /\ torn' = torn \cup Unfinished
        /\ call' = Ended("none")
        /\ UNCHANGED <<store, audit, checkpoint>>

\* Somebody notes the time between two calls, to roll back to later.
NoteMoment ==
    /\ Idle
    /\ checkpoint' = [rows |-> Len(audit), store |-> store, torn |-> torn]
    /\ UNCHANGED <<store, slots, audit, plan, call, faults, torn>>

Next ==
    \/ \E k \in UserKeys, v \in Values : CommitWorking(k, v)
    \/ \E k \in UserKeys, v \in Values, kind \in CommitKinds : CommitLongTerm(k, v, kind)
    \/ Consolidate
    \/ \E k \in UserKeys : Forget(k)
    \/ Rollback
    \/ Step
    \/ Fail
    \/ RefuseStep
    \/ Restart
    \/ NoteMoment

Spec == Init /\ [][Next]_vars

-----------------------------------------------------------------------------
(* Properties *)

\* Every variable keeps its type, and the buffer never holds more than its slots.
TypeOK ==
    /\ store \in [AllKeys -> Entry \cup {Absent}]
    /\ slots \in [AllKeys -> Entry \cup {Absent}]
    /\ Cardinality(Held(slots)) <= Slots
    /\ \A i \in DOMAIN audit :
          audit[i] \in [op : Logs, key : AllKeys \cup {System}, entry : Entry \cup {Absent, NoValue}]
    /\ call \in [op : {"none", "refused", "commit", "consolidate", "forget", "rollback"}, key : AllKeys \cup {System}]
    /\ torn \subseteq AllKeys

\* Between calls the audit log replays to what is stored: the same keys, and
\* the same entry unless its last row has no value (the row of an evicted
\* slot).  Only keys whose last change was cut short may differ.
AuditTracksStore ==
    Idle => \A k \in AllKeys \ torn :
        LET replayed == Replay(Len(audit))[k]
        IN  IF replayed = NoValue THEN store[k] # Absent ELSE replayed = store[k]

\* Between calls every slot of the buffer is backed by a stored row, so a
\* restart loses nothing a caller was told is kept; the exception is a commit
\* that failed after it had put the entry in the buffer.
BufferIsBacked ==
    Idle => \A k \in Held(slots) \ torn : store[k] # Absent

\* A key that is not stored comes to be stored only through a call that names
\* it, a rollback or a summary: eviction and promotion never bring a
\* forgotten key back.
StoredOnlyByRequest ==
    [][\A k \in UserKeys \ torn :
          store[k] = Absent /\ store'[k] # Absent => call.op = "rollback" \/ call.key = k]_vars

\* Plan P pushes the slot of k out over its row: it has the audit row without a
\* value that only an eviction writes.
Evicts(P, k) == \E i \in DOMAIN P : P[i].key = k /\ P[i].entry = NoValue

\* A stored long-term memory changes only by a rollback, by a call that names it, or
\* when the slot that shares its key is evicted (EvictionKeepsLongTerm says that this
\* happens): no promotion touches one, be it a consolidation's or a commit's, and
\* whatever was evicted or cut short before (stateplane.py:1797 "its stored type
\* stays as it is instead of being rewritten as episodic").
PromotionKeepsLongTerm ==
    [][\A k \in Held(store) :
          store[k].kind \in LongTerm /\ store'[k] # store[k] =>
              call.op = "rollback" \/ call.key = k \/ Evicts(plan, k)]_vars

\* The audit log and the buffer say nothing the store does not back: a restart,
\* or a rollback to this moment, loses nothing.
StoreIsCovered == AuditTracksStore /\ BufferIsBacked

\* What the calls do on the side: eviction and promotion revive no forgotten memory,
\* and promotion touches no long-term one.
SideEffectsAreSafe == StoredOnlyByRequest /\ PromotionKeepsLongTerm

\* A rollback that reaches its summary row has brought back exactly what was
\* stored at its target moment, whatever failed, was evicted or was consolidated
\* since (mcp-server.md:180-184).
PlaneRollbackRestores ==
    [][Len(audit') > Len(audit) /\ audit'[Len(audit')].op = "rollback" =>
          \A k \in AllKeys \ checkpoint.torn : store'[k] = checkpoint.store[k]]_vars

\* What the code comments promise of a copy in the buffer: making room for
\* another key does not replace a long-term row by the slot that shares its key.
EvictionKeepsLongTerm ==
    [][call.op = "commit" =>
          \A k \in Held(store) \ {call.key} :
              store[k].kind \in LongTerm => store'[k] = store[k]]_vars

\* What the tool's documentation promises: whatever the program itself wrote to
\* the audit log can be rolled back to.
RollbackNeverRefuses == call.op # "refused"

=============================================================================
