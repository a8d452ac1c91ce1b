----------------------- MODULE HostedProject_proofs ------------------------
(***************************************************************************)
(* What the calls of a hosted project promise, proved for any keys,        *)
(* snapshot files, number of writes and of failures.  A call is a plan, so *)
(* what is true between two effects is stated about the plan that is left: *)
(* which audit row is still to come for a row that changed, what a         *)
(* rollback still has to restore, what a purge still has to empty.  What   *)
(* the plan of a call looks like when it begins, what one effect makes of  *)
(* it, and that every variable keeps its type, comes first.                *)
(***************************************************************************)
EXTENDS HostedProject, FunctionTheorems, SequenceTheorems, FiniteSetTheorems, TLAPS

-----------------------------------------------------------------------------
(* The plan that is left *)

Changes == {"save", "restore", "delete"}
Audits  == {"log", "receipt"}

\* Where the plan has something to do for key k, and where it changes its row.
Pending(doing, k) == {i \in DOMAIN plan : plan[i].do \in doing /\ plan[i].key = k}
Changing(k)       == Pending(Changes, k)

Kinds == {"save", "restore", "delete", "log", "receipt", "event", "redact", "captures", "empty",
          "payloads", "create", "fill", "scrub", "return"}

Steps == [do : Kinds, key : Keys \cup {None}, entries : (SUBSET Entries) \cup State,
          snap : SnapIds \cup {None}]

\* What the steps of a plan carry.
StepOK(step) ==
    /\ step.do \in {"save", "restore"} =>
          step.key \in Keys /\ step.entries \in SUBSET Entries /\ step.entries # {}
    /\ step.do \in {"delete", "redact", "captures", "empty", "payloads"} => step.key \in Keys
    /\ step.do = "event" => step.key \in Keys /\ step.entries \in SUBSET Entries
    /\ step.do = "log" => step.entries \in SUBSET Entries /\ (step.key = None => step.entries = {})
    /\ step.do = "receipt" => step.key \in Keys /\ step.entries = {}
    /\ step.do \in {"create", "fill"} => step.entries \in State /\ step.snap \in SnapIds
    /\ step.do = "scrub" => step.key \in Keys /\ step.snap \in SnapIds

PlanType ==
    /\ plan \in Seq(Steps)
    /\ \A i \in DOMAIN plan :
          /\ StepOK(plan[i])
          /\ plan[i].do = "return" <=> i = Len(plan)
          /\ plan[i].do = "restore" => call.op = "rollback"
          /\ plan[i].do = "scrub" => snaps[plan[i].snap] # None
          /\ plan[i].do = "return" /\ call.op = "purge" => plan[i].key \in Keys

\* The audit rows a plan will append fit.
Auditing == {i \in DOMAIN plan : plan[i].do \in Audits}
Room     == root + Cardinality(Auditing) <= MaxRoot

TypeInv == TypeOK /\ PlanType /\ Room

\* The effects of a running mutation.
Effect ==
    \/ SaveRow \/ RestoreRefused \/ DeleteRow \/ AppendEvent \/ AppendAudit
    \/ RedactOperationLog \/ PurgeCaptures \/ EmptyAuditRows \/ PurgePayloads
    \/ WriteSnapshot \/ ScrubSnapshot \/ Return

\* What is left of a plan is the plan, one earlier.
LEMMA TailFacts ==
    ASSUME plan \in Seq(Steps), plan # << >>, plan' = Tail(plan)
    PROVE  /\ plan' \in Seq(Steps) /\ Len(plan) \in Nat /\ Len(plan') = Len(plan) - 1
           /\ DOMAIN plan = 1..Len(plan) /\ DOMAIN plan' = 1..Len(plan')
           /\ 1 \in DOMAIN plan /\ Head(plan) = plan[1] /\ Head(plan) \in Steps
           /\ \A i \in DOMAIN plan' : i + 1 \in DOMAIN plan /\ plan'[i] = plan[i + 1]
           /\ \A i \in DOMAIN plan : i = 1 \/ (i - 1 \in DOMAIN plan' /\ plan'[i - 1] = plan[i])
<1>1. Len(plan) \in Nat \ {0} /\ DOMAIN plan = 1..Len(plan)
  BY EmptySeq, LenProperties
<1>2. plan' \in Seq(Steps) /\ Len(plan') = Len(plan) - 1 /\ DOMAIN plan' = 1..Len(plan')
      /\ \A i \in 1..Len(plan') : plan'[i] = plan[i + 1]
  BY HeadTailProperties, LenProperties
<1>3. Head(plan) = plan[1] /\ Head(plan) \in Steps
  BY HeadTailProperties
<1>. QED  BY <1>1, <1>2, <1>3

\* What is pending moves one place forward.
LEMMA TailPending ==
    ASSUME plan \in Seq(Steps), plan # << >>, plan' = Tail(plan), NEW doing, NEW k
    PROVE  /\ \A i \in Pending(doing, k)' : i \in Nat \ {0} /\ i + 1 \in Pending(doing, k) /\ plan'[i] = plan[i + 1]
           /\ \A i \in Pending(doing, k) : \/ i = 1 /\ Head(plan).do \in doing /\ Head(plan).key = k
                                           \/ i > 1 /\ i - 1 \in Pending(doing, k)' /\ plan'[i - 1] = plan[i]
           /\ Head(plan).do \in doing /\ Head(plan).key = k => 1 \in Pending(doing, k)
BY TailFacts DEF Pending

\* The audit rows left are fewer by the one appended.
LEMMA TailAuditing ==
    ASSUME plan \in Seq(Steps), plan # << >>, plan' = Tail(plan)
    PROVE  /\ Cardinality(Auditing) \in Nat /\ Cardinality(Auditing') \in Nat
           /\ Cardinality(Auditing') =
                 Cardinality(Auditing) - (IF Head(plan).do \in Audits THEN 1 ELSE 0)
<1>1. IsFiniteSet(Auditing)
  <2>1. IsFiniteSet(DOMAIN plan)
    BY TailFacts, FS_Interval
  <2>. QED  BY <2>1, FS_Subset DEF Auditing
<1> DEFINE later == Auditing \ {1}
           f == [i \in later |-> i - 1]
<1>2. IsFiniteSet(later) /\ Cardinality(later) = Cardinality(Auditing) - (IF 1 \in Auditing THEN 1 ELSE 0)
  BY <1>1, FS_RemoveElement, FS_CardinalityType
<1>3. 1 \in Auditing <=> Head(plan).do \in Audits
  BY TailFacts DEF Auditing
<1>4. /\ \A i \in later : i - 1 \in Auditing' /\ i \in Nat
      /\ \A j \in Auditing' : j + 1 \in later /\ j \in Nat
  BY TailFacts DEF Auditing
<1>5. f \in Bijection(later, Auditing')
  <2>1. f \in [later -> Auditing']
    BY <1>4
  <2>2. \A i, j \in later : f[i] = f[j] => i = j
    BY <1>4
  <2>3. \A j \in Auditing' : \E i \in later : f[i] = j
    <3>. TAKE j \in Auditing'
    <3>1. j + 1 \in later /\ f[j + 1] = j
      BY <1>4
    <3>. QED  BY <3>1
  <2>. QED  BY <2>1, <2>2, <2>3, Fun_IsBij
<1>. HIDE DEF f, later
<1>6. IsFiniteSet(Auditing') /\ Cardinality(Auditing') = Cardinality(later)
  BY <1>2, <1>5, FS_Bijection DEF ExistsBijection
<1>. QED  BY <1>1, <1>2, <1>3, <1>6, FS_CardinalityType

-----------------------------------------------------------------------------
(* What one effect does, whichever it is *)

\* The head of the plan is a step, and an effect takes it off.
LEMMA HeadOK ==
    ASSUME PlanType, plan # << >>
    PROVE  /\ Head(plan) \in Steps /\ StepOK(Head(plan))
           /\ Head(plan).do = "restore" => call.op = "rollback"
           /\ Head(plan).do = "scrub" => snaps[Head(plan).snap] # None
           /\ Head(plan).do = "return" /\ call.op = "purge" => Head(plan).key \in Keys
           /\ Head(plan).do = "return" <=> Len(plan) = 1
<1>1. plan \in Seq(Steps) /\ Len(plan) \in Nat \ {0} /\ DOMAIN plan = 1..Len(plan)
  BY EmptySeq, LenProperties DEF PlanType
<1>2. 1 \in DOMAIN plan /\ Head(plan) = plan[1] /\ Head(plan) \in Steps
  BY <1>1, HeadTailProperties
<1>. QED  BY <1>1, <1>2 DEF PlanType

\* An effect takes the first step off the plan.
LEMMA EffectTail ==
    ASSUME Effect
    PROVE  plan # << >> /\ plan' = Tail(plan) /\ preview' = preview /\ writes' = writes
BY DEF Effect, SaveRow, RestoreRefused, DeleteRow, AppendEvent, AppendAudit, RedactOperationLog,
       PurgeCaptures, EmptyAuditRows, PurgePayloads, WriteSnapshot, ScrubSnapshot, Return,
       Now, Idle, Proceed, memory

\* A refused restore leaves the storage as it is; the rollback misses the key.
Refused == Head(plan).do = "restore" /\ rows' = rows /\ call' = [call EXCEPT !.missed = @ \cup {Head(plan).key}]

\* What an effect makes of the rows.
LEMMA EffectRows ==
    ASSUME TypeInv, Effect
    PROVE  /\ rows' \in State
           /\ \A k \in Keys :
                 \/ /\ rows'[k] = rows[k]
                    /\ Head(plan).key # k \/ Head(plan).do \notin Changes \/ Refused
                 \/ Head(plan).key = k /\ Head(plan).do \in {"save", "restore"} /\ rows'[k] \in Head(plan).entries
                 \/ Head(plan).key = k /\ Head(plan).do = "delete" /\ rows'[k] = Absent
<1>. USE DEF Now, K, E, Proceed, storage, memory, ghosts
<1>1. plan # << >> /\ StepOK(Head(plan)) /\ rows \in State
  BY EffectTail, HeadOK DEF TypeInv, TypeOK
<1>2. CASE SaveRow
  <2>1. Head(plan).do \in {"save", "restore"} /\ rows' = [rows EXCEPT ![K] = TheEntry]
    BY <1>2 DEF SaveRow
  <2>2. TheEntry \in Head(plan).entries /\ Head(plan).entries \subseteq Entries
    BY <1>1, <2>1 DEF TheEntry, StepOK
  <2>. QED  BY <1>1, <2>1, <2>2 DEF State
<1>3. CASE RestoreRefused
  BY <1>1, <1>3 DEF RestoreRefused, Refused
<1>4. CASE DeleteRow
  BY <1>1, <1>4 DEF DeleteRow, State
<1>5. CASE rows' = rows /\ ~SaveRow /\ ~RestoreRefused /\ ~DeleteRow
  BY <1>1, <1>5 DEF Changes, Effect, AppendEvent, AppendAudit, RedactOperationLog, PurgeCaptures,
     EmptyAuditRows, PurgePayloads, WriteSnapshot, ScrubSnapshot, Return
<1>. QED  BY <1>2, <1>3, <1>4, <1>5 DEF Effect, AppendEvent, AppendAudit, RedactOperationLog, PurgeCaptures,
     EmptyAuditRows, PurgePayloads, WriteSnapshot, ScrubSnapshot, Return

\* What an effect makes of the audit log.
LEMMA EffectLog ==
    ASSUME TypeInv, Effect
    PROVE  /\ root' = IF Head(plan).do \in Audits THEN root + 1 ELSE root
           /\ torn' = IF Head(plan).do \in Audits THEN torn \ {Head(plan).key} ELSE torn
           /\ cachedRoot' = IF Head(plan).do \in Audits THEN root' ELSE cachedRoot
           /\ logged' \in [Keys -> SUBSET Entries]
           /\ \A k \in Keys : logged'[k] =
                 IF Head(plan).key # k THEN logged[k]
                 ELSE CASE Head(plan).do = "log" -> logged[k] \cup Head(plan).entries
                        [] Head(plan).do = "empty" -> {}
                        [] OTHER -> logged[k]
<1>. USE DEF Now, K, E, Proceed, storage, memory, ghosts
<1>1. plan # << >> /\ StepOK(Head(plan)) /\ logged \in [Keys -> SUBSET Entries]
  BY EffectTail, HeadOK DEF TypeInv, TypeOK
<1>2. CASE AppendAudit
  <2>1. Head(plan).do \in Audits /\ Head(plan).do \in {"log", "receipt"} /\ Head(plan).entries \subseteq Entries
        /\ (Head(plan).do = "receipt" => Head(plan).entries = {})
    BY <1>1, <1>2 DEF AppendAudit, Audits, StepOK
  <2>2. logged' \in [Keys -> SUBSET Entries]
    BY <1>1, <1>2, <2>1 DEF AppendAudit
  <2>3. \A k \in Keys : logged'[k] = IF Head(plan).key # k THEN logged[k] ELSE logged[k] \cup Head(plan).entries
    BY <1>1, <1>2, NoneAssumption DEF AppendAudit
  <2>4. \A k \in Keys : logged'[k] =
                 IF Head(plan).key # k THEN logged[k]
                 ELSE CASE Head(plan).do = "log" -> logged[k] \cup Head(plan).entries
                        [] Head(plan).do = "empty" -> {}
                        [] OTHER -> logged[k]
    BY <2>1, <2>3
  <2>. QED  BY <1>2, <2>1, <2>2, <2>4 DEF AppendAudit
<1>3. CASE EmptyAuditRows
  BY <1>1, <1>3 DEF EmptyAuditRows, Audits
<1>4. CASE ~AppendAudit /\ ~EmptyAuditRows
  <2>1. UNCHANGED <<root, torn, cachedRoot, logged>> /\ Head(plan).do \notin Audits /\ Head(plan).do \notin {"log", "empty"}
    BY <1>4 DEF Audits, Effect, SaveRow, RestoreRefused, DeleteRow, AppendEvent, RedactOperationLog, PurgeCaptures,
     PurgePayloads, WriteSnapshot, ScrubSnapshot, Return
  <2>. QED  BY <1>1, <2>1
<1>. QED  BY <1>2, <1>3, <1>4

\* What an effect makes of capture rows, operation log and event payloads.
LEMMA EffectTraces ==
    ASSUME TypeInv, Effect
    PROVE  /\ captures' = IF Head(plan).do = "captures" THEN captures \ {Head(plan).key} ELSE captures
           /\ oplog' \in [Keys -> SUBSET Entries]
           /\ \A k \in Keys : oplog'[k] = IF Head(plan).key = k /\ Head(plan).do = "redact" THEN {} ELSE oplog[k]
           /\ events' \in [Keys -> SUBSET Entries]
           /\ \A k \in Keys :
                 \/ /\ events'[k] = events[k]
                    /\ Head(plan).key # k \/ Head(plan).do # "payloads"
                 \/ Head(plan).key = k /\ Head(plan).do = "event" /\ events'[k] = events[k] \cup Head(plan).entries
                 \/ Head(plan).key = k /\ Head(plan).do = "payloads" /\ events'[k] = {}
<1>. USE DEF Now, K, E, Proceed, storage, memory, ghosts
<1>1. /\ plan # << >> /\ StepOK(Head(plan))
      /\ oplog \in [Keys -> SUBSET Entries] /\ events \in [Keys -> SUBSET Entries]
  BY EffectTail, HeadOK DEF TypeInv, TypeOK
<1>2. CASE AppendEvent
  <2>1. Head(plan).key \in Keys /\ Head(plan).entries \subseteq Entries
    BY <1>1, <1>2 DEF AppendEvent, StepOK
  <2>2. PICK e \in {Head(plan).entries, {}} : events' = [events EXCEPT ![Head(plan).key] = @ \cup e]
    BY <1>2 DEF AppendEvent
  <2>3. events' \in [Keys -> SUBSET Entries]
    BY <1>1, <2>1, <2>2
  <2>4. \A k \in Keys : events'[k] = events[k] \/ (k = Head(plan).key /\ events'[k] = events[k] \cup Head(plan).entries)
    BY <1>1, <2>1, <2>2
  <2>. QED  BY <1>1, <1>2, <2>3, <2>4 DEF AppendEvent
<1>3. CASE PurgePayloads
  BY <1>1, <1>3 DEF PurgePayloads
<1>4. CASE RedactOperationLog
  BY <1>1, <1>4 DEF RedactOperationLog
<1>5. CASE PurgeCaptures
  BY <1>1, <1>5 DEF PurgeCaptures
<1>6. CASE ~AppendEvent /\ ~PurgePayloads /\ ~RedactOperationLog /\ ~PurgeCaptures
  <2>1. UNCHANGED <<captures, oplog, events>> /\ Head(plan).do \notin {"captures", "redact", "payloads"}
    BY <1>6 DEF Effect, SaveRow, RestoreRefused, DeleteRow, AppendAudit, EmptyAuditRows,
                WriteSnapshot, ScrubSnapshot, Return
  <2>. QED  BY <1>1, <2>1
<1>. QED  BY <1>2, <1>3, <1>4, <1>5, <1>6

\* What an effect makes of a snapshot file.
LEMMA EffectSnaps ==
    ASSUME TypeInv, Effect
    PROVE  /\ snaps' \in [SnapIds -> Snapshots \cup {None}]
           /\ \A s \in SnapIds :
                 \/ snaps'[s] = snaps[s] /\ ~(Head(plan).do = "scrub" /\ Head(plan).snap = s)
                 \/ /\ Head(plan).do \in {"create", "fill"} /\ Head(plan).snap = s
                    /\ snaps'[s] \in Snapshots /\ snaps'[s].entries = Head(plan).entries
                 \/ /\ Head(plan).do = "scrub" /\ Head(plan).snap = s
                    /\ snaps[s] \in Snapshots /\ snaps'[s] \in Snapshots
                    /\ snaps'[s].entries = [snaps[s].entries EXCEPT ![Head(plan).key] = Absent]
<1>. USE DEF Now, K, E, S, Proceed, storage, memory, ghosts
<1>1. /\ plan # << >> /\ StepOK(Head(plan))
      /\ snaps \in [SnapIds -> Snapshots \cup {None}]
      /\ Head(plan).do = "scrub" => snaps[Head(plan).snap] # None
  BY EffectTail, HeadOK DEF TypeInv, TypeOK
<1>2. CASE WriteSnapshot
  <2>1. [readable |-> Head(plan).do = "fill", entries |-> Head(plan).entries] \in Snapshots
    BY <1>1, <1>2 DEF WriteSnapshot, StepOK, Snapshots
  <2>. QED  BY <1>1, <1>2, <2>1 DEF WriteSnapshot, StepOK
<1>3. CASE ScrubSnapshot
  <2> DEFINE s == Head(plan).snap
             scrubbed == [snaps[s] EXCEPT !.entries[Head(plan).key] = Absent]
  <2>1. s \in SnapIds /\ Head(plan).key \in Keys /\ snaps[s] \in Snapshots
    BY <1>1, <1>3 DEF ScrubSnapshot, StepOK
  <2>2. [snaps[s].entries EXCEPT ![Head(plan).key] = Absent] \in State
    BY <2>1 DEF Snapshots, State
  <2>3. scrubbed \in Snapshots /\ scrubbed.entries = [snaps[s].entries EXCEPT ![Head(plan).key] = Absent]
    BY <2>1, <2>2 DEF Snapshots
  <2>4. snaps' = [snaps EXCEPT ![s] = scrubbed]
    BY <1>3 DEF ScrubSnapshot
  <2>. HIDE DEF scrubbed
  <2>5. snaps' \in [SnapIds -> Snapshots \cup {None}] /\ snaps'[s] = scrubbed /\ \A t \in SnapIds : t # s => snaps'[t] = snaps[t]
    BY <1>1, <2>1, <2>3, <2>4
  <2>. QED  BY <1>3, <2>1, <2>3, <2>5 DEF ScrubSnapshot
<1>4. CASE ~WriteSnapshot /\ ~ScrubSnapshot
  <2>1. snaps' = snaps /\ Head(plan).do # "scrub"
    BY <1>4 DEF Effect, SaveRow, RestoreRefused, DeleteRow, AppendEvent, AppendAudit, EmptyAuditRows,
                RedactOperationLog, PurgeCaptures, PurgePayloads, Return
  <2>. QED  BY <1>1, <2>1
<1>. QED  BY <1>2, <1>3, <1>4

\* What an effect makes of the running call and of what a purge has reported.
LEMMA EffectCall ==
    ASSUME TypeInv, Effect
    PROVE  /\ call \in Mutations
           /\ call' = IF Head(plan).do = "return" THEN None ELSE call'
           /\ Head(plan).do # "return" => call' = call \/ (Refused /\ call' \in Mutations)
           /\ faults' \in 0..MaxFaults
           /\ cut' \subseteq cut
           /\ IF Head(plan).do = "return" /\ call.op = "purge"
              THEN purged' = [purged EXCEPT ![Head(plan).key] = writes]
              ELSE purged' = purged
<1>. USE DEF Now, K, Proceed, storage, memory, ghosts
<1>1. /\ plan # << >> /\ StepOK(Head(plan)) /\ call \in Mutations
      /\ Head(plan).do = "restore" => call.op = "rollback"
  BY EffectTail, HeadOK DEF TypeInv, TypeOK, Idle
<1>2. CASE RestoreRefused
  <2>1. Head(plan).key \in Keys /\ call.missed \subseteq Keys
        /\ call \in [op : {"rollback"}, bound : BOOLEAN, target : State, missed : SUBSET Keys]
    BY <1>1, <1>2 DEF RestoreRefused, StepOK, Mutations
  <2>2. [call EXCEPT !.missed = @ \cup {Head(plan).key}] \in Mutations
    BY <2>1 DEF Mutations
  <2>3. faults' \in 0..MaxFaults
    BY <1>2, BoundAssumption DEF RestoreRefused, TypeInv, TypeOK
  <2>. QED  BY <1>1, <1>2, <2>2, <2>3 DEF RestoreRefused, Refused, TypeInv, TypeOK
<1>3. CASE Return
  BY <1>1, <1>3 DEF Return, TypeInv, TypeOK
<1>4. CASE ~RestoreRefused /\ ~Return
  BY <1>1, <1>4 DEF Effect, SaveRow, DeleteRow, AppendEvent, AppendAudit, EmptyAuditRows,
                RedactOperationLog, PurgeCaptures, PurgePayloads, WriteSnapshot, ScrubSnapshot, TypeInv, TypeOK
<1>. QED  BY <1>2, <1>3, <1>4

-----------------------------------------------------------------------------
(* The plans of the mutations *)

\* What every mutation does when it gets the lock.
LEMMA BeginFacts ==
    ASSUME TypeInv, NEW what \in Mutations, NEW steps, Begin(what, steps), steps # << >>
    PROVE  /\ plan = << >> /\ call = None /\ plan' = steps /\ call' = what
           /\ UNCHANGED <<rows, root, logged, events, captures, snaps, faults, torn, cut, purged>>
           /\ Room' /\ (call' = None <=> Idle')
BY NoneAssumption DEF Begin, TypeInv, TypeOK, Idle, Room, Auditing, Audits, storage, ghosts

\* A write saves, appends its event, logs and returns.
LEMMA WritePlan ==
    ASSUME TypeInv, NEW k \in Keys, Write(k)
    PROVE  /\ plan' \in Seq(Steps) /\ DOMAIN plan' = 1..4 /\ Len(plan') = 4
           /\ plan'[1].do = "save" /\ plan'[1].key = k /\ plan'[1].entries = {writes'}
           /\ plan'[2].do = "event" /\ plan'[2].key = k /\ plan'[2].entries = {writes'}
           /\ plan'[3].do = "log" /\ plan'[3].key = k /\ plan'[3].entries = Some(rows[k]) \cup {writes'}
           /\ plan'[4].do = "return" /\ plan'[4].key = k
           /\ writes' \in Entries /\ writes' = writes + 1 /\ Some(rows[k]) \subseteq Entries
           /\ call' \in Mutations /\ call'.op = "write"
           /\ plan = << >> /\ call = None /\ Room' /\ (call' = None <=> Idle')
           /\ UNCHANGED <<rows, root, logged, events, captures, snaps, faults, torn, cut, purged>>
           /\ UNCHANGED <<cachedRoot, preview>>
           /\ oplog' \in [Keys -> SUBSET Entries]
           /\ \A j \in Keys : oplog'[j] = oplog[j] \/ (j = k /\ oplog'[j] = oplog[j] \cup {writes'})
<1>1. writes' \in Entries /\ writes' = writes + 1
  BY BoundAssumption DEF Write, NewEntry, TypeInv, TypeOK, Entries
<1>2. rows[k] \in Entries \cup {Absent} /\ Some(rows[k]) \subseteq Entries
  BY DEF TypeInv, TypeOK, State, Some
<1> DEFINE steps == << Do("save", k, {writes'}), Do("event", k, {writes'}),
                       Do("log", k, Some(rows[k]) \cup {writes'}), Do("return", k, {}) >>
<1>3. /\ Do("save", k, {writes'}) \in Steps /\ Do("event", k, {writes'}) \in Steps
      /\ Do("log", k, Some(rows[k]) \cup {writes'}) \in Steps /\ Do("return", k, {}) \in Steps
  BY <1>1, <1>2 DEF Do, Kinds, Steps
<1>4. Call("write", k) \in Mutations /\ Call("write", k).op = "write"
  BY DEF Call, Mutations
<1>5. Begin(Call("write", k), steps) /\ UNCHANGED <<cachedRoot, preview>>
  BY DEF Write
<1>6. steps # << >>
  OBVIOUS
<1>7. /\ plan = << >> /\ call = None /\ plan' = steps /\ call' = Call("write", k)
      /\ UNCHANGED <<rows, root, logged, events, captures, snaps, faults, torn, cut, purged>>
      /\ Room' /\ (call' = None <=> Idle')
  BY <1>4, <1>5, <1>6, BeginFacts
<1>8. /\ steps \in Seq(Steps) /\ DOMAIN steps = 1..4 /\ Len(steps) = 4
      /\ steps[1] = Do("save", k, {writes'}) /\ steps[2] = Do("event", k, {writes'})
      /\ steps[3] = Do("log", k, Some(rows[k]) \cup {writes'}) /\ steps[4] = Do("return", k, {})
  BY <1>3
<1>9. \A j \in Keys : oplog'[j] = oplog[j] \/ (j = k /\ oplog'[j] = oplog[j] \cup {writes'})
  BY DEF Write, TypeInv, TypeOK
<1>10. oplog' \in [Keys -> SUBSET Entries]
  BY <1>1 DEF Write, TypeInv, TypeOK
<1>. HIDE DEF steps
<1>. QED  BY <1>1, <1>2, <1>4, <1>5, <1>7, <1>8, <1>9, <1>10 DEF Do

\* A confirmation does without the event.
LEMMA ConfirmPlan ==
    ASSUME TypeInv, NEW k \in Keys, Confirm(k)
    PROVE  /\ plan' \in Seq(Steps) /\ DOMAIN plan' = 1..3 /\ Len(plan') = 3
           /\ plan'[1].do = "save" /\ plan'[1].key = k /\ plan'[1].entries = {writes'}
           /\ plan'[2].do = "log" /\ plan'[2].key = k /\ plan'[2].entries = {rows[k], writes'}
           /\ plan'[3].do = "return" /\ plan'[3].key = k
           /\ writes' \in Entries /\ writes' = writes + 1 /\ rows[k] \in Entries
           /\ call' \in Mutations /\ call'.op = "write"
           /\ plan = << >> /\ call = None /\ Room' /\ (call' = None <=> Idle')
           /\ UNCHANGED <<rows, root, logged, events, captures, snaps, faults, torn, cut, purged>>
           /\ UNCHANGED memory
<1>1. writes' \in Entries /\ writes' = writes + 1
  BY BoundAssumption DEF Confirm, NewEntry, TypeInv, TypeOK, Entries
<1>2. rows[k] \in Entries
  BY DEF TypeInv, TypeOK, State, Confirm
<1> DEFINE steps == << Do("save", k, {writes'}), Do("log", k, {rows[k], writes'}), Do("return", k, {}) >>
<1>3. /\ Do("save", k, {writes'}) \in Steps
      /\ Do("log", k, {rows[k], writes'}) \in Steps /\ Do("return", k, {}) \in Steps
  BY <1>1, <1>2 DEF Do, Kinds, Steps
<1>4. Call("write", k) \in Mutations /\ Call("write", k).op = "write"
  BY DEF Call, Mutations
<1>5. Begin(Call("write", k), steps) /\ UNCHANGED memory
  BY DEF Confirm
<1>6. steps # << >>
  OBVIOUS
<1>7. /\ plan = << >> /\ call = None /\ plan' = steps /\ call' = Call("write", k)
      /\ UNCHANGED <<rows, root, logged, events, captures, snaps, faults, torn, cut, purged>>
      /\ Room' /\ (call' = None <=> Idle')
  BY <1>4, <1>5, <1>6, BeginFacts
<1>8. /\ steps \in Seq(Steps) /\ DOMAIN steps = 1..3 /\ Len(steps) = 3
      /\ steps[1] = Do("save", k, {writes'})
      /\ steps[2] = Do("log", k, {rows[k], writes'}) /\ steps[3] = Do("return", k, {})
  BY <1>3
<1>. HIDE DEF steps
<1>. QED  BY <1>1, <1>2, <1>4, <1>5, <1>7, <1>8 DEF Do

\* A forget deletes and logs twice: what was stored, and the reason.
LEMMA ForgetPlan ==
    ASSUME TypeInv, NEW k \in Keys, Forget(k)
    PROVE  /\ plan' \in Seq(Steps) /\ DOMAIN plan' = 1..4 /\ Len(plan') = 4
           /\ plan'[1].do = "delete" /\ plan'[1].key = k
           /\ plan'[2].do = "log" /\ plan'[2].key = k /\ plan'[2].entries = {rows[k]}
           /\ plan'[3].do = "log" /\ plan'[3].key = k /\ plan'[3].entries = {}
           /\ plan'[4].do = "return" /\ plan'[4].key = k
           /\ rows[k] \in Entries
           /\ call' \in Mutations /\ call'.op = "forget"
           /\ plan = << >> /\ call = None /\ Room' /\ (call' = None <=> Idle')
           /\ UNCHANGED <<rows, root, logged, events, captures, snaps, faults, torn, cut, purged>>
           /\ UNCHANGED <<cachedRoot, oplog, preview, writes>>
<1>1. rows[k] \in Entries
  BY DEF TypeInv, TypeOK, State, Forget
<1> DEFINE steps == ForgetSteps(k) \o << Do("return", k, {}) >>
<1>3. /\ Do("delete", k, {}) \in Steps /\ Do("log", k, {}) \in Steps
      /\ Do("log", k, {rows[k]}) \in Steps /\ Do("return", k, {}) \in Steps
  BY <1>1 DEF Do, OnFile, Kinds, Steps
<1>8. /\ steps \in Seq(Steps) /\ DOMAIN steps = 1..4 /\ Len(steps) = 4
      /\ steps[1] = Do("delete", k, {}) /\ steps[2] = Do("log", k, {rows[k]})
      /\ steps[3] = Do("log", k, {}) /\ steps[4] = Do("return", k, {})
  <2>1. /\ ForgetSteps(k) \in Seq(Steps) /\ Len(ForgetSteps(k)) = 3
        /\ ForgetSteps(k)[1] = Do("delete", k, {}) /\ ForgetSteps(k)[2] = Do("log", k, {rows[k]})
        /\ ForgetSteps(k)[3] = Do("log", k, {})
    BY <1>3 DEF ForgetSteps
  <2>2. << Do("return", k, {}) >> \in Seq(Steps) /\ Len(<< Do("return", k, {}) >>) = 1
        /\ << Do("return", k, {}) >>[1] = Do("return", k, {})
    BY <1>3
  <2>. HIDE <1>3
  <2>3. /\ steps \in Seq(Steps) /\ Len(steps) = 4
        /\ \A i \in 1..4 : steps[i] = IF i <= 3 THEN ForgetSteps(k)[i] ELSE << Do("return", k, {}) >>[i - 3]
    BY <2>1, <2>2, ConcatProperties
  <2>. HIDE DEF steps
  <2>. QED  BY <2>1, <2>2, <2>3, LenProperties
<1>4. Call("forget", k) \in Mutations /\ Call("forget", k).op = "forget"
  BY DEF Call, Mutations
<1>5. Begin(Call("forget", k), steps) /\ UNCHANGED <<memory, writes>>
  BY DEF Forget
<1>6. steps # << >>
  BY <1>8, EmptySeq
<1>7. /\ plan = << >> /\ call = None /\ plan' = steps /\ call' = Call("forget", k)
      /\ UNCHANGED <<rows, root, logged, events, captures, snaps, faults, torn, cut, purged>>
      /\ Room' /\ (call' = None <=> Idle')
  BY <1>4, <1>5, <1>6, BeginFacts
<1>. HIDE DEF steps
<1>. QED  BY <1>1, <1>4, <1>5, <1>7, <1>8 DEF Do, memory

\* A snapshot file is created and then filled with the state read before.
LEMMA SnapshotPlan ==
    ASSUME TypeInv, NEW s \in SnapIds, CreateSnapshot(s)
    PROVE  /\ plan' \in Seq(Steps) /\ DOMAIN plan' = 1..3 /\ Len(plan') = 3
           /\ plan'[1].do = "create" /\ plan'[1].key = None /\ plan'[1].entries = rows /\ plan'[1].snap = s
           /\ plan'[2].do = "fill" /\ plan'[2].key = None /\ plan'[2].entries = rows /\ plan'[2].snap = s
           /\ plan'[3].do = "return" /\ plan'[3].key = None
           /\ call' \in Mutations /\ call'.op = "snapshot"
           /\ plan = << >> /\ call = None /\ Room' /\ (call' = None <=> Idle')
           /\ UNCHANGED <<rows, root, logged, events, captures, snaps, faults, torn, cut, purged>>
           /\ UNCHANGED <<cachedRoot, oplog, preview, writes>>
<1>1. rows \in State
  BY DEF TypeInv, TypeOK
<1> DEFINE steps == << OnFile("create", None, rows, s), OnFile("fill", None, rows, s), Do("return", None, {}) >>
<1>3. /\ OnFile("create", None, rows, s) \in Steps /\ OnFile("fill", None, rows, s) \in Steps
      /\ Do("return", None, {}) \in Steps
  BY <1>1 DEF Do, OnFile, Kinds, Steps
<1>4. Call("snapshot", None) \in Mutations /\ Call("snapshot", None).op = "snapshot"
  BY DEF Call, Mutations
<1>5. Begin(Call("snapshot", None), steps) /\ UNCHANGED <<memory, writes>>
  BY DEF CreateSnapshot
<1>6. steps # << >>
  OBVIOUS
<1>7. /\ plan = << >> /\ call = None /\ plan' = steps /\ call' = Call("snapshot", None)
      /\ UNCHANGED <<rows, root, logged, events, captures, snaps, faults, torn, cut, purged>>
      /\ Room' /\ (call' = None <=> Idle')
  BY <1>4, <1>5, <1>6, BeginFacts
<1>8. /\ steps \in Seq(Steps) /\ DOMAIN steps = 1..3 /\ Len(steps) = 3
      /\ steps[1] = OnFile("create", None, rows, s) /\ steps[2] = OnFile("fill", None, rows, s)
      /\ steps[3] = Do("return", None, {})
  BY <1>3
<1>. HIDE DEF steps
<1>. QED  BY <1>4, <1>5, <1>7, <1>8 DEF Do, OnFile, memory

\* Orders of a finite set enumerate it without repetition.
LEMMA OrderFacts ==
    ASSUME NEW set, IsFiniteSet(set), NEW order \in Orders(set)
    PROVE  /\ Len(order) \in Nat /\ DOMAIN order = 1..Len(order)
           /\ order \in Seq(set) /\ \A i \in DOMAIN order : order[i] \in set
           /\ \A x \in set : \E i \in DOMAIN order : order[i] = x
           /\ \A i, j \in DOMAIN order : order[i] = order[j] => i = j
<1> DEFINE n == Cardinality(set)
<1>1. n \in Nat
  BY FS_CardinalityType
<1>2. order \in [1..n -> set] /\ \A x \in set : \E i \in 1..n : order[i] = x
  BY DEF Orders
<1>3. order \in Seq(set) /\ Len(order) = n
  <2>1. order \in Seq(set)
    BY <1>1, <1>2, SeqDef
  <2>2. Len(order) \in Nat /\ DOMAIN order = 1..Len(order) /\ DOMAIN order = 1..n
    BY <2>1, <1>2, LenProperties
  <2>3. \A m, l \in Nat : 1..m = 1..l => m = l
    OBVIOUS
  <2>. QED  BY <1>1, <2>1, <2>2, <2>3
<1>4. IsFiniteSet(1..n) /\ Cardinality(1..n) = n
  BY <1>1, FS_Interval
<1>5. order \in Surjection(1..n, set)
  BY <1>2, Fun_IsSurj
<1>6. order \in Injection(1..n, set)
  BY <1>4, <1>5, FS_SurjSameCardinalityImpliesInj
<1>. QED  BY <1>1, <1>2, <1>3, <1>6 DEF Injection, IsInjective

\* The plan of a purge: f steps for a row that is stored, r for a key the audit log
\* names, and n files.
PurgeLayout(k, f, r, n) ==
    /\ f = IF rows[k] # Absent THEN 3 ELSE 0
    /\ r = IF rows[k] # Absent \/ logged[k] # {} THEN 2 ELSE 0
    /\ n \in Nat
    /\ plan' \in Seq(Steps) /\ Len(plan') = f + r + n + 4 /\ DOMAIN plan' = 1..f + r + n + 4
    /\ \A i \in 1..f + r + n + 4 :
          /\ plan'[i].key = k
          /\ plan'[i].entries = IF f = 3 /\ i = 2 THEN {rows[k]} ELSE {}
          /\ i <= f => plan'[i].do = IF i = 1 THEN "delete" ELSE "log"
          /\ i = f + 1 => plan'[i].do = "redact"
          /\ i = f + 2 => plan'[i].do = "captures"
          /\ r = 2 /\ i = f + 3 => plan'[i].do = "receipt"
          /\ r = 2 /\ i = f + 4 => plan'[i].do = "empty"
          /\ i = f + r + 3 => plan'[i].do = "payloads"
          /\ f + r + 3 < i /\ i < f + r + n + 4 => plan'[i].do = "scrub" /\ plan'[i].snap \in Holding(k)
          /\ i = f + r + n + 4 => plan'[i].do = "return"
    /\ \A s \in Holding(k) : \E i \in 1..f + r + n + 4 : plan'[i].do = "scrub" /\ plan'[i].snap = s

\* What purge does, in order: each of its parts in its place.
LEMMA PurgePlan ==
    ASSUME TypeInv, NEW k \in Keys, Purge(k)
    PROVE  /\ \E f \in {0, 3}, r \in {0, 2}, n \in Nat : PurgeLayout(k, f, r, n)
           /\ \A s \in SnapIds : snaps[s] # None /\ Target(s)[k] # Absent => s \in Holding(k)
           /\ call' = Call("purge", k) /\ call' \in Mutations
           /\ plan = << >> /\ call = None /\ Room' /\ (call' = None <=> Idle')
           /\ UNCHANGED <<rows, root, logged, events, captures, snaps, faults, torn, cut, purged>>
           /\ UNCHANGED <<cachedRoot, oplog, preview, writes>>
<1>1. PICK order \in Orders(Holding(k)) :
          Begin(Call("purge", k),
                When(rows[k] # Absent, ForgetSteps(k))
                \o PurgeSteps(k, [i \in DOMAIN order |-> OnFile("scrub", k, {}, order[i])])
                \o << Do("return", k, {}) >>)
  BY DEF Purge
<1> DEFINE n     == Len(order)
           files == [i \in DOMAIN order |-> OnFile("scrub", k, {}, order[i])]
           f     == IF rows[k] # Absent THEN 3 ELSE 0
           gone  == When(rows[k] # Absent, ForgetSteps(k))
           r     == IF rows[k] # Absent \/ logged[k] # {} THEN 2 ELSE 0
           start == << Do("redact", k, {}), Do("captures", k, {}) >>
           audit == When(rows[k] # Absent \/ logged[k] # {}, << Do("receipt", k, {}), Do("empty", k, {}) >>)
           pay   == << Do("payloads", k, {}) >>
           end   == << Do("return", k, {}) >>
           steps == gone \o PurgeSteps(k, files) \o end
<1>2. IsFiniteSet(Holding(k)) /\ Holding(k) \subseteq SnapIds
  BY FiniteAssumption, FS_Subset DEF Holding
<1>3. /\ n \in Nat /\ DOMAIN order = 1..n /\ \A i \in 1..n : order[i] \in Holding(k)
      /\ \A s \in Holding(k) : \E i \in 1..n : order[i] = s
  BY <1>2, OrderFacts
<1>4. files \in Seq(Steps) /\ Len(files) = n /\ \A i \in 1..n : files[i] = OnFile("scrub", k, {}, order[i])
  <2>1. \A i \in 1..n : OnFile("scrub", k, {}, order[i]) \in Steps
    BY <1>2, <1>3 DEF OnFile, Kinds, Steps
  <2>2. files \in [1..n -> Steps] /\ \A i \in 1..n : files[i] = OnFile("scrub", k, {}, order[i])
    BY <1>3, <2>1
  <2>3. files \in Seq(Steps)
    BY <1>3, <2>2, SeqDef
  <2>4. Len(files) \in Nat /\ 1..Len(files) = 1..n
    BY <2>2, <2>3, LenProperties
  <2>. QED  BY <1>3, <2>2, <2>3, <2>4
<1>5. gone \in Seq(Steps) /\ Len(gone) = f
      /\ (f = 3 => gone[1] = Do("delete", k, {}) /\ gone[2] = Do("log", k, {rows[k]}) /\ gone[3] = Do("log", k, {}))
  <2>1. rows[k] \in Entries \cup {Absent}
    BY DEF TypeInv, TypeOK, State
  <2>2. CASE rows[k] # Absent
    <3>1. Do("delete", k, {}) \in Steps /\ Do("log", k, {rows[k]}) \in Steps /\ Do("log", k, {}) \in Steps
      BY <2>1, <2>2 DEF Do, Kinds, Steps
    <3>. QED  BY <2>2, <3>1 DEF ForgetSteps, When
  <2>3. CASE rows[k] = Absent
    BY <2>3, EmptySeq DEF When
  <2>. QED  BY <2>2, <2>3
<1>6. /\ start \in Seq(Steps) /\ Len(start) = 2 /\ start[1] = Do("redact", k, {}) /\ start[2] = Do("captures", k, {})
      /\ pay \in Seq(Steps) /\ Len(pay) = 1 /\ pay[1] = Do("payloads", k, {})
      /\ end \in Seq(Steps) /\ Len(end) = 1 /\ end[1] = Do("return", k, {})
  <2>1. /\ Do("redact", k, {}) \in Steps /\ Do("captures", k, {}) \in Steps /\ Do("payloads", k, {}) \in Steps
        /\ Do("return", k, {}) \in Steps
    BY DEF Do, Kinds, Steps
  <2>. QED  BY <2>1
<1>7. audit \in Seq(Steps) /\ Len(audit) = r /\ (r = 2 => audit[1] = Do("receipt", k, {}) /\ audit[2] = Do("empty", k, {}))
  <2>1. Do("receipt", k, {}) \in Steps /\ Do("empty", k, {}) \in Steps
    BY DEF Do, Kinds, Steps
  <2>2. CASE rows[k] # Absent \/ logged[k] # {}
    BY <2>1, <2>2 DEF When
  <2>3. CASE ~(rows[k] # Absent \/ logged[k] # {})
    BY <2>3, EmptySeq DEF When
  <2>. QED  BY <2>2, <2>3
<1> DEFINE a == start \o audit
           b == a \o pay
           c == b \o files
           d == gone \o c
<1>8. steps = d \o end
  BY DEF PurgeSteps
<1>9. f \in {0, 3} /\ r \in {0, 2} /\ f \in Nat /\ r \in Nat
  OBVIOUS
<1>. HIDE DEF f, gone, r, start, audit, pay, end, files, steps, n
<1>10. a \in Seq(Steps) /\ Len(a) = 2 + r /\ \A i \in 1..2 + r : a[i] = IF i <= 2 THEN start[i] ELSE audit[i - 2]
  <2>1. start \in Seq(Steps) /\ audit \in Seq(Steps) /\ Len(start) = 2 /\ Len(audit) = r
    BY <1>6, <1>7
  <2>2. a \in Seq(Steps) /\ Len(a) = Len(start) + Len(audit)
        /\ \A i \in 1..Len(start) + Len(audit) : a[i] = IF i <= Len(start) THEN start[i] ELSE audit[i - Len(start)]
    BY <2>1, ConcatProperties
  <2>. HIDE DEF a
  <2>. QED  BY <2>1, <2>2
<1>. HIDE DEF a
<1>11. b \in Seq(Steps) /\ Len(b) = 3 + r /\ \A i \in 1..3 + r : b[i] = IF i <= 2 + r THEN a[i] ELSE pay[i - (2 + r)]
  <2>1. b \in Seq(Steps) /\ Len(b) = Len(a) + Len(pay)
        /\ \A i \in 1..Len(a) + Len(pay) : b[i] = IF i <= Len(a) THEN a[i] ELSE pay[i - Len(a)]
    BY <1>6, <1>10, ConcatProperties
  <2>2. Len(a) + Len(pay) = 3 + r
    BY <1>6, <1>9, <1>10
  <2>. HIDE DEF b
  <2>. QED  BY <1>10, <2>1, <2>2
<1>. HIDE DEF b
<1>12. c \in Seq(Steps) /\ Len(c) = 3 + r + n
       /\ \A i \in 1..3 + r + n : c[i] = IF i <= 3 + r THEN b[i] ELSE files[i - (3 + r)]
  <2>1. b \in Seq(Steps) /\ files \in Seq(Steps) /\ Len(b) = 3 + r /\ Len(files) = n
    BY <1>4, <1>11
  <2>2. c \in Seq(Steps) /\ Len(c) = Len(b) + Len(files)
        /\ \A i \in 1..Len(b) + Len(files) : c[i] = IF i <= Len(b) THEN b[i] ELSE files[i - Len(b)]
    BY <2>1, ConcatProperties
  <2>. HIDE DEF c
  <2>. QED  BY <2>1, <2>2
<1>. HIDE DEF c
<1>13. d \in Seq(Steps) /\ Len(d) = f + (3 + r + n)
       /\ \A i \in 1..f + (3 + r + n) : d[i] = IF i <= f THEN gone[i] ELSE c[i - f]
  <2>1. gone \in Seq(Steps) /\ c \in Seq(Steps) /\ Len(gone) = f /\ Len(c) = 3 + r + n
    BY <1>5, <1>12
  <2>2. d \in Seq(Steps) /\ Len(d) = Len(gone) + Len(c)
        /\ \A i \in 1..Len(gone) + Len(c) : d[i] = IF i <= Len(gone) THEN gone[i] ELSE c[i - Len(gone)]
    BY <2>1, ConcatProperties
  <2>. HIDE DEF d
  <2>. QED  BY <2>1, <2>2
<1>. HIDE DEF d
<1>14. /\ steps \in Seq(Steps) /\ Len(steps) = f + r + n + 4 /\ DOMAIN steps = 1..f + r + n + 4
       /\ \A i \in 1..f + r + n + 4 : steps[i] = IF i < f + r + n + 4 THEN d[i] ELSE end[1]
  <2>1. steps \in Seq(Steps) /\ Len(steps) = Len(d) + Len(end)
        /\ \A i \in 1..Len(d) + Len(end) : steps[i] = IF i <= Len(d) THEN d[i] ELSE end[i - Len(d)]
    BY <1>6, <1>8, <1>13, ConcatProperties
  <2>2. Len(d) + Len(end) = f + r + n + 4 /\ Len(d) = f + r + n + 3
    BY <1>3, <1>6, <1>9, <1>13
  <2>3. \A i \in 1..f + r + n + 4 : IF i <= Len(d) THEN i < f + r + n + 4 ELSE i - Len(d) = 1
    BY <1>3, <1>9, <2>2
  <2>4. Len(steps) = f + r + n + 4 /\ \A i \in 1..f + r + n + 4 : steps[i] = IF i <= Len(d) THEN d[i] ELSE end[i - Len(d)]
    BY <2>1, <2>2
  <2>5. DOMAIN steps = 1..f + r + n + 4
    BY <2>1, <2>4, LenProperties
  <2>. QED  BY <2>1, <2>3, <2>4, <2>5, <1>3, <1>9, <2>2
<1>15. steps # << >>
  BY <1>3, <1>9, <1>14, EmptySeq
<1>16. Call("purge", k) \in Mutations
  BY DEF Call, Mutations
<1>17. /\ plan = << >> /\ call = None /\ plan' = steps /\ call' = Call("purge", k)
       /\ UNCHANGED <<rows, root, logged, events, captures, snaps, faults, torn, cut, purged>>
       /\ Room' /\ (call' = None <=> Idle')
  <2>1. Begin(Call("purge", k), steps)
    BY <1>1 DEF steps, gone, files, end
  <2>. QED  BY <1>15, <1>16, <2>1, BeginFacts
<1>18. \A s \in SnapIds : snaps[s] # None /\ Target(s)[k] # Absent => s \in Holding(k)
  BY DEF Purge, Holding
<1>19. \A i \in 1..f + r + n + 4 :
          /\ i <= f => steps[i] = gone[i]
          /\ f < i /\ i < f + r + n + 4 => i - f \in 1..3 + r + n /\ steps[i] = c[i - f]
          /\ i = f + r + n + 4 => steps[i] = end[1]
  <2>. TAKE i \in 1..f + r + n + 4
  <2>1. i \in Int /\ n \in Nat /\ f \in Nat /\ r \in Nat
    BY <1>3, <1>9
  <2>2. CASE i <= f
    BY <1>13, <1>14, <2>1, <2>2
  <2>3. CASE f < i /\ i < f + r + n + 4
    <3>1. i \in 1..f + (3 + r + n) /\ ~(i <= f)
      BY <2>1, <2>3
    <3>2. i - f \in 1..3 + r + n
      BY <2>1, <2>3
    <3>. QED  BY <1>13, <1>14, <2>3, <3>1, <3>2
  <2>4. CASE i = f + r + n + 4
    BY <1>14, <2>1, <2>4
  <2>. QED  BY <2>1, <2>2, <2>3, <2>4
<1>20. /\ c[1] = Do("redact", k, {}) /\ c[2] = Do("captures", k, {})
       /\ (r = 2 => c[3] = Do("receipt", k, {}) /\ c[4] = Do("empty", k, {}))
       /\ c[3 + r] = Do("payloads", k, {})
  BY <1>3, <1>6, <1>7, <1>9, <1>10, <1>11, <1>12
<1>21. \A j \in 1..3 + r + n : 3 + r < j => j - (3 + r) \in 1..n /\ c[j] = OnFile("scrub", k, {}, order[j - (3 + r)])
  BY <1>3, <1>4, <1>9, <1>12
<1>22. \A i \in 1..f + r + n + 4 :
          /\ i <= f => plan'[i] = IF i = 1 THEN Do("delete", k, {}) ELSE Do("log", k, IF i = 2 THEN {rows[k]} ELSE {})
          /\ i = f + 1 => plan'[i] = Do("redact", k, {})
          /\ i = f + 2 => plan'[i] = Do("captures", k, {})
          /\ r = 2 /\ i = f + 3 => plan'[i] = Do("receipt", k, {})
          /\ r = 2 /\ i = f + 4 => plan'[i] = Do("empty", k, {})
          /\ i = f + r + 3 => plan'[i] = Do("payloads", k, {})
          /\ f + r + 3 < i /\ i < f + r + n + 4 =>
                i - (f + r + 3) \in 1..n /\ plan'[i] = OnFile("scrub", k, {}, order[i - (f + r + 3)])
          /\ i = f + r + n + 4 => plan'[i] = Do("return", k, {})
  <2>. TAKE i \in 1..f + r + n + 4
  <2>1. i \in Int /\ n \in Nat /\ f \in Nat /\ r \in Nat
    BY <1>3, <1>9
  <2>2. i <= f => steps[i] = IF i = 1 THEN Do("delete", k, {}) ELSE Do("log", k, IF i = 2 THEN {rows[k]} ELSE {})
    BY <1>5, <1>9, <1>19, <2>1
  <2>3. /\ i = f + 1 => steps[i] = c[1]
        /\ i = f + 2 => steps[i] = c[2]
        /\ r = 2 /\ i = f + 3 => steps[i] = c[3]
        /\ r = 2 /\ i = f + 4 => steps[i] = c[4]
        /\ i = f + r + 3 => steps[i] = c[3 + r]
    <3>1. i \in {f + 1, f + 2, f + 3, f + 4, f + r + 3} => f < i
      BY <2>1
    <3>2. i \in {f + 1, f + 2, f + r + 3} \/ (r = 2 /\ i \in {f + 3, f + 4}) => i < f + r + n + 4
      BY <1>9, <2>1
    <3>3. /\ (i = f + 1 => i - f = 1) /\ (i = f + 2 => i - f = 2) /\ (i = f + 3 => i - f = 3)
          /\ (i = f + 4 => i - f = 4) /\ (i = f + r + 3 => i - f = 3 + r)
      BY <2>1
    <3>. QED  BY <1>19, <3>1, <3>2, <3>3
  <2>4. ASSUME f + r + 3 < i, i < f + r + n + 4
        PROVE  i - (f + r + 3) \in 1..n /\ steps[i] = OnFile("scrub", k, {}, order[i - (f + r + 3)])
    <3>1. f < i /\ 3 + r < i - f /\ (i - f) - (3 + r) = i - (f + r + 3)
      BY <2>1, <2>4
    <3>2. i - f \in 1..3 + r + n /\ steps[i] = c[i - f]
      BY <1>19, <2>4, <3>1
    <3>. QED  BY <1>21, <3>1, <3>2
  <2>5. i = f + r + n + 4 => steps[i] = Do("return", k, {})
    BY <1>6, <1>19
  <2>. QED  BY <1>17, <1>20, <2>2, <2>3, <2>4, <2>5
<1>23. PurgeLayout(k, f, r, n)
  <2>1. /\ f = IF rows[k] # Absent THEN 3 ELSE 0
        /\ r = IF rows[k] # Absent \/ logged[k] # {} THEN 2 ELSE 0
    BY DEF f, r
  <2>2. plan' \in Seq(Steps) /\ Len(plan') = f + r + n + 4 /\ DOMAIN plan' = 1..f + r + n + 4
    BY <1>14, <1>17
  <2>3. ASSUME NEW i \in 1..f + r + n + 4
        PROVE  /\ plan'[i].key = k
               /\ plan'[i].entries = IF f = 3 /\ i = 2 THEN {rows[k]} ELSE {}
               /\ i <= f => plan'[i].do = IF i = 1 THEN "delete" ELSE "log"
               /\ i = f + 1 => plan'[i].do = "redact"
               /\ i = f + 2 => plan'[i].do = "captures"
               /\ r = 2 /\ i = f + 3 => plan'[i].do = "receipt"
               /\ r = 2 /\ i = f + 4 => plan'[i].do = "empty"
               /\ i = f + r + 3 => plan'[i].do = "payloads"
               /\ f + r + 3 < i /\ i < f + r + n + 4 => plan'[i].do = "scrub" /\ plan'[i].snap \in Holding(k)
               /\ i = f + r + n + 4 => plan'[i].do = "return"
    <3>1. i \in Int /\ n \in Nat /\ \A what, e : Do(what, k, e).do = what /\ Do(what, k, e).key = k /\ Do(what, k, e).entries = e
      BY <1>3 DEF Do
    <3>2. CASE i <= f
      <4>1. f = 3 /\ i \in {1, 2, 3}
        BY <1>9, <3>1, <3>2
      <4>2. plan'[i] = IF i = 1 THEN Do("delete", k, {}) ELSE Do("log", k, IF i = 2 THEN {rows[k]} ELSE {})
        BY <1>22, <3>2
      <4>3. plan'[i].key = k /\ plan'[i].entries = (IF i = 2 THEN {rows[k]} ELSE {})
            /\ plan'[i].do = (IF i = 1 THEN "delete" ELSE "log")
        BY <3>1, <4>1, <4>2
      <4>. QED  BY <1>9, <3>1, <4>1, <4>3
    <3>3. CASE i = f + 1
      <4>1. plan'[i].key = k /\ plan'[i].entries = {} /\ plan'[i].do = "redact"
        BY <1>22, <3>1, <3>3
      <4>. QED  BY <1>9, <3>1, <3>3, <4>1
    <3>4. CASE i = f + 2
      <4>1. plan'[i].key = k /\ plan'[i].entries = {} /\ plan'[i].do = "captures"
        BY <1>22, <3>1, <3>4
      <4>. QED  BY <1>9, <3>1, <3>4, <4>1
    <3>6. CASE r = 2 /\ i = f + 3
      <4>1. plan'[i].key = k /\ plan'[i].entries = {} /\ plan'[i].do = "receipt"
        BY <1>22, <3>1, <3>6
      <4>. QED  BY <1>9, <3>1, <3>6, <4>1
    <3>7. CASE r = 2 /\ i = f + 4
      <4>1. plan'[i].key = k /\ plan'[i].entries = {} /\ plan'[i].do = "empty"
        BY <1>22, <3>1, <3>7
      <4>. QED  BY <1>9, <3>1, <3>7, <4>1
    <3>8. CASE i = f + r + 3
      <4>1. plan'[i].key = k /\ plan'[i].entries = {} /\ plan'[i].do = "payloads"
        BY <1>22, <3>1, <3>8
      <4>. QED  BY <1>9, <3>1, <3>8, <4>1
    <3>9. CASE i = f + r + n + 4
      <4>1. plan'[i].key = k /\ plan'[i].entries = {} /\ plan'[i].do = "return"
        BY <1>22, <3>1, <3>9
      <4>. QED  BY <1>9, <3>1, <3>9, <4>1
    <3>5. CASE f + r + 3 < i /\ i < f + r + n + 4
      <4>1. i - (f + r + 3) \in 1..n /\ plan'[i] = OnFile("scrub", k, {}, order[i - (f + r + 3)])
        BY <1>22, <3>5
      <4>2. plan'[i].key = k /\ plan'[i].entries = {} /\ plan'[i].do = "scrub" /\ plan'[i].snap \in Holding(k)
        BY <1>3, <4>1 DEF OnFile
      <4>. QED  BY <1>9, <3>1, <3>5, <4>2
    <3>. QED  BY <1>9, <3>1, <3>2, <3>3, <3>4, <3>5, <3>6, <3>7, <3>8, <3>9
  <2>4. ASSUME NEW s \in Holding(k)
        PROVE  \E i \in 1..f + r + n + 4 : plan'[i].do = "scrub" /\ plan'[i].snap = s
    <3>1. PICK j \in 1..n : order[j] = s
      BY <1>3
    <3>2. j + (f + r + 3) \in 1..f + r + n + 4 /\ f + r + 3 < j + (f + r + 3) /\ j + (f + r + 3) < f + r + n + 4
          /\ (j + (f + r + 3)) - (f + r + 3) = j
      BY <1>3, <1>9
    <3>3. plan'[j + (f + r + 3)] = OnFile("scrub", k, {}, order[j])
      BY <1>22, <3>2
    <3>. QED  BY <3>1, <3>2, <3>3 DEF OnFile
  <2>. QED  BY <1>3, <2>1, <2>2, <2>3, <2>4 DEF PurgeLayout
<1>24. UNCHANGED <<cachedRoot, oplog, preview, writes>>
  BY DEF Purge, memory
<1>25. \E g \in {0, 3}, q \in {0, 2}, m \in Nat : PurgeLayout(k, g, q, m)
  BY <1>3, <1>9, <1>23
<1>. QED  BY <1>16, <1>17, <1>18, <1>24, <1>25

\* The part of a rollback's plan for one key: nothing if the snapshot agrees with the
\* row, else a change and its audit row.
RollbackPart(target, k) ==
    IF rows[k] = target[k]
    THEN \A i \in DOMAIN plan' : plan'[i].key # k
    ELSE \E i \in DOMAIN plan' :
            /\ i + 1 \in DOMAIN plan'
            /\ \A j \in DOMAIN plan' : plan'[j].key = k => j = i \/ j = i + 1
            /\ plan'[i].key = k /\ plan'[i + 1].key = k
            /\ IF target[k] = Absent THEN plan'[i].do = "delete" ELSE plan'[i].do = "restore"
            /\ plan'[i].entries = Some(target[k])
            /\ plan'[i + 1].do = "log" /\ plan'[i + 1].entries = Some(rows[k]) \cup Some(target[k])

\* A rollback brings every key that differs to the snapshot, and logs it.
LEMMA RollbackPlan ==
    ASSUME TypeInv, NEW s \in SnapIds, NEW bound \in BOOLEAN, Rollback(s, bound)
    PROVE  /\ plan' \in Seq(Steps) /\ Len(plan') \in Nat /\ DOMAIN plan' = 1..Len(plan')
           /\ \A i \in DOMAIN plan' :
                 /\ plan'[i].do = "return" <=> i = Len(plan')
                 /\ plan'[i].do \in {"delete", "restore", "log", "return"}
                 /\ StepOK(plan'[i])
                 /\ plan'[i].key = None => plan'[i].entries = {}
           /\ Target(s) \in State
           /\ \A k \in Keys : RollbackPart(Target(s), k)
           /\ call' = [op |-> "rollback", bound |-> bound, target |-> Target(s), missed |-> {}]
           /\ call' \in Mutations
           /\ plan = << >> /\ call = None /\ Room' /\ (call' = None <=> Idle')
           /\ UNCHANGED <<rows, root, logged, events, captures, snaps, faults, torn, cut, purged>>
           /\ cachedRoot' = root /\ UNCHANGED <<oplog, preview, writes>>
<1> DEFINE target == Target(s)
           AwaySet == Held(rows) \ Held(target)
           BackSet == {k \in Held(target) : rows[k] # target[k]}
           mutation == [op |-> "rollback", bound |-> bound, target |-> target, missed |-> {}]
<1>1. PICK away \in Orders(AwaySet), back \in Orders(BackSet) : Begin(mutation, RollbackSteps(target, away, back))
  BY DEF Rollback
<1>2. target \in State /\ rows \in State
  BY DEF Rollback, Readable, TypeInv, TypeOK, Target, Snapshots
<1>3. /\ IsFiniteSet(AwaySet) /\ IsFiniteSet(BackSet)
      /\ \A k \in Keys : k \in AwaySet <=> rows[k] # Absent /\ target[k] = Absent
      /\ \A k \in Keys : k \in BackSet <=> target[k] # Absent /\ rows[k] # target[k]
      /\ AwaySet \subseteq Keys /\ BackSet \subseteq Keys
  <2>1. AwaySet \subseteq Keys /\ BackSet \subseteq Keys
    BY DEF Held
  <2>. QED  BY <2>1, FiniteAssumption, FS_Subset DEF Held
<1> DEFINE a == Len(away)
           b == Len(back)
           one == [i \in 1..2 * a |->
                     IF i % 2 = 1 THEN Do("delete", away[(i + 1) \div 2], {})
                     ELSE Do("log", away[(i + 1) \div 2], Some(rows[away[(i + 1) \div 2]]) \cup Some(target[away[(i + 1) \div 2]]))]
           two == [i \in 1..2 * b |->
                     IF i % 2 = 1 THEN Do("restore", back[(i + 1) \div 2], {target[back[(i + 1) \div 2]]})
                     ELSE Do("log", back[(i + 1) \div 2], Some(rows[back[(i + 1) \div 2]]) \cup Some(target[back[(i + 1) \div 2]]))]
           end == << Do("log", None, {}), Do("return", None, {}) >>
           steps == one \o two \o end
<1>4. RollbackSteps(target, away, back) = steps
  BY DEF RollbackSteps, Each
<1>5. /\ a \in Nat /\ DOMAIN away = 1..a /\ \A i \in 1..a : away[i] \in AwaySet
      /\ \A k \in AwaySet : \E i \in 1..a : away[i] = k
      /\ \A i, j \in 1..a : away[i] = away[j] => i = j
  <2>1. away \in Orders(AwaySet) /\ IsFiniteSet(AwaySet)
    BY <1>3
  <2>. HIDE DEF AwaySet
  <2>. QED  BY <2>1, OrderFacts
<1>6. /\ b \in Nat /\ DOMAIN back = 1..b /\ \A i \in 1..b : back[i] \in BackSet
      /\ \A k \in BackSet : \E i \in 1..b : back[i] = k
      /\ \A i, j \in 1..b : back[i] = back[j] => i = j
  <2>1. back \in Orders(BackSet) /\ IsFiniteSet(BackSet)
    BY <1>3
  <2>. HIDE DEF BackSet
  <2>. QED  BY <2>1, OrderFacts
<1>7. \A k \in Keys : /\ Do("delete", k, {}) \in Steps
                      /\ (target[k] # Absent => Do("restore", k, {target[k]}) \in Steps)
                      /\ Do("log", k, Some(rows[k]) \cup Some(target[k])) \in Steps
                      /\ Some(rows[k]) \cup Some(target[k]) \in SUBSET Entries
                      /\ (target[k] # Absent => {target[k]} \in SUBSET Entries)
  <2>. TAKE k \in Keys
  <2>1. rows[k] \in Entries \cup {Absent} /\ target[k] \in Entries \cup {Absent}
    BY <1>2 DEF State
  <2>2. Some(rows[k]) \cup Some(target[k]) \in SUBSET Entries
    BY <2>1 DEF Some
  <2>. HIDE DEF target
  <2>. QED  BY <2>1, <2>2 DEF Do, Kinds, Steps
<1>. HIDE DEF target, AwaySet, BackSet, a, b
<1>8. \A i \in 1..2 * a : (i + 1) \div 2 \in 1..a
  BY <1>5
<1>9. \A i \in 1..2 * b : (i + 1) \div 2 \in 1..b
  BY <1>6
<1>10. one \in Seq(Steps) /\ Len(one) = 2 * a
  <2>1. one \in [1..2 * a -> Steps]
    <3>1. ASSUME NEW k \in AwaySet
          PROVE  Do("delete", k, {}) \in Steps /\ Do("log", k, Some(rows[k]) \cup Some(target[k])) \in Steps
      BY <1>3, <1>7
    <3>2. \A i \in 1..2 * a : away[(i + 1) \div 2] \in AwaySet
      BY <1>5, <1>8
    <3>. QED  BY <3>1, <3>2
  <2>2. 2 * a \in Nat
    BY <1>5
  <2>. HIDE DEF one
  <2>3. one \in Seq(Steps)
    BY <2>1, <2>2, SeqDef
  <2>4. Len(one) \in Nat /\ 1..Len(one) = 1..2 * a
    BY <2>1, <2>3, LenProperties
  <2>. QED  BY <2>2, <2>3, <2>4
<1>11. two \in Seq(Steps) /\ Len(two) = 2 * b
  <2>1. two \in [1..2 * b -> Steps]
    <3>1. ASSUME NEW k \in BackSet
          PROVE  Do("restore", k, {target[k]}) \in Steps /\ Do("log", k, Some(rows[k]) \cup Some(target[k])) \in Steps
      BY <1>3, <1>7
    <3>2. \A i \in 1..2 * b : back[(i + 1) \div 2] \in BackSet
      BY <1>6, <1>9
    <3>. QED  BY <3>1, <3>2
  <2>2. 2 * b \in Nat
    BY <1>6
  <2>. HIDE DEF two
  <2>3. two \in Seq(Steps)
    BY <2>1, <2>2, SeqDef
  <2>4. Len(two) \in Nat /\ 1..Len(two) = 1..2 * b
    BY <2>1, <2>3, LenProperties
  <2>. QED  BY <2>2, <2>3, <2>4
<1>12. end \in Seq(Steps) /\ Len(end) = 2 /\ end[1] = Do("log", None, {}) /\ end[2] = Do("return", None, {})
  <2>1. Do("log", None, {}) \in Steps /\ Do("return", None, {}) \in Steps
    BY DEF Do, Kinds, Steps
  <2>. QED  BY <2>1
<1>13. \A i \in 1..a : /\ 2 * i - 1 \in 1..2 * a /\ 2 * i \in 1..2 * a
                       /\ one[2 * i - 1] = Do("delete", away[i], {})
                       /\ one[2 * i] = Do("log", away[i], Some(rows[away[i]]) \cup Some(target[away[i]]))
  <2>. TAKE i \in 1..a
  <2>1. 2 * i - 1 \in 1..2 * a /\ 2 * i \in 1..2 * a
    BY <1>5
  <2>2. /\ (2 * i - 1) % 2 = 1 /\ ((2 * i - 1) + 1) \div 2 = i
        /\ (2 * i) % 2 = 0 /\ (2 * i + 1) \div 2 = i
    BY <1>5
  <2>3. one[2 * i - 1] = Do("delete", away[((2 * i - 1) + 1) \div 2], {})
    BY <2>1, <2>2
  <2>4. one[2 * i] = Do("log", away[(2 * i + 1) \div 2], Some(rows[away[(2 * i + 1) \div 2]]) \cup Some(target[away[(2 * i + 1) \div 2]]))
    BY <2>1, <2>2
  <2>. HIDE DEF one
  <2>. QED  BY <2>1, <2>2, <2>3, <2>4
<1>14. \A i \in 1..b : /\ 2 * i - 1 \in 1..2 * b /\ 2 * i \in 1..2 * b
                       /\ two[2 * i - 1] = Do("restore", back[i], {target[back[i]]})
                       /\ two[2 * i] = Do("log", back[i], Some(rows[back[i]]) \cup Some(target[back[i]]))
  <2>. TAKE i \in 1..b
  <2>1. 2 * i - 1 \in 1..2 * b /\ 2 * i \in 1..2 * b
    BY <1>6
  <2>2. /\ (2 * i - 1) % 2 = 1 /\ ((2 * i - 1) + 1) \div 2 = i
        /\ (2 * i) % 2 = 0 /\ (2 * i + 1) \div 2 = i
    BY <1>6
  <2>3. two[2 * i - 1] = Do("restore", back[((2 * i - 1) + 1) \div 2], {target[back[((2 * i - 1) + 1) \div 2]]})
    BY <2>1, <2>2
  <2>4. two[2 * i] = Do("log", back[(2 * i + 1) \div 2], Some(rows[back[(2 * i + 1) \div 2]]) \cup Some(target[back[(2 * i + 1) \div 2]]))
    BY <2>1, <2>2
  <2>. HIDE DEF two
  <2>. QED  BY <2>1, <2>2, <2>3, <2>4
<1>. HIDE DEF one, two, end
<1> DEFINE both == one \o two
<1>15. both \in Seq(Steps) /\ Len(both) = 2 * a + 2 * b
       /\ \A i \in 1..2 * a + 2 * b : both[i] = IF i <= 2 * a THEN one[i] ELSE two[i - 2 * a]
  <2>1. both \in Seq(Steps) /\ Len(both) = Len(one) + Len(two)
        /\ \A i \in 1..Len(one) + Len(two) : both[i] = IF i <= Len(one) THEN one[i] ELSE two[i - Len(one)]
    BY <1>10, <1>11, ConcatProperties
  <2>. HIDE DEF both
  <2>. QED  BY <1>10, <1>11, <2>1
<1>. HIDE DEF both
<1>16. /\ steps \in Seq(Steps) /\ Len(steps) = 2 * a + 2 * b + 2 /\ DOMAIN steps = 1..2 * a + 2 * b + 2
       /\ \A i \in 1..2 * a + 2 * b + 2 : steps[i] = IF i <= 2 * a + 2 * b THEN both[i] ELSE end[i - (2 * a + 2 * b)]
  <2>1. steps \in Seq(Steps) /\ Len(steps) = Len(both) + Len(end)
        /\ \A i \in 1..Len(both) + Len(end) : steps[i] = IF i <= Len(both) THEN both[i] ELSE end[i - Len(both)]
    <3>1. both \in Seq(Steps) /\ end \in Seq(Steps)
      BY <1>12, <1>15
    <3>2. steps = both \o end
      BY DEF both
    <3>. HIDE DEF steps
    <3>. QED  BY <3>1, <3>2, ConcatProperties
  <2>. HIDE DEF steps
  <2>2. DOMAIN steps = 1..Len(steps)
    BY <2>1, LenProperties
  <2>. QED  BY <1>12, <1>15, <2>1, <2>2
<1>17. mutation \in Mutations
  BY <1>2 DEF Mutations
<1>18. /\ plan = << >> /\ call = None /\ plan' = steps /\ call' = mutation
       /\ UNCHANGED <<rows, root, logged, events, captures, snaps, faults, torn, cut, purged>>
       /\ Room' /\ (call' = None <=> Idle')
  <2>1. Begin(mutation, steps)
    BY <1>1, <1>4
  <2>. HIDE DEF steps, mutation
  <2>2. steps # << >>
    BY <1>5, <1>6, <1>16, EmptySeq
  <2>. QED  BY <1>17, <2>1, <2>2, BeginFacts
<1>. HIDE DEF steps
<1>19. \A i \in 1..a : /\ 2 * i - 1 \in DOMAIN steps /\ 2 * i \in DOMAIN steps
                       /\ steps[2 * i - 1] = Do("delete", away[i], {})
                       /\ steps[2 * i] = Do("log", away[i], Some(rows[away[i]]) \cup Some(target[away[i]]))
  <2>. TAKE i \in 1..a
  <2>1. /\ 2 * i - 1 \in 1..2 * a /\ 2 * i \in 1..2 * a
        /\ 2 * i - 1 \in 1..2 * a + 2 * b /\ 2 * i \in 1..2 * a + 2 * b
        /\ 2 * i - 1 \in 1..2 * a + 2 * b + 2 /\ 2 * i \in 1..2 * a + 2 * b + 2
        /\ 2 * i - 1 <= 2 * a /\ 2 * i <= 2 * a /\ 2 * i - 1 <= 2 * a + 2 * b /\ 2 * i <= 2 * a + 2 * b
    BY <1>5, <1>6
  <2>2. both[2 * i - 1] = one[2 * i - 1] /\ both[2 * i] = one[2 * i]
    BY <1>15, <2>1
  <2>3. steps[2 * i - 1] = both[2 * i - 1] /\ steps[2 * i] = both[2 * i]
    BY <1>16, <2>1
  <2>. QED  BY <1>13, <1>16, <2>1, <2>2, <2>3
<1>20. \A i \in 1..b : /\ 2 * a + (2 * i - 1) \in DOMAIN steps /\ 2 * a + 2 * i \in DOMAIN steps
                       /\ steps[2 * a + (2 * i - 1)] = Do("restore", back[i], {target[back[i]]})
                       /\ steps[2 * a + 2 * i] = Do("log", back[i], Some(rows[back[i]]) \cup Some(target[back[i]]))
  <2>. TAKE i \in 1..b
  <2>1. /\ 2 * a + (2 * i - 1) \in 1..2 * a + 2 * b /\ 2 * a + 2 * i \in 1..2 * a + 2 * b
        /\ 2 * a + (2 * i - 1) \in 1..2 * a + 2 * b + 2 /\ 2 * a + 2 * i \in 1..2 * a + 2 * b + 2
        /\ ~(2 * a + (2 * i - 1) <= 2 * a) /\ ~(2 * a + 2 * i <= 2 * a)
        /\ 2 * a + (2 * i - 1) <= 2 * a + 2 * b /\ 2 * a + 2 * i <= 2 * a + 2 * b
        /\ (2 * a + (2 * i - 1)) - 2 * a = 2 * i - 1 /\ (2 * a + 2 * i) - 2 * a = 2 * i
    BY <1>5, <1>6
  <2>2. both[2 * a + (2 * i - 1)] = two[2 * i - 1] /\ both[2 * a + 2 * i] = two[2 * i]
    BY <1>15, <2>1
  <2>3. steps[2 * a + (2 * i - 1)] = both[2 * a + (2 * i - 1)] /\ steps[2 * a + 2 * i] = both[2 * a + 2 * i]
    BY <1>16, <2>1
  <2>. QED  BY <1>14, <1>16, <2>1, <2>2, <2>3
<1>21. /\ steps[2 * a + 2 * b + 1] = Do("log", None, {})
       /\ steps[2 * a + 2 * b + 2] = Do("return", None, {})
  <2>1. /\ 2 * a + 2 * b + 1 \in 1..2 * a + 2 * b + 2 /\ 2 * a + 2 * b + 2 \in 1..2 * a + 2 * b + 2
        /\ ~(2 * a + 2 * b + 1 <= 2 * a + 2 * b) /\ ~(2 * a + 2 * b + 2 <= 2 * a + 2 * b)
        /\ (2 * a + 2 * b + 1) - (2 * a + 2 * b) = 1 /\ (2 * a + 2 * b + 2) - (2 * a + 2 * b) = 2
    BY <1>5, <1>6
  <2>2. steps[2 * a + 2 * b + 1] = end[1] /\ steps[2 * a + 2 * b + 2] = end[2]
    BY <1>16, <2>1
  <2>. QED  BY <1>12, <2>2
<1>22. \A j \in DOMAIN steps : \/ \E i \in 1..a : j = 2 * i - 1 \/ j = 2 * i
                               \/ \E i \in 1..b : j = 2 * a + (2 * i - 1) \/ j = 2 * a + 2 * i
                               \/ j = 2 * a + 2 * b + 1 \/ j = 2 * a + 2 * b + 2
  <2>. TAKE j \in DOMAIN steps
  <2>1. j \in 1..2 * a + 2 * b + 2
    BY <1>16
  <2>2. CASE j <= 2 * a
    <3>1. (j + 1) \div 2 \in 1..a /\ (j = 2 * ((j + 1) \div 2) - 1 \/ j = 2 * ((j + 1) \div 2))
      BY <1>5, <2>1, <2>2
    <3>. QED  BY <3>1
  <2>3. CASE 2 * a < j /\ j <= 2 * a + 2 * b
    <3> DEFINE l == j - 2 * a
    <3>0. l \in 1..2 * b
      BY <1>5, <1>6, <2>1, <2>3
    <3>2. j = 2 * a + l
      BY <1>5, <2>1
    <3>. HIDE DEF l
    <3>1. (l + 1) \div 2 \in 1..b /\ (l = 2 * ((l + 1) \div 2) - 1 \/ l = 2 * ((l + 1) \div 2))
      BY <1>6, <3>0
    <3>. QED  BY <3>1, <3>2
  <2>4. CASE 2 * a + 2 * b < j
    BY <1>5, <1>6, <2>1, <2>4
  <2>. QED  BY <1>5, <1>6, <2>1, <2>2, <2>3, <2>4
<1>23. /\ \A i \in 1..a : away[i] \in Keys /\ rows[away[i]] # Absent /\ target[away[i]] = Absent
       /\ \A i \in 1..b : back[i] \in Keys /\ target[back[i]] # Absent /\ rows[back[i]] # target[back[i]]
       /\ \A k \in Keys : \/ rows[k] = target[k]
                          \/ target[k] = Absent /\ \E i \in 1..a : away[i] = k
                          \/ target[k] # Absent /\ \E i \in 1..b : back[i] = k
       /\ None \notin Keys
  BY <1>3, <1>5, <1>6, NoneAssumption
<1>24. \A what, k, e : Do(what, k, e).do = what /\ Do(what, k, e).key = k /\ Do(what, k, e).entries = e
  BY DEF Do
<1>32. /\ \A i \in 1..a, j \in DOMAIN steps :
              /\ j = 2 * i - 1 => steps[j].do = "delete" /\ steps[j].key = away[i]
              /\ j = 2 * i => /\ steps[j].do = "log" /\ steps[j].key = away[i]
                              /\ steps[j].entries = Some(rows[away[i]]) \cup Some(target[away[i]])
       /\ \A i \in 1..b, j \in DOMAIN steps :
              /\ j = 2 * a + (2 * i - 1) => /\ steps[j].do = "restore" /\ steps[j].key = back[i]
                                            /\ steps[j].entries = {target[back[i]]}
              /\ j = 2 * a + 2 * i => /\ steps[j].do = "log" /\ steps[j].key = back[i]
                                      /\ steps[j].entries = Some(rows[back[i]]) \cup Some(target[back[i]])
  <2>1. ASSUME NEW i \in 1..a, NEW j \in DOMAIN steps
        PROVE /\ j = 2 * i - 1 => steps[j] = Do("delete", away[i], {})
              /\ j = 2 * i => steps[j] = Do("log", away[i], Some(rows[away[i]]) \cup Some(target[away[i]]))
    BY <1>19, <2>1
  <2>2. ASSUME NEW i \in 1..b, NEW j \in DOMAIN steps
        PROVE /\ j = 2 * a + (2 * i - 1) => steps[j] = Do("restore", back[i], {target[back[i]]})
              /\ j = 2 * a + 2 * i => steps[j] = Do("log", back[i], Some(rows[back[i]]) \cup Some(target[back[i]]))
    BY <1>20, <2>2
  <2>3. ASSUME NEW i \in 1..a, NEW j \in DOMAIN steps, j = 2 * i - 1
        PROVE  steps[j].do = "delete" /\ steps[j].key = away[i]
    <3>1. steps[j] = Do("delete", away[i], {})
      BY <2>1, <2>3
    <3>. QED  BY <1>24, <3>1
  <2>4. ASSUME NEW i \in 1..a, NEW j \in DOMAIN steps, j = 2 * i
        PROVE  /\ steps[j].do = "log" /\ steps[j].key = away[i]
               /\ steps[j].entries = Some(rows[away[i]]) \cup Some(target[away[i]])
    <3>1. steps[j] = Do("log", away[i], Some(rows[away[i]]) \cup Some(target[away[i]]))
      BY <2>1, <2>4
    <3>. QED  BY <1>24, <3>1
  <2>5. ASSUME NEW i \in 1..b, NEW j \in DOMAIN steps, j = 2 * a + (2 * i - 1)
        PROVE  /\ steps[j].do = "restore" /\ steps[j].key = back[i]
               /\ steps[j].entries = {target[back[i]]}
    <3>1. steps[j] = Do("restore", back[i], {target[back[i]]})
      BY <2>2, <2>5
    <3>. QED  BY <1>24, <3>1
  <2>6. ASSUME NEW i \in 1..b, NEW j \in DOMAIN steps, j = 2 * a + 2 * i
        PROVE  /\ steps[j].do = "log" /\ steps[j].key = back[i]
               /\ steps[j].entries = Some(rows[back[i]]) \cup Some(target[back[i]])
    <3>1. steps[j] = Do("log", back[i], Some(rows[back[i]]) \cup Some(target[back[i]]))
      BY <2>2, <2>6
    <3>. QED  BY <1>24, <3>1
  <2>. QED  BY <2>3, <2>4, <2>5, <2>6
<1>33. /\ \A i \in 1..a : Some(rows[away[i]]) \cup Some(target[away[i]]) \in SUBSET Entries
       /\ \A i \in 1..b : Some(rows[back[i]]) \cup Some(target[back[i]]) \in SUBSET Entries
       /\ \A i \in 1..b : {target[back[i]]} \in SUBSET Entries
  BY <1>7, <1>23
<1>25. ASSUME NEW k \in Keys  PROVE RollbackPart(target, k)
  <2>1. CASE rows[k] = target[k]
    <3>1. ASSUME NEW j \in DOMAIN steps  PROVE steps[j].key # k
      <4>1. CASE \E i \in 1..a : j = 2 * i - 1 \/ j = 2 * i
        BY <1>23, <1>32, <2>1, <4>1
      <4>2. CASE \E i \in 1..b : j = 2 * a + (2 * i - 1) \/ j = 2 * a + 2 * i
        BY <1>23, <1>32, <2>1, <4>2
      <4>3. CASE j = 2 * a + 2 * b + 1 \/ j = 2 * a + 2 * b + 2
        BY <1>21, <1>23, <1>24, <4>3
      <4>. QED  BY <1>22, <4>1, <4>2, <4>3
    <3>. QED  BY <1>18, <2>1, <3>1 DEF RollbackPart
  <2>2. CASE rows[k] # target[k] /\ target[k] = Absent
    <3>1. PICK i \in 1..a : away[i] = k
      BY <1>23, <2>2
    <3>2. /\ 2 * i - 1 \in DOMAIN steps /\ 2 * i \in DOMAIN steps /\ (2 * i - 1) + 1 = 2 * i
          /\ steps[2 * i - 1] = Do("delete", k, {}) /\ steps[2 * i] = Do("log", k, Some(rows[k]) \cup Some(target[k]))
      BY <1>5, <1>19, <3>1
    <3>3. ASSUME NEW j \in DOMAIN steps, steps[j].key = k  PROVE j = 2 * i - 1 \/ j = 2 * i
      <4>1. ASSUME NEW l \in 1..a, j = 2 * l - 1 \/ j = 2 * l  PROVE l = i
        <5>1. steps[j].key = away[l]
          BY <1>32, <4>1
        <5>. QED  BY <1>5, <3>1, <3>3, <5>1
      <4>2. ASSUME NEW l \in 1..b, j = 2 * a + (2 * l - 1) \/ j = 2 * a + 2 * l  PROVE FALSE
        <5>1. steps[j].key = back[l]
          BY <1>32, <4>2
        <5>. QED  BY <1>23, <2>2, <3>3, <5>1
      <4>3. CASE j = 2 * a + 2 * b + 1 \/ j = 2 * a + 2 * b + 2
        BY <1>21, <1>23, <1>24, <3>3, <4>3
      <4>. QED  BY <1>22, <4>1, <4>2, <4>3
    <3>4. /\ steps[2 * i - 1].key = k /\ steps[2 * i - 1].do = "delete" /\ steps[2 * i - 1].entries = Some(target[k])
          /\ steps[2 * i].key = k /\ steps[2 * i].do = "log" /\ steps[2 * i].entries = Some(rows[k]) \cup Some(target[k])
      BY <1>24, <2>2, <3>2 DEF Some
    <3>. QED  BY <1>18, <2>2, <3>2, <3>3, <3>4 DEF RollbackPart
  <2>3. CASE rows[k] # target[k] /\ target[k] # Absent
    <3>1. PICK i \in 1..b : back[i] = k
      BY <1>23, <2>3
    <3> DEFINE p == 2 * a + (2 * i - 1)
    <3>2. /\ p \in DOMAIN steps /\ p + 1 \in DOMAIN steps /\ p + 1 = 2 * a + 2 * i
          /\ steps[p] = Do("restore", k, {target[k]}) /\ steps[p + 1] = Do("log", k, Some(rows[k]) \cup Some(target[k]))
      <4>1. p + 1 = 2 * a + 2 * i
        BY <1>5, <1>6
      <4>2. /\ p \in DOMAIN steps /\ 2 * a + 2 * i \in DOMAIN steps
            /\ steps[p] = Do("restore", k, {target[k]})
            /\ steps[2 * a + 2 * i] = Do("log", k, Some(rows[k]) \cup Some(target[k]))
        BY <1>20, <3>1
      <4>. HIDE DEF p
      <4>. QED  BY <4>1, <4>2
    <3>3. ASSUME NEW j \in DOMAIN steps, steps[j].key = k  PROVE j = p \/ j = p + 1
      <4>1. ASSUME NEW l \in 1..b, j = 2 * a + (2 * l - 1) \/ j = 2 * a + 2 * l  PROVE l = i
        <5>1. steps[j].key = back[l]
          BY <1>32, <4>1
        <5>. QED  BY <1>6, <3>1, <3>3, <5>1
      <4>2. ASSUME NEW l \in 1..a, j = 2 * l - 1 \/ j = 2 * l  PROVE FALSE
        <5>1. steps[j].key = away[l]
          BY <1>32, <4>2
        <5>. QED  BY <1>23, <2>3, <3>3, <5>1
      <4>3. CASE j = 2 * a + 2 * b + 1 \/ j = 2 * a + 2 * b + 2
        BY <1>21, <1>23, <1>24, <3>3, <4>3
      <4>. QED  BY <1>22, <3>2, <4>1, <4>2, <4>3
    <3>. HIDE DEF p
    <3>4. /\ steps[p].key = k /\ steps[p].do = "restore" /\ steps[p].entries = Some(target[k])
          /\ steps[p + 1].key = k /\ steps[p + 1].do = "log" /\ steps[p + 1].entries = Some(rows[k]) \cup Some(target[k])
      BY <1>24, <2>3, <3>2 DEF Some
    <3>. QED  BY <1>18, <2>3, <3>2, <3>3, <3>4 DEF RollbackPart
  <2>. QED  BY <2>1, <2>2, <2>3
<1>26. ASSUME NEW j \in DOMAIN steps
       PROVE  /\ steps[j].do = "return" <=> j = Len(steps)
              /\ steps[j].do \in {"delete", "restore", "log", "return"}
              /\ StepOK(steps[j])
              /\ steps[j].key = None => steps[j].entries = {}
  <2>1. CASE \E i \in 1..a : j = 2 * i - 1 \/ j = 2 * i
    <3>1. PICK i \in 1..a : j = 2 * i - 1 \/ j = 2 * i
      BY <2>1
    <3>2. j # Len(steps) /\ away[i] \in Keys
      BY <1>5, <1>6, <1>16, <1>23, <3>1
    <3>3. CASE j = 2 * i - 1
      <4>1. steps[j].do = "delete" /\ steps[j].key = away[i]
        BY <1>32, <3>3
      <4>. QED  BY <1>23, <3>2, <4>1 DEF StepOK
    <3>4. CASE j = 2 * i
      <4>1. steps[j].do = "log" /\ steps[j].key = away[i] /\ steps[j].entries \in SUBSET Entries
        BY <1>32, <1>33, <3>2, <3>4
      <4>. QED  BY <1>23, <3>2, <4>1 DEF StepOK
    <3>. QED  BY <3>1, <3>3, <3>4
  <2>2. CASE \E i \in 1..b : j = 2 * a + (2 * i - 1) \/ j = 2 * a + 2 * i
    <3>1. PICK i \in 1..b : j = 2 * a + (2 * i - 1) \/ j = 2 * a + 2 * i
      BY <2>2
    <3>2. j # Len(steps) /\ back[i] \in Keys /\ target[back[i]] # Absent
      BY <1>5, <1>6, <1>16, <1>23, <3>1
    <3>3. CASE j = 2 * a + (2 * i - 1)
      <4>1. steps[j].do = "restore" /\ steps[j].key = back[i] /\ steps[j].entries = {target[back[i]]}
        BY <1>32, <3>3
      <4>2. steps[j].entries \in SUBSET Entries /\ steps[j].entries # {}
        BY <1>33, <4>1
      <4>. QED  BY <1>23, <3>2, <4>1, <4>2 DEF StepOK
    <3>4. CASE j = 2 * a + 2 * i
      <4>1. steps[j].do = "log" /\ steps[j].key = back[i] /\ steps[j].entries \in SUBSET Entries
        BY <1>32, <1>33, <3>2, <3>4
      <4>. QED  BY <1>23, <3>2, <4>1 DEF StepOK
    <3>. QED  BY <3>1, <3>3, <3>4
  <2>3. CASE j = 2 * a + 2 * b + 1
    <3>1. j # Len(steps)
      BY <1>5, <1>6, <1>16, <2>3
    <3>2. steps[j].do = "log" /\ steps[j].entries = {}
      BY <1>21, <1>24, <2>3
    <3>. QED  BY <3>1, <3>2 DEF StepOK
  <2>4. CASE j = 2 * a + 2 * b + 2
    <3>1. j = Len(steps)
      BY <1>16, <2>4
    <3>2. steps[j].do = "return" /\ steps[j].entries = {}
      BY <1>21, <1>24, <2>4
    <3>. QED  BY <3>1, <3>2 DEF StepOK
  <2>. QED  BY <1>22, <2>1, <2>2, <2>3, <2>4
<1>27. cachedRoot' = root /\ UNCHANGED <<oplog, preview, writes>>
  BY DEF Rollback
<1>28. plan' \in Seq(Steps) /\ Len(plan') \in Nat /\ DOMAIN plan' = 1..Len(plan')
  BY <1>16, <1>18, LenProperties
<1>29. \A i \in DOMAIN plan' :
          /\ plan'[i].do = "return" <=> i = Len(plan')
          /\ plan'[i].do \in {"delete", "restore", "log", "return"}
          /\ StepOK(plan'[i])
          /\ plan'[i].key = None => plan'[i].entries = {}
  BY <1>18, <1>26
<1>30. target = Target(s)
  BY DEF target
<1>. HIDE DEF mutation
<1>31. call' = [op |-> "rollback", bound |-> bound, target |-> Target(s), missed |-> {}] /\ call' \in Mutations
  BY <1>17, <1>18, <1>30 DEF mutation
<1>. QED  BY <1>2, <1>18, <1>25, <1>27, <1>28, <1>29, <1>30, <1>31

-----------------------------------------------------------------------------
(* Every step keeps the types *)

\* What a mutation leaves alone when it begins keeps its type.
LEMMA BeginType ==
    ASSUME TypeInv,
           UNCHANGED <<rows, root, logged, events, captures, snaps, faults, torn, cut, purged, preview>>,
           cachedRoot' \in 0..root, oplog' \in [Keys -> SUBSET Entries], writes' \in 0..MaxWrites,
           call' \in Mutations, call' = None <=> Idle'
    PROVE  TypeOK'
BY DEF TypeInv, TypeOK, State

\* A write keeps the types.
LEMMA WriteType == ASSUME TypeInv, NEW k \in Keys, Write(k)  PROVE TypeInv'
<1>1. writes' \in 0..MaxWrites
  BY WritePlan DEF Entries
<1>2. TypeOK'
  BY <1>1, WritePlan, BeginType DEF TypeInv, TypeOK
<1>3. PlanType'
  <2>1. /\ plan' \in Seq(Steps) /\ Len(plan') = 4 /\ DOMAIN plan' = 1..4
        /\ StepOK(plan'[1]) /\ StepOK(plan'[2]) /\ StepOK(plan'[3]) /\ StepOK(plan'[4])
    BY WritePlan, NoneAssumption DEF StepOK
  <2>2. /\ plan'[1].do = "save" /\ plan'[2].do = "event" /\ plan'[3].do = "log" /\ plan'[4].do = "return"
        /\ call'.op = "write"
    BY WritePlan
  <2>. QED  BY <2>1, <2>2 DEF PlanType, StepOK
<1>4. Room'
  BY WritePlan
<1>. QED  BY <1>2, <1>3, <1>4 DEF TypeInv

\* A confirmation keeps the types.
LEMMA ConfirmType == ASSUME TypeInv, NEW k \in Keys, Confirm(k)  PROVE TypeInv'
<1>1. writes' \in 0..MaxWrites
  BY ConfirmPlan DEF Entries
<1>2. TypeOK'
  BY <1>1, ConfirmPlan, BeginType DEF TypeInv, TypeOK, memory
<1>3. PlanType'
  <2>1. /\ plan' \in Seq(Steps) /\ Len(plan') = 3 /\ DOMAIN plan' = 1..3
        /\ StepOK(plan'[1]) /\ StepOK(plan'[2]) /\ StepOK(plan'[3])
    BY ConfirmPlan, NoneAssumption DEF StepOK
  <2>2. /\ plan'[1].do = "save" /\ plan'[2].do = "log" /\ plan'[3].do = "return" /\ call'.op = "write"
    BY ConfirmPlan
  <2>. QED  BY <2>1, <2>2 DEF PlanType, StepOK
<1>4. Room'
  BY ConfirmPlan
<1>. QED  BY <1>2, <1>3, <1>4 DEF TypeInv

\* A forget keeps the types.
LEMMA ForgetType == ASSUME TypeInv, NEW k \in Keys, Forget(k)  PROVE TypeInv'
<1>2. TypeOK'
  BY ForgetPlan, BeginType DEF TypeInv, TypeOK
<1>3. PlanType'
  <2>1. /\ plan' \in Seq(Steps) /\ Len(plan') = 4 /\ DOMAIN plan' = 1..4
        /\ StepOK(plan'[1]) /\ StepOK(plan'[2]) /\ StepOK(plan'[3]) /\ StepOK(plan'[4])
    BY ForgetPlan, NoneAssumption DEF StepOK
  <2>2. /\ plan'[1].do = "delete" /\ plan'[2].do = "log" /\ plan'[3].do = "log" /\ plan'[4].do = "return"
        /\ call'.op = "forget"
    BY ForgetPlan
  <2>. QED  BY <2>1, <2>2 DEF PlanType, StepOK
<1>4. Room'
  BY ForgetPlan
<1>. QED  BY <1>2, <1>3, <1>4 DEF TypeInv

\* A snapshot keeps the types.
LEMMA SnapshotType == ASSUME TypeInv, NEW s \in SnapIds, CreateSnapshot(s)  PROVE TypeInv'
<1>2. TypeOK'
  BY SnapshotPlan, BeginType DEF TypeInv, TypeOK
<1>3. PlanType'
  <2>1. /\ plan' \in Seq(Steps) /\ Len(plan') = 3 /\ DOMAIN plan' = 1..3
        /\ StepOK(plan'[1]) /\ StepOK(plan'[2]) /\ StepOK(plan'[3])
    BY SnapshotPlan DEF StepOK, TypeInv, TypeOK
  <2>2. /\ plan'[1].do = "create" /\ plan'[2].do = "fill" /\ plan'[3].do = "return" /\ call'.op = "snapshot"
    BY SnapshotPlan
  <2>. QED  BY <2>1, <2>2 DEF PlanType, StepOK
<1>4. Room'
  BY SnapshotPlan
<1>. QED  BY <1>2, <1>3, <1>4 DEF TypeInv

\* A purge keeps the types: its plan is well formed for any number of files.
LEMMA PurgeType == ASSUME TypeInv, NEW k \in Keys, Purge(k)  PROVE TypeInv'
<1>1. /\ \E f \in {0, 3}, r \in {0, 2}, n \in Nat : PurgeLayout(k, f, r, n)
      /\ call' = Call("purge", k) /\ call' \in Mutations /\ Room' /\ (call' = None <=> Idle')
      /\ UNCHANGED <<rows, root, logged, events, captures, snaps, faults, torn, cut, purged>>
      /\ UNCHANGED <<cachedRoot, oplog, preview, writes>>
  BY PurgePlan
<1>2. TypeOK'
  BY <1>1, BeginType DEF TypeInv, TypeOK
<1>3. PlanType'
  <2>1. PICK f \in {0, 3}, r \in {0, 2}, n \in Nat : PurgeLayout(k, f, r, n)
    BY <1>1
  <2>2. rows[k] # Absent => {rows[k]} \in SUBSET Entries
    BY DEF TypeInv, TypeOK, State
  <2>3. plan' \in Seq(Steps) /\ DOMAIN plan' = 1..f + r + n + 4 /\ Len(plan') = f + r + n + 4
    BY <2>1 DEF PurgeLayout
  <2>4. ASSUME NEW i \in 1..f + r + n + 4
        PROVE  /\ plan'[i].key = k /\ plan'[i].entries \in SUBSET Entries
               /\ plan'[i].do # "log" => plan'[i].entries = {}
               /\ plan'[i].do \in {"delete", "log", "redact", "captures", "receipt", "empty", "payloads", "scrub", "return"}
               /\ plan'[i].do = "return" <=> i = f + r + n + 4
               /\ plan'[i].do = "scrub" => plan'[i].snap \in Holding(k)
    <3>1. \/ i <= f \/ i = f + 1 \/ i = f + 2 \/ (r = 2 /\ (i = f + 3 \/ i = f + 4)) \/ i = f + r + 3
          \/ (f + r + 3 < i /\ i < f + r + n + 4) \/ i = f + r + n + 4
      OBVIOUS
    <3>2. /\ plan'[i].key = k
          /\ plan'[i].entries = IF f = 3 /\ i = 2 THEN {rows[k]} ELSE {}
          /\ i <= f => plan'[i].do = IF i = 1 THEN "delete" ELSE "log"
          /\ i = f + 1 => plan'[i].do = "redact"
          /\ i = f + 2 => plan'[i].do = "captures"
          /\ r = 2 /\ i = f + 3 => plan'[i].do = "receipt"
          /\ r = 2 /\ i = f + 4 => plan'[i].do = "empty"
          /\ i = f + r + 3 => plan'[i].do = "payloads"
          /\ f + r + 3 < i /\ i < f + r + n + 4 => plan'[i].do = "scrub" /\ plan'[i].snap \in Holding(k)
          /\ i = f + r + n + 4 => plan'[i].do = "return"
          /\ f = IF rows[k] # Absent THEN 3 ELSE 0
      BY <2>1 DEF PurgeLayout
    <3>3. plan'[i].key = k /\ plan'[i].entries \in SUBSET Entries
      BY <2>2, <3>2
    <3>4. plan'[i].do # "log" => plan'[i].entries = {}
      BY <3>2
    <3>5. plan'[i].do = "return" <=> i = f + r + n + 4
      BY <3>1, <3>2
    <3>6. plan'[i].do \in {"delete", "log", "redact", "captures", "receipt", "empty", "payloads", "scrub", "return"}
      BY <3>1, <3>2
    <3>7. plan'[i].do = "scrub" => plan'[i].snap \in Holding(k)
      BY <3>1, <3>2
    <3>. QED  BY <3>3, <3>4, <3>5, <3>6, <3>7
  <2>5. Holding(k) \subseteq SnapIds /\ \A s \in Holding(k) : snaps'[s] # None
    BY <1>1 DEF Holding, Readable
  <2>6. call'.op = "purge"
    BY <1>1 DEF Call
  <2>. QED  BY <2>3, <2>4, <2>5, <2>6, NoneAssumption DEF PlanType, StepOK
<1>. QED  BY <1>1, <1>2, <1>3 DEF TypeInv

\* A rollback keeps the types.
LEMMA RollbackType ==
    ASSUME TypeInv, NEW s \in SnapIds, NEW bound \in BOOLEAN, Rollback(s, bound)  PROVE TypeInv'
<1>2. TypeOK'
  BY RollbackPlan, BeginType DEF TypeInv, TypeOK
<1>3. PlanType'
  <2>1. call'.op = "rollback"
    BY RollbackPlan
  <2>2. /\ plan' \in Seq(Steps)
        /\ \A i \in DOMAIN plan' :
              /\ plan'[i].do = "return" <=> i = Len(plan')
              /\ plan'[i].do \in {"delete", "restore", "log", "return"}
              /\ StepOK(plan'[i])
    BY RollbackPlan
  <2>. QED  BY <2>1, <2>2 DEF PlanType, StepOK
<1>4. Room'
  BY RollbackPlan
<1>. QED  BY <1>2, <1>3, <1>4 DEF TypeInv

\* Every effect keeps the types.
LEMMA EffectType == ASSUME TypeInv, Effect  PROVE TypeInv'
<1>1. /\ plan # << >> /\ plan' = Tail(plan) /\ preview' = preview /\ writes' = writes /\ plan \in Seq(Steps)
      /\ Head(plan) \in Steps /\ StepOK(Head(plan))
      /\ (Head(plan).do = "return" /\ call.op = "purge" => Head(plan).key \in Keys)
      /\ (Head(plan).do = "return" <=> Len(plan) = 1)
  BY EffectTail, HeadOK DEF TypeInv, PlanType
<1>2. Room' /\ root' \in 0..MaxRoot /\ root \in Nat /\ root <= root'
  <2>1. /\ Cardinality(Auditing) \in Nat /\ Cardinality(Auditing') \in Nat
        /\ Cardinality(Auditing') = Cardinality(Auditing) - (IF Head(plan).do \in Audits THEN 1 ELSE 0)
    BY <1>1, TailAuditing
  <2>2. root' = IF Head(plan).do \in Audits THEN root + 1 ELSE root
    BY EffectLog
  <2>3. root \in Nat /\ root + Cardinality(Auditing) <= MaxRoot
    BY DEF TypeInv, TypeOK, Room
  <2>. QED  BY <2>1, <2>2, <2>3, BoundAssumption DEF Room
<1>3. cachedRoot' \in 0..root'
  BY <1>2, EffectLog DEF TypeInv, TypeOK
<1>4. call' \in Mutations \cup {None} /\ (call' = None <=> Idle')
  <2>1. plan' = << >> <=> Len(plan) = 1
    BY <1>1, TailFacts, EmptySeq
  <2>2. /\ call' = IF Head(plan).do = "return" THEN None ELSE call'
        /\ Head(plan).do # "return" => call' \in Mutations
    BY EffectCall
  <2>. QED  BY <1>1, <2>1, <2>2, NoneAssumption DEF Idle
<1>5. purged' \in [Keys -> 0..MaxWrites]
  BY <1>1, EffectCall DEF TypeInv, TypeOK
<1>6. TypeOK'
  <2>1. captures' \subseteq Keys /\ torn' \subseteq Keys /\ cut' \subseteq Keys /\ faults' \in 0..MaxFaults
    BY EffectTraces, EffectLog, EffectCall DEF TypeInv, TypeOK
  <2>2. logged' \in [Keys -> SUBSET Entries] /\ events' \in [Keys -> SUBSET Entries] /\ oplog' \in [Keys -> SUBSET Entries]
    BY EffectTraces, EffectLog
  <2>3. rows' \in State /\ snaps' \in [SnapIds -> Snapshots \cup {None}]
    BY EffectRows, EffectSnaps
  <2>4. preview' \in [snap : SnapIds, root : 0..MaxRoot, state : State \cup {None}] \cup {None} /\ writes' \in 0..MaxWrites
    BY <1>1 DEF TypeInv, TypeOK
  <2>. QED  BY <1>2, <1>3, <1>4, <1>5, <2>1, <2>2, <2>3, <2>4 DEF TypeOK
<1>7. PlanType'
  <2>1. /\ plan' \in Seq(Steps) /\ Len(plan) \in Nat /\ Len(plan') = Len(plan) - 1
        /\ \A i \in DOMAIN plan' : i \in Nat /\ i + 1 \in DOMAIN plan /\ plan'[i] = plan[i + 1]
    BY <1>1, TailFacts
  <2>2. \A i \in DOMAIN plan' : StepOK(plan'[i]) /\ (plan'[i].do = "return" <=> i = Len(plan'))
    BY <2>1 DEF TypeInv, PlanType
  <2>3. ASSUME NEW i \in DOMAIN plan'  PROVE call \in Mutations /\ call'.op = call.op
    <3>1. Len(plan) # 1 /\ Head(plan).do # "return"
      BY <1>1, <2>1, TailFacts
    <3>2. call \in Mutations /\ (call' = call \/ Refused)
      BY <3>1, EffectCall
    <3>3. Refused => call'.op = call.op
      BY <3>2 DEF Refused, Mutations
    <3>. QED  BY <3>2, <3>3
  <2>4. \A s \in SnapIds : snaps[s] # None => snaps'[s] # None
    BY EffectSnaps, NoneAssumption
  <2>5. ASSUME NEW i \in DOMAIN plan'
        PROVE  /\ plan'[i].do = "restore" => call'.op = "rollback"
               /\ plan'[i].do = "scrub" => snaps'[plan'[i].snap] # None
               /\ plan'[i].do = "return" /\ call'.op = "purge" => plan'[i].key \in Keys
    <3>1. i + 1 \in DOMAIN plan /\ plan'[i] = plan[i + 1] /\ StepOK(plan'[i]) /\ call'.op = call.op
      BY <2>1, <2>2, <2>3
    <3>. QED  BY <3>1, <2>4 DEF TypeInv, PlanType, StepOK
  <2>. QED  BY <2>1, <2>2, <2>5 DEF PlanType
<1>. QED  BY <1>2, <1>6, <1>7 DEF TypeInv

\* What a call that gives up, or a process that dies, leaves of the plan: nothing.
LEMMA CutShortFacts ==
    ASSUME TypeInv, CutShort
    PROVE  /\ plan' = << >> /\ call' = None /\ faults' \in 0..MaxFaults
           /\ cut' \subseteq Keys /\ torn \subseteq torn' /\ torn' \subseteq Keys
           /\ Unlogged \subseteq torn'
<1>1. cut' \subseteq Keys
  <2>1. CASE call # None /\ call.op = "purge"
    <3>1. call \in Mutations
      BY <2>1 DEF TypeInv, TypeOK
    <3>2. call.key \in Keys
      BY <2>1, <3>1 DEF Mutations
    <3>. QED  BY <2>1, <3>2 DEF CutShort, TypeInv, TypeOK
  <2>2. CASE ~(call # None /\ call.op = "purge")
    BY <2>2 DEF CutShort, TypeInv, TypeOK
  <2>. QED  BY <2>1, <2>2
<1>2. Unlogged \subseteq Keys
  <2>1. \A i \in DOMAIN plan : plan[i] \in Steps /\ StepOK(plan[i])
    BY DEF TypeInv, PlanType
  <2>2. \A i \in DOMAIN plan : plan[i].do = "log" /\ plan[i].entries # {} => plan[i].key \in Keys
    BY <2>1 DEF StepOK, Steps
  <2>. QED  BY <2>2 DEF Unlogged
<1>3. faults' \in 0..MaxFaults
  BY BoundAssumption DEF CutShort, TypeInv, TypeOK
<1>. QED  BY <1>1, <1>2, <1>3 DEF CutShort, TypeInv, TypeOK

\* With nothing to do, a plan has its type.
LEMMA NoPlan ==
    ASSUME plan' = << >>, root' = root, root \in 0..MaxRoot
    PROVE  PlanType' /\ Room'
<1>1. plan' \in Seq(Steps) /\ DOMAIN plan' = {}
  BY EmptySeq
<1>2. Auditing' = {}
  BY <1>1 DEF Auditing
<1>. QED  BY <1>1, <1>2, FS_EmptySet, BoundAssumption DEF PlanType, Room

\* So does a failure or the death of the process.
LEMMA FailType == ASSUME TypeInv, Fail \/ Restart  PROVE TypeInv'
<1>. USE DEF storage, memory
<1>1. CutShort /\ UNCHANGED <<rows, root, logged, events, captures, snaps, writes, purged>>
  BY DEF Fail, Restart
<1>2. PlanType' /\ Room'
  BY <1>1, CutShortFacts, NoPlan DEF TypeInv, TypeOK
<1>3. oplog' \in [Keys -> SUBSET Entries] /\ cachedRoot' \in 0..root'
      /\ preview' \in [snap : SnapIds, root : 0..MaxRoot, state : State \cup {None}] \cup {None}
  <2>1. CASE Fail
    BY <2>1 DEF Fail, TypeInv, TypeOK
  <2>2. CASE Restart
    BY <2>2 DEF Restart, TypeInv, TypeOK
  <2>. QED  BY <2>1, <2>2
<1>4. TypeOK'
  BY <1>1, <1>3, CutShortFacts DEF TypeInv, TypeOK, Idle
<1>. QED  BY <1>2, <1>4 DEF TypeInv

\* What does not touch the plan, the files, the call or the head of the chain keeps the plan's type.
LEMMA SamePlan ==
    ASSUME TypeInv, UNCHANGED <<plan, call, snaps, root>>
    PROVE  PlanType' /\ Room'
BY DEF TypeInv, PlanType, Room, Auditing

\* So do the calls without the lock.
LEMMA LocklessType ==
    ASSUME TypeInv,
           PreviewState \/ (\E s \in SnapIds : PreviewHead(s)) \/ (\E k \in Keys : CaptureRecall(k))
    PROVE  TypeInv'
<1>. USE DEF storage, memory, ghosts
<1>1. PlanType' /\ Room'
  BY SamePlan DEF PreviewState, PreviewHead, CaptureRecall
<1>2. CASE PreviewState
  <2>1. preview \in [snap : SnapIds, root : 0..MaxRoot, state : State \cup {None}] /\ rows \in State
    BY <1>2 DEF PreviewState, TypeInv, TypeOK
  <2>2. preview' \in [snap : SnapIds, root : 0..MaxRoot, state : State \cup {None}]
    BY <1>2, <2>1 DEF PreviewState
  <2>3. TypeOK'
    BY <1>2, <2>2 DEF PreviewState, TypeInv, TypeOK, Idle, State
  <2>. QED  BY <1>1, <2>3 DEF TypeInv
<1>3. ASSUME NEW s \in SnapIds, PreviewHead(s)  PROVE TypeInv'
  <2>1. preview' \in [snap : SnapIds, root : 0..MaxRoot, state : State \cup {None}]
    BY <1>3 DEF PreviewHead, TypeInv, TypeOK
  <2>2. TypeOK'
    BY <1>3, <2>1 DEF PreviewHead, TypeInv, TypeOK, Idle, State
  <2>. QED  BY <1>1, <2>2 DEF TypeInv
<1>4. ASSUME NEW k \in Keys, CaptureRecall(k)  PROVE TypeInv'
  <2>1. TypeOK'
    BY <1>4 DEF CaptureRecall, TypeInv, TypeOK, Idle, State
  <2>. QED  BY <1>1, <2>1 DEF TypeInv
<1>. QED  BY <1>2, <1>3, <1>4

\* So does the other process.
LEMMA OtherType == ASSUME TypeInv, NEW k \in Keys, OtherWrite(k)  PROVE TypeInv'
<1>. USE DEF memory
<1>1. plan = << >> /\ plan' = << >> /\ call' = call /\ root' = root + 1 /\ root' \in 0..MaxRoot
  BY BoundAssumption DEF OtherWrite, Idle, TypeInv, TypeOK
<1>2. writes' \in Entries /\ writes' = writes + 1
  BY BoundAssumption DEF OtherWrite, NewEntry, TypeInv, TypeOK, Entries
<1>3. rows' \in State /\ Some(rows[k]) \subseteq Entries
  BY <1>2 DEF OtherWrite, TypeInv, TypeOK, State, Some
<1>4. logged' \in [Keys -> SUBSET Entries]
  BY <1>2, <1>3 DEF OtherWrite, TypeInv, TypeOK
<1>5. TypeOK'
  BY <1>1, <1>2, <1>3, <1>4 DEF OtherWrite, TypeInv, TypeOK, Idle, State, Entries
<1>6. PlanType' /\ Room'
  <2>1. plan' \in Seq(Steps) /\ DOMAIN plan' = {}
    BY <1>1, EmptySeq
  <2>2. Auditing' = {}
    BY <2>1 DEF Auditing
  <2>. QED  BY <1>1, <2>1, <2>2, FS_EmptySet, BoundAssumption DEF PlanType, Room
<1>. QED  BY <1>5, <1>6 DEF TypeInv

\* They hold at the start.
LEMMA InitType == Init => TypeInv
<1>. SUFFICES ASSUME Init PROVE TypeInv
  OBVIOUS
<1>1. plan \in Seq(Steps) /\ DOMAIN plan = {}
  BY EmptySeq DEF Init
<1>2. Auditing = {}
  BY <1>1 DEF Auditing
<1>3. PlanType /\ Room
  BY <1>1, <1>2, FS_EmptySet, BoundAssumption DEF PlanType, Room, Init
<1>4. TypeOK
  BY BoundAssumption DEF Init, TypeOK, State, Idle
<1>. QED  BY <1>3, <1>4 DEF TypeInv

\* And after every step.
LEMMA NextType == TypeInv /\ [Next]_vars => TypeInv'
<1>. SUFFICES ASSUME TypeInv, [Next]_vars  PROVE TypeInv'
  OBVIOUS
<1>1. ASSUME NEW k \in Keys, Write(k) \/ Confirm(k) \/ Forget(k) \/ Purge(k) \/ OtherWrite(k)  PROVE TypeInv'
  BY <1>1, WriteType, ConfirmType, ForgetType, PurgeType, OtherType
<1>2. ASSUME NEW s \in SnapIds, CreateSnapshot(s) \/ \E bound \in BOOLEAN : Rollback(s, bound)  PROVE TypeInv'
  BY <1>2, SnapshotType, RollbackType
<1>3. CASE UNCHANGED vars
  BY <1>3 DEF vars, storage, memory, ghosts, TypeInv, TypeOK, PlanType, Room, Auditing, Idle, State
<1>4. CASE Effect
  BY <1>4, EffectType
<1>. QED  BY <1>1, <1>2, <1>3, <1>4, FailType, LocklessType DEF Next, Effect

\* Every variable keeps its type, however calls fail and processes die.
THEOREM TypeCorrect == Spec => []TypeOK
<1>1. TypeInv => TypeOK
  BY DEF TypeInv
<1>. QED  BY <1>1, InitType, NextType, PTL DEF Spec

-----------------------------------------------------------------------------
(* The audit log keeps up with the rows *)

\* A mutation changes a row once.
OneChange(k) == \A i, j \in Changing(k) : i = j

\* A change is followed by its audit row, which holds what was stored.
ChangeIsLogged(k) ==
    \A i \in Changing(k) :
        /\ \E j \in Pending({"log"}, k) : j > i /\ plan[j].entries # {}
        /\ plan[i].do # "delete" => \A j \in Pending({"log"}, k) : j > i => plan[i].entries \subseteq plan[j].entries

\* An audit row names what is stored when it is appended.
LogsCover(k) ==
    \A i \in Pending(Audits, k) :
        \/ rows[k] = Absent
        \/ rows[k] \in plan[i].entries
        \/ \E j \in Pending({"save", "delete"}, k) : j < i

\* What is stored is in the log, or will be, or is known to be missing from it.
RowIsLogged(k) ==
    \/ rows[k] = Absent
    \/ k \in torn
    \/ rows[k] \in logged[k]
    \/ Changing(k) = {} /\ \E i \in Pending({"log"}, k) : rows[k] \in plan[i].entries

\* A purge empties the audit rows when the row and the capture rows are gone and
\* everything is logged; and a row without values is not the first of a key.
PurgeOrder(k) ==
    /\ \A i \in Pending({"captures", "receipt", "empty"}, k) :
          /\ rows[k] = Absent \/ \E j \in Pending({"delete"}, k) : j < i
          /\ Pending({"save", "restore"}, k) = {}
    /\ \A i \in Pending({"receipt", "empty"}, k) :
          (k \notin captures /\ rows[k] = Absent) \/ \E j \in Pending({"captures"}, k) : j < i
    /\ \A i \in Pending({"log"}, k) :
          /\ plan[i].entries = {} => \/ logged[k] # {}
                                     \/ \E j \in Pending({"log"}, k) : j < i /\ plan[j].entries # {}
          /\ \A j \in Pending({"empty"}, k) : i < j

LogInv(k) == OneChange(k) /\ ChangeIsLogged(k) /\ LogsCover(k) /\ RowIsLogged(k) /\ PurgeOrder(k)

\* With no mutation running, a row is logged unless it is torn.
LEMMA IdleLogged ==
    ASSUME NEW k \in Keys, plan = << >>, RowIsLogged(k)
    PROVE  rows[k] = Absent \/ k \in torn \/ rows[k] \in logged[k]
BY DEF RowIsLogged, Pending

\* How an effect moves the plan and the row of a key.
LEMMA EffectMoves ==
    ASSUME TypeInv, Effect, NEW k \in Keys, NEW doing
    PROVE  /\ \A i \in Pending(doing, k)' : i \in Nat \ {0} /\ i + 1 \in Pending(doing, k) /\ plan'[i] = plan[i + 1]
           /\ \A i \in Pending(doing, k) : \/ i = 1 /\ Head(plan).do \in doing /\ Head(plan).key = k
                                           \/ i > 1 /\ i \in Nat /\ i - 1 \in Pending(doing, k)' /\ plan'[i - 1] = plan[i]
           /\ Head(plan).do \in doing /\ Head(plan).key = k => 1 \in Pending(doing, k)
           /\ Head(plan) = plan[1]
<1>1. plan \in Seq(Steps) /\ plan # << >> /\ plan' = Tail(plan)
  BY EffectTail DEF TypeInv, PlanType
<1>2. Pending(doing, k) \subseteq Nat /\ Head(plan) = plan[1]
  BY <1>1, TailFacts DEF Pending
<1>3. /\ \A i \in Pending(doing, k)' : i \in Nat \ {0} /\ i + 1 \in Pending(doing, k) /\ plan'[i] = plan[i + 1]
      /\ \A i \in Pending(doing, k) : \/ i = 1 /\ Head(plan).do \in doing /\ Head(plan).key = k
                                      \/ i > 1 /\ i - 1 \in Pending(doing, k)' /\ plan'[i - 1] = plan[i]
      /\ Head(plan).do \in doing /\ Head(plan).key = k => 1 \in Pending(doing, k)
  BY <1>1, TailPending
<1>. QED  BY <1>2, <1>3

\* Changes keep their audit rows behind them.
LEMMA EffectOrder ==
    ASSUME TypeInv, Effect, NEW k \in Keys, LogInv(k)
    PROVE  OneChange(k)' /\ ChangeIsLogged(k)'
<1>1. OneChange(k)'
  <2>1. \A i \in Changing(k)' : i \in Nat /\ i + 1 \in Changing(k)
    BY EffectMoves DEF Changing
  <2>. QED  BY <2>1 DEF LogInv, OneChange
<1>2. ASSUME NEW i \in Changing(k)'
      PROVE  /\ \E j \in Pending({"log"}, k)' : j > i /\ plan'[j].entries # {}
             /\ plan'[i].do # "delete" =>
                   \A j \in Pending({"log"}, k)' : j > i => plan'[i].entries \subseteq plan'[j].entries
  <2>1. i \in Nat /\ i + 1 \in Changing(k) /\ plan'[i] = plan[i + 1]
    BY EffectMoves DEF Changing
  <2>2. PICK j \in Pending({"log"}, k) : j > i + 1 /\ plan[j].entries # {}
    BY <2>1 DEF LogInv, ChangeIsLogged
  <2>3. j \in Nat /\ j - 1 \in Pending({"log"}, k)' /\ plan'[j - 1] = plan[j]
    BY <2>1, <2>2, EffectMoves
  <2>4. j - 1 > i
    BY <2>1, <2>2, <2>3
  <2>5. ASSUME plan'[i].do # "delete", NEW l \in Pending({"log"}, k)', l > i
        PROVE  plan'[i].entries \subseteq plan'[l].entries
    <3>1. l \in Nat /\ l + 1 \in Pending({"log"}, k) /\ plan'[l] = plan[l + 1]
      BY EffectMoves
    <3>2. l + 1 > i + 1
      BY <2>1, <2>5, <3>1
    <3>. QED  BY <2>1, <2>5, <3>1, <3>2 DEF LogInv, ChangeIsLogged
  <2>. QED  BY <2>2, <2>3, <2>4, <2>5
<1>. QED  BY <1>1, <1>2 DEF ChangeIsLogged

\* Audit rows keep naming what is stored.
LEMMA EffectCover ==
    ASSUME TypeInv, Effect, NEW k \in Keys, LogInv(k)
    PROVE  LogsCover(k)'
<1>1. SUFFICES ASSUME NEW i \in Pending(Audits, k)'
               PROVE  \/ rows'[k] = Absent
                      \/ rows'[k] \in plan'[i].entries
                      \/ \E j \in Pending({"save", "delete"}, k)' : j < i
  BY DEF LogsCover
<1>2. i \in Nat \ {0} /\ i + 1 \in Pending(Audits, k) /\ plan'[i] = plan[i + 1]
  BY EffectMoves
<1>3. CASE rows'[k] = rows[k] /\ (Head(plan).key # k \/ Head(plan).do \notin Changes \/ Refused)
  <2>1. \/ rows[k] = Absent \/ rows[k] \in plan[i + 1].entries
        \/ \E j \in Pending({"save", "delete"}, k) : j < i + 1
    BY <1>2 DEF LogInv, LogsCover
  <2>2. ASSUME NEW j \in Pending({"save", "delete"}, k), j < i + 1
        PROVE  j - 1 \in Pending({"save", "delete"}, k)' /\ j - 1 < i
    <3>1. ~(Head(plan).do \in {"save", "delete"} /\ Head(plan).key = k)
      BY <1>3 DEF Refused, Changes
    <3>2. j > 1 /\ j \in Nat /\ j - 1 \in Pending({"save", "delete"}, k)'
      BY <3>1, EffectMoves
    <3>. QED  BY <1>2, <2>2, <3>2
  <2>. QED  BY <1>2, <1>3, <2>1, <2>2
<1>4. CASE Head(plan).key = k /\ Head(plan).do \in {"save", "restore"} /\ rows'[k] \in Head(plan).entries
  <2>1. 1 \in Changing(k) /\ 1 \in Pending({"save", "restore"}, k) /\ Head(plan) = plan[1]
    BY <1>4, EffectMoves DEF Changing, Changes
  <2>2. i + 1 \notin Pending({"captures", "receipt", "empty"}, k)
    BY <2>1 DEF LogInv, PurgeOrder
  <2>3. i + 1 \in Pending({"log"}, k)
    BY <1>2, <2>2 DEF Pending, Audits
  <2>4. plan[1].entries \subseteq plan[i + 1].entries
    BY <1>2, <1>4, <2>1, <2>3 DEF LogInv, ChangeIsLogged
  <2>. QED  BY <1>2, <1>4, <2>1, <2>4
<1>. QED  BY <1>3, <1>4, EffectRows

\* A purge keeps its order.
LEMMA EffectPurgeOrder ==
    ASSUME TypeInv, Effect, NEW k \in Keys, LogInv(k)
    PROVE  PurgeOrder(k)'
<1>1. ASSUME NEW i \in Pending({"captures", "receipt", "empty"}, k)'
      PROVE  /\ rows'[k] = Absent \/ \E j \in Pending({"delete"}, k)' : j < i
             /\ Pending({"save", "restore"}, k)' = {}
             /\ rows[k] = Absent => rows'[k] = Absent
  <2>1. i \in Nat /\ i + 1 \in Pending({"captures", "receipt", "empty"}, k)
    BY EffectMoves
  <2>2. Pending({"save", "restore"}, k) = {}
    BY <2>1 DEF LogInv, PurgeOrder
  <2>3. Pending({"save", "restore"}, k)' = {} /\ ~(Head(plan).do \in {"save", "restore"} /\ Head(plan).key = k)
    BY <2>2, EffectMoves
  <2>4. rows'[k] = rows[k] \/ rows'[k] = Absent
    BY <2>3, EffectRows
  <2>5. ASSUME NEW j \in Pending({"delete"}, k), j < i + 1, rows'[k] # Absent
        PROVE  j - 1 \in Pending({"delete"}, k)' /\ j - 1 < i
    <3>1. ~(Head(plan).key = k /\ Head(plan).do = "delete")
      BY <2>5, EffectRows DEF Refused, Changes
    <3>2. j > 1 /\ j \in Nat /\ j - 1 \in Pending({"delete"}, k)'
      BY <3>1, EffectMoves
    <3>. QED  BY <2>1, <2>5, <3>2
  <2>6. rows[k] = Absent \/ \E j \in Pending({"delete"}, k) : j < i + 1
    BY <2>1 DEF LogInv, PurgeOrder
  <2>. QED  BY <2>3, <2>4, <2>5, <2>6
<1>2. ASSUME NEW i \in Pending({"receipt", "empty"}, k)'
      PROVE  (k \notin captures' /\ rows'[k] = Absent) \/ \E j \in Pending({"captures"}, k)' : j < i
  <2>1. i \in Nat /\ i + 1 \in Pending({"receipt", "empty"}, k) /\ i \in Pending({"captures", "receipt", "empty"}, k)'
    <3>1. i \in Pending({"captures", "receipt", "empty"}, k)'
      BY DEF Pending
    <3>. QED  BY <3>1, EffectMoves
  <2>2. (k \notin captures /\ rows[k] = Absent) \/ \E j \in Pending({"captures"}, k) : j < i + 1
    BY <2>1 DEF LogInv, PurgeOrder
  <2>3. rows[k] = Absent => rows'[k] = Absent
    BY <1>1, <2>1
  <2>4. k \notin captures => k \notin captures'
    BY EffectTraces
  <2>5. ASSUME NEW j \in Pending({"captures"}, k), j < i + 1
        PROVE  (k \notin captures' /\ rows'[k] = Absent) \/ (j - 1 \in Pending({"captures"}, k)' /\ j - 1 < i)
    <3>1. CASE Head(plan).do = "captures" /\ Head(plan).key = k
      <4>1. 1 \in Pending({"captures", "receipt", "empty"}, k)
        BY <3>1, EffectMoves
      <4>2. rows[k] = Absent
        <5>1. \A l \in Pending({"delete"}, k) : ~(l < 1)
          BY EffectMoves
        <5>. QED  BY <4>1, <5>1 DEF LogInv, PurgeOrder
      <4>. QED  BY <2>3, <3>1, <4>2, EffectTraces
    <3>2. CASE ~(Head(plan).do = "captures" /\ Head(plan).key = k)
      <4>1. j > 1 /\ j \in Nat /\ j - 1 \in Pending({"captures"}, k)'
        BY <3>2, EffectMoves
      <4>. QED  BY <2>1, <2>5, <4>1
    <3>. QED  BY <3>1, <3>2
  <2>. QED  BY <2>2, <2>3, <2>4, <2>5
<1>3. ASSUME NEW i \in Pending({"log"}, k)'
      PROVE  /\ plan'[i].entries = {} => \/ logged'[k] # {}
                                         \/ \E j \in Pending({"log"}, k)' : j < i /\ plan'[j].entries # {}
             /\ \A j \in Pending({"empty"}, k)' : i < j
  <2>1. i \in Nat /\ i + 1 \in Pending({"log"}, k) /\ plan'[i] = plan[i + 1]
    BY EffectMoves
  <2>2. ASSUME NEW j \in Pending({"empty"}, k)'  PROVE i < j
    <3>1. j \in Nat /\ j + 1 \in Pending({"empty"}, k)
      BY EffectMoves
    <3>2. i + 1 < j + 1
      BY <2>1, <3>1 DEF LogInv, PurgeOrder
    <3>. QED  BY <2>1, <3>1, <3>2
  <2>3. logged[k] # {} => logged'[k] # {}
    <3>1. ~(Head(plan).do = "empty" /\ Head(plan).key = k)
      <4>. SUFFICES ASSUME Head(plan).do = "empty" /\ Head(plan).key = k  PROVE FALSE
        OBVIOUS
      <4>1. 1 \in Pending({"empty"}, k)
        BY EffectMoves
      <4>2. i + 1 < 1
        BY <2>1, <4>1 DEF LogInv, PurgeOrder
      <4>. QED  BY <2>1, <4>2
    <3>. QED  BY <3>1, EffectLog
  <2>4. ASSUME NEW j \in Pending({"log"}, k), j < i + 1, plan[j].entries # {}
        PROVE  logged'[k] # {} \/ (j - 1 \in Pending({"log"}, k)' /\ j - 1 < i /\ plan'[j - 1].entries # {})
    <3>1. CASE j = 1 /\ Head(plan).do = "log" /\ Head(plan).key = k
      <4>1. logged'[k] = logged[k] \cup Head(plan).entries /\ Head(plan) = plan[j]
        BY <3>1, EffectLog, EffectMoves
      <4>. QED  BY <2>4, <4>1
    <3>2. CASE j > 1 /\ j \in Nat /\ j - 1 \in Pending({"log"}, k)' /\ plan'[j - 1] = plan[j]
      BY <2>1, <2>4, <3>2
    <3>. QED  BY <3>1, <3>2, EffectMoves
  <2>5. plan[i + 1].entries = {} => \/ logged[k] # {}
                                    \/ \E j \in Pending({"log"}, k) : j < i + 1 /\ plan[j].entries # {}
    BY <2>1 DEF LogInv, PurgeOrder
  <2>. QED  BY <2>1, <2>2, <2>3, <2>4, <2>5
<1>. QED  BY <1>1, <1>2, <1>3 DEF PurgeOrder

\* A row stays logged, or its audit row to come.
LEMMA EffectRowLogged ==
    ASSUME TypeInv, Effect, NEW k \in Keys, LogInv(k)
    PROVE  RowIsLogged(k)'
<1>1. CASE rows'[k] = rows[k] /\ rows[k] # Absent
  <2>1. CASE Head(plan).do \in Audits /\ Head(plan).key = k
    <3>1. 1 \in Pending(Audits, k) /\ Head(plan) = plan[1]
      BY <2>1, EffectMoves
    <3>2. \A j \in Pending({"save", "delete"}, k) : ~(j < 1)
      BY EffectMoves
    <3>3. rows[k] \in Head(plan).entries
      BY <1>1, <3>1, <3>2 DEF LogInv, LogsCover
    <3>4. Head(plan).do = "log"
      BY <2>1, <3>3, HeadOK, EffectTail DEF Audits, StepOK, TypeInv
    <3>5. rows[k] \in logged'[k]
      BY <2>1, <3>3, <3>4, EffectLog
    <3>. QED  BY <1>1, <3>5 DEF RowIsLogged
  <2>2. CASE ~(Head(plan).do \in Audits /\ Head(plan).key = k)
    <3>1. k \in torn => k \in torn'
      BY <2>2, EffectLog
    <3>2. rows[k] \in logged[k] => rows[k] \in logged'[k]
      <4>1. ~(Head(plan).do = "empty" /\ Head(plan).key = k)
        <5>. SUFFICES ASSUME Head(plan).do = "empty" /\ Head(plan).key = k  PROVE FALSE
          OBVIOUS
        <5>1. 1 \in Pending({"captures", "receipt", "empty"}, k)
          BY EffectMoves
        <5>2. \A l \in Pending({"delete"}, k) : ~(l < 1)
          BY EffectMoves
        <5>. QED  BY <1>1, <5>1, <5>2 DEF LogInv, PurgeOrder
      <4>. QED  BY <4>1, EffectLog
    <3>3. ASSUME Changing(k) = {}, NEW i \in Pending({"log"}, k), rows[k] \in plan[i].entries
          PROVE  Changing(k)' = {} /\ \E j \in Pending({"log"}, k)' : rows[k] \in plan'[j].entries
      <4>1. Changing(k)' = {}
        BY <3>3, EffectMoves DEF Changing
      <4>2. i - 1 \in Pending({"log"}, k)' /\ plan'[i - 1] = plan[i]
        BY <2>2, EffectMoves DEF Audits
      <4>. QED  BY <3>3, <4>1, <4>2
    <3>. QED  BY <1>1, <3>1, <3>2, <3>3 DEF LogInv, RowIsLogged
  <2>. QED  BY <2>1, <2>2
<1>2. CASE Head(plan).key = k /\ Head(plan).do \in {"save", "restore"} /\ rows'[k] \in Head(plan).entries
  <2>1. 1 \in Changing(k) /\ Head(plan) = plan[1]
    BY <1>2, EffectMoves DEF Changing, Changes
  <2>2. Changing(k)' = {}
    <3>1. \A i \in Changing(k)' : i \in Nat \ {0} /\ i + 1 \in Changing(k)
      BY EffectMoves DEF Changing
    <3>2. \A i \in Changing(k)' : i + 1 = 1
      BY <2>1, <3>1 DEF LogInv, OneChange
    <3>. QED  BY <3>1, <3>2
  <2>3. PICK j \in Pending({"log"}, k) : j > 1 /\ plan[1].entries \subseteq plan[j].entries
    BY <1>2, <2>1 DEF LogInv, ChangeIsLogged
  <2>4. j - 1 \in Pending({"log"}, k)' /\ plan'[j - 1] = plan[j]
    BY <2>3, EffectMoves
  <2>. QED  BY <1>2, <2>1, <2>2, <2>3, <2>4 DEF RowIsLogged
<1>3. CASE rows'[k] = Absent
  BY <1>3 DEF RowIsLogged
<1>. QED  BY <1>1, <1>2, <1>3, EffectRows

\* Together: every effect keeps the log in step.
LEMMA EffectLogInv ==
    ASSUME TypeInv, Effect, NEW k \in Keys, LogInv(k)  PROVE LogInv(k)'
BY EffectOrder, EffectCover, EffectPurgeOrder, EffectRowLogged DEF LogInv

\* A mutation that begins with a plan in which the audit rows are in order.
LEMMA BeginLogInv ==
    ASSUME NEW k \in Keys, LogInv(k), plan = << >>, UNCHANGED <<rows, logged, torn>>,
           OneChange(k)', ChangeIsLogged(k)', LogsCover(k)', PurgeOrder(k)'
    PROVE  LogInv(k)'
BY IdleLogged DEF LogInv, RowIsLogged

\* A write begins with its log in order.
LEMMA WriteLogInv == ASSUME TypeInv, NEW j \in Keys, Write(j), NEW k \in Keys, LogInv(k)  PROVE LogInv(k)'
<1>1. /\ DOMAIN plan' = 1..4
      /\ plan'[1].do = "save" /\ plan'[1].key = j /\ plan'[1].entries = {writes'}
      /\ plan'[2].do = "event" /\ plan'[2].key = j
      /\ plan'[3].do = "log" /\ plan'[3].key = j /\ plan'[3].entries = Some(rows[j]) \cup {writes'}
      /\ plan'[4].do = "return" /\ plan'[4].key = j
      /\ plan = << >> /\ UNCHANGED <<rows, logged, torn>>
  BY WritePlan
<1>2. /\ \A i \in Changing(k)' : i = 1 /\ k = j
      /\ \A i \in Pending(Audits, k)' : i = 3 /\ k = j
      /\ \A i \in Pending({"log"}, k)' : i = 3 /\ k = j
      /\ k = j => 3 \in Pending({"log"}, k)'
      /\ Pending({"captures", "receipt", "empty"}, k)' = {} /\ Pending({"receipt", "empty"}, k)' = {}
      /\ Pending({"empty"}, k)' = {}
  BY <1>1 DEF Pending, Changing, Changes, Audits
<1>3. rows'[k] = Absent \/ rows'[k] \in Some(rows[k])
  BY <1>1 DEF Some
<1>4. OneChange(k)' /\ ChangeIsLogged(k)'
  BY <1>1, <1>2 DEF OneChange, ChangeIsLogged
<1>5. LogsCover(k)' /\ PurgeOrder(k)'
  BY <1>1, <1>2, <1>3 DEF LogsCover, PurgeOrder
<1>. QED  BY <1>1, <1>4, <1>5, BeginLogInv

\* So does a confirmation,
LEMMA ConfirmLogInv == ASSUME TypeInv, NEW j \in Keys, Confirm(j), NEW k \in Keys, LogInv(k)  PROVE LogInv(k)'
<1>1. /\ DOMAIN plan' = 1..3
      /\ plan'[1].do = "save" /\ plan'[1].key = j /\ plan'[1].entries = {writes'}
      /\ plan'[2].do = "log" /\ plan'[2].key = j /\ plan'[2].entries = {rows[j], writes'}
      /\ plan'[3].do = "return" /\ plan'[3].key = j
      /\ plan = << >> /\ UNCHANGED <<rows, logged, torn>>
  BY ConfirmPlan
<1>2. /\ \A i \in Changing(k)' : i = 1 /\ k = j
      /\ \A i \in Pending(Audits, k)' : i = 2 /\ k = j
      /\ \A i \in Pending({"log"}, k)' : i = 2 /\ k = j
      /\ k = j => 2 \in Pending({"log"}, k)'
      /\ Pending({"captures", "receipt", "empty"}, k)' = {} /\ Pending({"receipt", "empty"}, k)' = {}
      /\ Pending({"empty"}, k)' = {}
  BY <1>1 DEF Pending, Changing, Changes, Audits
<1>. QED  BY <1>1, <1>2, BeginLogInv DEF OneChange, ChangeIsLogged, LogsCover, PurgeOrder

\* a forget,
LEMMA ForgetLogInv == ASSUME TypeInv, NEW j \in Keys, Forget(j), NEW k \in Keys, LogInv(k)  PROVE LogInv(k)'
<1>1. /\ DOMAIN plan' = 1..4
      /\ plan'[1].do = "delete" /\ plan'[1].key = j
      /\ plan'[2].do = "log" /\ plan'[2].key = j /\ plan'[2].entries = {rows[j]}
      /\ plan'[3].do = "log" /\ plan'[3].key = j /\ plan'[3].entries = {}
      /\ plan'[4].do = "return" /\ plan'[4].key = j
      /\ plan = << >> /\ UNCHANGED <<rows, logged, torn>>
  BY ForgetPlan
<1>2. /\ \A i \in Changing(k)' : i = 1 /\ k = j
      /\ \A i \in Pending(Audits, k)' : i \in {2, 3} /\ k = j
      /\ \A i \in Pending({"log"}, k)' : i \in {2, 3} /\ k = j
      /\ k = j => 2 \in Pending({"log"}, k)' /\ 1 \in Pending({"save", "delete"}, k)'
      /\ Pending({"captures", "receipt", "empty"}, k)' = {} /\ Pending({"receipt", "empty"}, k)' = {}
      /\ Pending({"empty"}, k)' = {}
  BY <1>1 DEF Pending, Changing, Changes, Audits
<1>3. plan'[2].entries # {} /\ plan'[1].do = "delete"
  BY <1>1
<1>4. CASE k = j
  <2>1. OneChange(k)' /\ ChangeIsLogged(k)'
    <3>1. \A i \in Changing(k)' : i = 1
      BY <1>2
    <3>2. 2 \in Pending({"log"}, k)' /\ 2 > 1
      BY <1>2, <1>4
    <3>. QED  BY <1>3, <3>1, <3>2 DEF OneChange, ChangeIsLogged
  <2>2. LogsCover(k)'
    <3>1. \A i \in Pending(Audits, k)' : 1 < i /\ 1 \in Pending({"save", "delete"}, k)'
      BY <1>2
    <3>. QED  BY <3>1 DEF LogsCover
  <2>3. PurgeOrder(k)'
    <3>1. \A i \in Pending({"log"}, k)' : i = 2 \/ (i = 3 /\ 2 \in Pending({"log"}, k)' /\ 2 < i)
      BY <1>2
    <3>. QED  BY <1>2, <1>3, <3>1 DEF PurgeOrder
  <2>. QED  BY <1>1, <2>1, <2>2, <2>3, BeginLogInv
<1>5. CASE k # j
  <2>1. Changing(k)' = {} /\ Pending(Audits, k)' = {} /\ Pending({"log"}, k)' = {}
    BY <1>2, <1>5
  <2>. QED  BY <1>1, <1>2, <2>1, BeginLogInv DEF OneChange, ChangeIsLogged, LogsCover, PurgeOrder
<1>. QED  BY <1>4, <1>5

\* a snapshot,
LEMMA SnapshotLogInv == ASSUME TypeInv, NEW s \in SnapIds, CreateSnapshot(s), NEW k \in Keys, LogInv(k)  PROVE LogInv(k)'
<1>1. /\ DOMAIN plan' = 1..3
      /\ plan'[1].do = "create" /\ plan'[2].do = "fill" /\ plan'[3].do = "return"
      /\ plan = << >> /\ UNCHANGED <<rows, logged, torn>>
  BY SnapshotPlan
<1>2. /\ Changing(k)' = {} /\ Pending(Audits, k)' = {} /\ Pending({"log"}, k)' = {}
      /\ Pending({"captures", "receipt", "empty"}, k)' = {} /\ Pending({"receipt", "empty"}, k)' = {}
  BY <1>1 DEF Pending, Changing, Changes, Audits
<1>. QED  BY <1>1, <1>2, BeginLogInv DEF OneChange, ChangeIsLogged, LogsCover, PurgeOrder

\* a purge,
LEMMA PurgeLogInv == ASSUME TypeInv, NEW j \in Keys, Purge(j), NEW k \in Keys, LogInv(k)  PROVE LogInv(k)'
<1>1. PICK f \in {0, 3}, r \in {0, 2}, n \in Nat : PurgeLayout(j, f, r, n)
  BY PurgePlan
<1>2. plan = << >> /\ UNCHANGED <<rows, logged, torn>>
  BY PurgePlan
<1>3. DOMAIN plan' = 1..f + r + n + 4 /\ f = IF rows[j] # Absent THEN 3 ELSE 0
  BY <1>1 DEF PurgeLayout
<1>4. ASSUME NEW i \in 1..f + r + n + 4
      PROVE  /\ plan'[i].key = j
             /\ plan'[i].do \in Changes => f = 3 /\ i = 1 /\ plan'[i].do = "delete"
             /\ plan'[i].do = "log" => f = 3 /\ i \in {2, 3}
             /\ plan'[i].do = "receipt" => r = 2 /\ i = f + 3
             /\ plan'[i].do = "empty" => r = 2 /\ i = f + 4
             /\ plan'[i].do = "captures" => i = f + 2
  <2>1. \/ i <= f \/ i = f + 1 \/ i = f + 2 \/ (r = 2 /\ (i = f + 3 \/ i = f + 4)) \/ i = f + r + 3
        \/ (f + r + 3 < i /\ i < f + r + n + 4) \/ i = f + r + n + 4
    OBVIOUS
  <2>2. /\ plan'[i].key = j
        /\ i <= f => plan'[i].do = IF i = 1 THEN "delete" ELSE "log"
        /\ i = f + 1 => plan'[i].do = "redact"
        /\ i = f + 2 => plan'[i].do = "captures"
        /\ r = 2 /\ i = f + 3 => plan'[i].do = "receipt"
        /\ r = 2 /\ i = f + 4 => plan'[i].do = "empty"
        /\ i = f + r + 3 => plan'[i].do = "payloads"
        /\ f + r + 3 < i /\ i < f + r + n + 4 => plan'[i].do = "scrub"
        /\ i = f + r + n + 4 => plan'[i].do = "return"
    BY <1>1 DEF PurgeLayout
  <2>3. f \in {0, 3} /\ (i <= f => f = 3 /\ i \in {1, 2, 3})
    OBVIOUS
  <2>. QED  BY <2>1, <2>2, <2>3 DEF Changes
<1>5. /\ f = 3 => plan'[1].do = "delete" /\ plan'[2].do = "log" /\ plan'[2].entries # {} /\ plan'[3].do = "log"
                  /\ 1 \in DOMAIN plan' /\ 2 \in DOMAIN plan' /\ 3 \in DOMAIN plan'
      /\ f + 2 \in DOMAIN plan' /\ plan'[f + 2].do = "captures"
  <2>1. /\ f = 3 => 1 \in 1..f + r + n + 4 /\ 2 \in 1..f + r + n + 4 /\ 3 \in 1..f + r + n + 4
        /\ f + 2 \in 1..f + r + n + 4
    OBVIOUS
  <2>2. ASSUME NEW i \in 1..f + r + n + 4
        PROVE  /\ plan'[i].entries = IF f = 3 /\ i = 2 THEN {rows[j]} ELSE {}
               /\ i <= f => plan'[i].do = IF i = 1 THEN "delete" ELSE "log"
               /\ i = f + 2 => plan'[i].do = "captures"
    BY <1>1 DEF PurgeLayout
  <2>3. f = 3 => plan'[1].do = "delete" /\ plan'[2].do = "log" /\ plan'[2].entries = {rows[j]} /\ plan'[3].do = "log"
    BY <2>1, <2>2
  <2>. QED  BY <1>3, <2>1, <2>2, <2>3
<1>6. ASSUME k = j  PROVE OneChange(k)' /\ ChangeIsLogged(k)' /\ LogsCover(k)' /\ PurgeOrder(k)'
  <2>1. /\ \A i \in Changing(k)' : i = 1 /\ f = 3 /\ plan'[i].do = "delete"
        /\ \A i \in Pending({"log"}, k)' : f = 3 /\ i \in {2, 3}
        /\ \A i \in Pending(Audits, k)' : (f = 3 /\ i \in {2, 3}) \/ i = f + 3
        /\ \A i \in Pending({"captures", "receipt", "empty"}, k)' : i \in {f + 2, f + 3, f + 4}
        /\ \A i \in Pending({"receipt", "empty"}, k)' : i \in {f + 3, f + 4}
        /\ \A i \in Pending({"empty"}, k)' : i = f + 4
        /\ Pending({"save", "restore"}, k)' = {}
    BY <1>3, <1>4 DEF Pending, Changing, Audits, Changes
  <2>2. /\ f = 3 => 2 \in Pending({"log"}, k)' /\ 1 \in Pending({"delete"}, k)' /\ 1 \in Pending({"save", "delete"}, k)'
        /\ f + 2 \in Pending({"captures"}, k)'
    BY <1>4, <1>5, <1>6, <1>3 DEF Pending
  <2>3. f = 0 => rows'[k] = Absent
    BY <1>2, <1>3, <1>6
  <2>4. OneChange(k)' /\ ChangeIsLogged(k)'
    BY <1>5, <2>1, <2>2 DEF OneChange, ChangeIsLogged
  <2>5. LogsCover(k)'
    BY <2>1, <2>2, <2>3 DEF LogsCover
  <2>6. PurgeOrder(k)'
    <3>1. ASSUME NEW i \in Pending({"captures", "receipt", "empty"}, k)'
          PROVE  rows'[k] = Absent \/ \E l \in Pending({"delete"}, k)' : l < i
      BY <2>1, <2>2, <2>3
    <3>2. ASSUME NEW i \in Pending({"receipt", "empty"}, k)'
          PROVE  \E l \in Pending({"captures"}, k)' : l < i
      BY <2>1, <2>2
    <3>3. ASSUME NEW i \in Pending({"log"}, k)'
          PROVE  /\ plan'[i].entries = {} => \E l \in Pending({"log"}, k)' : l < i /\ plan'[l].entries # {}
                 /\ \A l \in Pending({"empty"}, k)' : i < l
      BY <1>5, <2>1, <2>2
    <3>. QED  BY <2>1, <3>1, <3>2, <3>3 DEF PurgeOrder
  <2>. QED  BY <2>4, <2>5, <2>6
<1>7. ASSUME k # j  PROVE OneChange(k)' /\ ChangeIsLogged(k)' /\ LogsCover(k)' /\ PurgeOrder(k)'
  <2>1. /\ Changing(k)' = {} /\ Pending(Audits, k)' = {} /\ Pending({"log"}, k)' = {}
        /\ Pending({"captures", "receipt", "empty"}, k)' = {} /\ Pending({"receipt", "empty"}, k)' = {}
    BY <1>3, <1>4, <1>7 DEF Pending, Changing
  <2>. QED  BY <2>1 DEF OneChange, ChangeIsLogged, LogsCover, PurgeOrder
<1>. QED  BY <1>2, <1>6, <1>7, BeginLogInv

\* and a rollback.
LEMMA RollbackLogInv ==
    ASSUME TypeInv, NEW s \in SnapIds, NEW bound \in BOOLEAN, Rollback(s, bound), NEW k \in Keys, LogInv(k)
    PROVE  LogInv(k)'
<1>1. /\ DOMAIN plan' = 1..Len(plan') /\ Len(plan') \in Nat
      /\ \A i \in DOMAIN plan' : plan'[i].do \in {"delete", "restore", "log", "return"}
      /\ RollbackPart(Target(s), k)
      /\ plan = << >> /\ UNCHANGED <<rows, logged, torn>>
  BY RollbackPlan
<1>2. CASE rows[k] = Target(s)[k]
  <2>1. /\ Changing(k)' = {} /\ Pending(Audits, k)' = {} /\ Pending({"log"}, k)' = {}
        /\ Pending({"captures", "receipt", "empty"}, k)' = {} /\ Pending({"receipt", "empty"}, k)' = {}
    BY <1>1, <1>2 DEF RollbackPart, Pending, Changing
  <2>. QED  BY <1>1, <2>1, BeginLogInv DEF OneChange, ChangeIsLogged, LogsCover, PurgeOrder
<1>3. CASE rows[k] # Target(s)[k]
  <2>1. PICK i \in DOMAIN plan' :
            /\ i + 1 \in DOMAIN plan'
            /\ \A j \in DOMAIN plan' : plan'[j].key = k => j = i \/ j = i + 1
            /\ plan'[i].key = k /\ plan'[i + 1].key = k
            /\ IF Target(s)[k] = Absent THEN plan'[i].do = "delete" ELSE plan'[i].do = "restore"
            /\ plan'[i].entries = Some(Target(s)[k])
            /\ plan'[i + 1].do = "log" /\ plan'[i + 1].entries = Some(rows[k]) \cup Some(Target(s)[k])
    BY <1>1, <1>3 DEF RollbackPart
  <2>2. i \in Nat /\ plan'[i + 1].entries # {} /\ (rows'[k] = Absent \/ rows'[k] \in plan'[i + 1].entries)
    BY <1>1, <1>3, <2>1 DEF Some
  <2>3. /\ \A j \in Changing(k)' : j = i
        /\ \A j \in Pending(Audits, k)' : j = i + 1
        /\ \A j \in Pending({"log"}, k)' : j = i + 1
        /\ i + 1 \in Pending({"log"}, k)'
        /\ Pending({"captures", "receipt", "empty"}, k)' = {} /\ Pending({"receipt", "empty"}, k)' = {}
        /\ Pending({"empty"}, k)' = {}
    <3>1. plan'[i].do \in {"delete", "restore"} /\ plan'[i + 1].do = "log"
      BY <2>1
    <3>. QED  BY <1>1, <2>1, <3>1 DEF Pending, Changing, Changes, Audits
  <2>4. OneChange(k)' /\ ChangeIsLogged(k)' /\ LogsCover(k)' /\ PurgeOrder(k)'
    BY <2>1, <2>2, <2>3 DEF OneChange, ChangeIsLogged, LogsCover, PurgeOrder
  <2>. QED  BY <1>1, <2>4, BeginLogInv
<1>. QED  BY <1>2, <1>3

\* A call that is cut short leaves a row logged or torn.
LEMMA CutLogInv == ASSUME TypeInv, Fail \/ Restart, NEW k \in Keys, LogInv(k)  PROVE LogInv(k)'
<1>1. plan' = << >> /\ torn \subseteq torn' /\ Unlogged \subseteq torn' /\ UNCHANGED <<rows, logged>>
  BY CutShortFacts DEF Fail, Restart, storage
<1>2. \A doing : Pending(doing, k)' = {}
  BY <1>1 DEF Pending
<1>3. RowIsLogged(k)'
  <2>1. ASSUME Changing(k) = {}, NEW i \in Pending({"log"}, k), rows[k] \in plan[i].entries
        PROVE  k \in torn'
    BY <1>1, <2>1 DEF Unlogged, Pending, Changing, Changes
  <2>. QED  BY <1>1, <2>1 DEF LogInv, RowIsLogged
<1>. QED  BY <1>2, <1>3 DEF LogInv, OneChange, ChangeIsLogged, LogsCover, PurgeOrder, Changing

\* What takes no lock does not touch the log.
LEMMA LocklessLogInv ==
    ASSUME TypeInv, NEW k \in Keys, LogInv(k),
           PreviewState \/ (\E s \in SnapIds : PreviewHead(s)) \/ (\E j \in Keys : CaptureRecall(j))
           \/ UNCHANGED vars
    PROVE  LogInv(k)'
<1>. USE DEF storage, memory, ghosts, LogInv, OneChange, ChangeIsLogged, LogsCover, RowIsLogged, PurgeOrder, Changing, Pending
<1>1. CASE UNCHANGED <<rows, plan, logged, torn>> /\ (rows[k] # Absent \/ (k \in captures' => k \in captures))
  BY <1>1
<1>2. CASE PreviewState \/ \E s \in SnapIds : PreviewHead(s)
  BY <1>1, <1>2 DEF PreviewState, PreviewHead
<1>3. ASSUME NEW j \in Keys, CaptureRecall(j)  PROVE LogInv(k)'
  BY <1>1, <1>3 DEF CaptureRecall
<1>4. CASE UNCHANGED vars
  BY <1>1, <1>4 DEF vars
<1>. QED  BY <1>2, <1>3, <1>4

\* The other process logs what it stores.
LEMMA OtherLogInv == ASSUME TypeInv, NEW j \in Keys, OtherWrite(j), NEW k \in Keys, LogInv(k)  PROVE LogInv(k)'
<1>1. plan = << >> /\ plan' = << >>
  BY DEF OtherWrite, Idle
<1>2. \A doing : Pending(doing, k)' = {}
  BY <1>1 DEF Pending
<1>3. RowIsLogged(k)'
  <2>1. k # j => UNCHANGED <<rows[k], logged[k]>> /\ (k \in torn => k \in torn')
    BY DEF OtherWrite, TypeInv, TypeOK, State
  <2>2. k = j => rows'[k] \in logged'[k]
    BY DEF OtherWrite, TypeInv, TypeOK, State
  <2>. QED  BY <1>1, <2>1, <2>2, IdleLogged DEF LogInv, RowIsLogged
<1>. QED  BY <1>2, <1>3 DEF LogInv, OneChange, ChangeIsLogged, LogsCover, PurgeOrder, Changing

\* The log is in step after every step,
LEMMA NextLogInv == TypeInv /\ (\A k \in Keys : LogInv(k)) /\ [Next]_vars => (\A k \in Keys : LogInv(k))'
<1>. SUFFICES ASSUME TypeInv, [Next]_vars, NEW k \in Keys, LogInv(k)  PROVE LogInv(k)'
  OBVIOUS
<1>1. ASSUME NEW j \in Keys, Write(j) \/ Confirm(j) \/ Forget(j) \/ Purge(j) \/ OtherWrite(j)  PROVE LogInv(k)'
  BY <1>1, WriteLogInv, ConfirmLogInv, ForgetLogInv, PurgeLogInv, OtherLogInv
<1>2. ASSUME NEW s \in SnapIds, CreateSnapshot(s) \/ \E bound \in BOOLEAN : Rollback(s, bound)  PROVE LogInv(k)'
  BY <1>2, SnapshotLogInv, RollbackLogInv
<1>3. CASE Effect
  BY <1>3, EffectLogInv
<1>. QED  BY <1>1, <1>2, <1>3, CutLogInv, LocklessLogInv DEF Next, Effect

\* and at the start.
LEMMA InitLogInv == Init => \A k \in Keys : LogInv(k)
BY DEF Init, LogInv, OneChange, ChangeIsLogged, LogsCover, RowIsLogged, PurgeOrder, Changing, Pending

\* Between calls every stored entry is in the audit log, unless the call that stored
\* it was cut short before its audit row.
THEOREM LogShowsEveryRow == Spec => []RowsAreLogged
<1>1. (\A k \in Keys : LogInv(k)) => RowsAreLogged
  BY IdleLogged DEF RowsAreLogged, Idle, Held, LogInv
<1>. QED  BY <1>1, InitType, NextType, InitLogInv, NextLogInv, PTL DEF Spec

-----------------------------------------------------------------------------
(* What a rollback was asked for *)

\* A change of the key's row is made and its audit row, which names values, is not.
Awaited(k) == Changing(k) = {} /\ \E i \in Pending({"log"}, k) : plan[i].entries # {}

\* As long as the head of the chain is the one a preview saw, the state it showed is
\* what is stored, or an audit row is still to come, or never will.
PreviewCurrent(k) ==
    preview # None =>
        /\ preview.root <= root
        /\ preview.state # None /\ preview.root = root =>
              k \in torn \/ rows[k] = preview.state[k] \/ Awaited(k)

\* A rollback has brought a key to its target, or has missed it, or will still.
RollbackOnCourse(k) ==
    call # None /\ call.op = "rollback" =>
        /\ k \in call.missed \/ rows[k] = call.target[k] \/ Changing(k) # {}
        /\ \A i \in Changing(k) :
              \/ plan[i].do = "delete" /\ call.target[k] = Absent
              \/ plan[i].do = "restore" /\ plan[i].entries = {call.target[k]}

RollbackInv(k) == PreviewCurrent(k) /\ RollbackOnCourse(k)

\* With no mutation running, nothing is awaited.
LEMMA IdleAwaits == ASSUME plan = << >>, NEW k \in Keys  PROVE ~Awaited(k)
BY DEF Awaited, Pending

\* An effect that changes a row leaves its audit row to come.
LEMMA ChangeAwaits ==
    ASSUME TypeInv, Effect, NEW k \in Keys, LogInv(k), Head(plan).key = k, Head(plan).do \in Changes
    PROVE  Awaited(k)'
<1>1. 1 \in Changing(k) /\ \A i \in Changing(k)' : i \in Nat \ {0} /\ i + 1 \in Changing(k)
  BY EffectMoves DEF Changing
<1>2. Changing(k)' = {}
  <2>1. \A i \in Changing(k)' : i + 1 = 1
    BY <1>1 DEF LogInv, OneChange
  <2>. QED  BY <1>1, <2>1
<1>3. PICK j \in Pending({"log"}, k) : j > 1 /\ plan[j].entries # {}
  BY <1>1 DEF LogInv, ChangeIsLogged
<1>4. j - 1 \in Pending({"log"}, k)' /\ plan'[j - 1] = plan[j]
  BY <1>3, EffectMoves
<1>. QED  BY <1>2, <1>3, <1>4 DEF Awaited

\* An audit row that is awaited comes or is awaited still.
LEMMA AwaitedComes ==
    ASSUME TypeInv, Effect, NEW k \in Keys, Awaited(k)
    PROVE  Awaited(k)' \/ (Head(plan).do = "log" /\ Head(plan).key = k /\ Head(plan).entries # {})
<1>1. PICK i \in Pending({"log"}, k) : plan[i].entries # {}
  BY DEF Awaited
<1>2. Changing(k)' = {}
  BY EffectMoves DEF Awaited, Changing
<1>3. \/ Head(plan).do = "log" /\ Head(plan).key = k /\ Head(plan) = plan[i]
      \/ i - 1 \in Pending({"log"}, k)' /\ plan'[i - 1] = plan[i]
  BY EffectMoves
<1>. QED  BY <1>1, <1>2, <1>3 DEF Awaited

\* An audit row that never comes leaves its key torn.
LEMMA CutAwaited ==
    ASSUME TypeInv, Fail \/ Restart, NEW k \in Keys, Awaited(k)  PROVE k \in torn'
<1>1. Unlogged \subseteq torn'
  BY CutShortFacts DEF Fail, Restart
<1>2. k \in Unlogged
  BY DEF Unlogged, Awaited, Pending, Changing, Changes
<1>. QED  BY <1>1, <1>2

\* An effect makes a preview stale, or leaves it right.
LEMMA EffectPreview ==
    ASSUME TypeInv, Effect, NEW k \in Keys, LogInv(k), PreviewCurrent(k)
    PROVE  PreviewCurrent(k)'
<1>1. preview' = preview
  BY EffectTail
<1>2. SUFFICES ASSUME preview # None
               PROVE  /\ preview.root <= root'
                      /\ preview.state # None /\ preview.root = root' =>
                            k \in torn' \/ rows'[k] = preview.state[k] \/ Awaited(k)'
  BY <1>1 DEF PreviewCurrent
<1>3. preview.root \in Nat /\ root \in Nat /\ preview.root <= root
  BY <1>2 DEF TypeInv, TypeOK, PreviewCurrent
<1>4. CASE Head(plan).do \in Audits
  BY <1>3, <1>4, EffectLog
<1>5. CASE Head(plan).do \notin Audits
  <2>1. root' = root /\ torn' = torn
    BY <1>5, EffectLog
  <2>2. Awaited(k) => Awaited(k)'
    BY <1>5, AwaitedComes DEF Audits
  <2>3. rows'[k] = rows[k] \/ Awaited(k)'
    <3>1. rows'[k] # rows[k] => Head(plan).key = k /\ Head(plan).do \in Changes
      BY EffectRows DEF Changes
    <3>. QED  BY <3>1, ChangeAwaits
  <2>. QED  BY <1>2, <1>3, <2>1, <2>2, <2>3 DEF PreviewCurrent
<1>. QED  BY <1>4, <1>5

\* An effect keeps a rollback on its course.
LEMMA EffectRollback ==
    ASSUME TypeInv, Effect, NEW k \in Keys, RollbackOnCourse(k)
    PROVE  RollbackOnCourse(k)'
<1>1. SUFFICES ASSUME call' # None, call'.op = "rollback"
               PROVE  /\ k \in call'.missed \/ rows'[k] = call'.target[k] \/ Changing(k)' # {}
                      /\ \A i \in Changing(k)' :
                            \/ plan'[i].do = "delete" /\ call'.target[k] = Absent
                            \/ plan'[i].do = "restore" /\ plan'[i].entries = {call'.target[k]}
  BY DEF RollbackOnCourse
<1>2. call \in Mutations /\ (call' = call \/ Refused)
  BY <1>1, EffectCall
<1>3. Refused => call.op = "rollback"
  BY HeadOK, EffectTail DEF Refused, TypeInv
<1>4. call.op = "rollback" /\ call # None /\ call \in [op : {"rollback"}, bound : BOOLEAN, target : State, missed : SUBSET Keys]
  <2>1. call.op = "rollback"
    BY <1>1, <1>2, <1>3
  <2>. QED  BY <1>2, <2>1, NoneAssumption DEF Mutations
<1>5. call'.target = call.target /\ call.missed \subseteq call'.missed /\ (Refused => Head(plan).key \in call'.missed)
  BY <1>2, <1>4 DEF Refused
<1>6. \A i \in Changing(k) : \/ plan[i].do = "delete" /\ call.target[k] = Absent
                             \/ plan[i].do = "restore" /\ plan[i].entries = {call.target[k]}
  BY <1>4 DEF RollbackOnCourse
<1>7. ASSUME NEW i \in Changing(k)'
      PROVE  \/ plan'[i].do = "delete" /\ call'.target[k] = Absent
             \/ plan'[i].do = "restore" /\ plan'[i].entries = {call'.target[k]}
  <2>1. i + 1 \in Changing(k) /\ plan'[i] = plan[i + 1]
    BY EffectMoves DEF Changing
  <2>. QED  BY <1>5, <1>6, <2>1
<1>8. k \in call'.missed \/ rows'[k] = call'.target[k] \/ Changing(k)' # {}
  <2>1. CASE Head(plan).key = k /\ Head(plan).do \in Changes
    <3>1. 1 \in Changing(k) /\ Head(plan) = plan[1]
      BY <2>1, EffectMoves DEF Changing
    <3>2. \/ Head(plan).do = "delete" /\ call.target[k] = Absent
          \/ Head(plan).do = "restore" /\ Head(plan).entries = {call.target[k]}
      BY <1>6, <3>1
    <3>3. Refused \/ rows'[k] = call.target[k]
      BY <2>1, <3>2, EffectRows
    <3>. QED  BY <1>5, <2>1, <3>3
  <2>2. CASE ~(Head(plan).key = k /\ Head(plan).do \in Changes)
    <3>1. rows'[k] = rows[k]
      BY <2>2, EffectRows DEF Changes
    <3>2. \A i \in Changing(k) : i - 1 \in Changing(k)'
      BY <2>2, EffectMoves DEF Changing
    <3>3. k \in call.missed \/ rows[k] = call.target[k] \/ Changing(k) # {}
      BY <1>4 DEF RollbackOnCourse
    <3>. QED  BY <1>5, <3>1, <3>2, <3>3
  <2>. QED  BY <2>1, <2>2
<1>. QED  BY <1>7, <1>8

\* A mutation that begins changes nothing a preview could have shown.
LEMMA BeginPreview ==
    ASSUME NEW k \in Keys, PreviewCurrent(k), plan = << >>, UNCHANGED <<rows, root, torn, preview>>
    PROVE  PreviewCurrent(k)'
BY IdleAwaits DEF PreviewCurrent

\* Every step keeps previews and rollbacks right,
LEMMA NextRollback ==
    TypeInv /\ (\A k \in Keys : LogInv(k)) /\ (\A k \in Keys : RollbackInv(k)) /\ [Next]_vars
        => (\A k \in Keys : RollbackInv(k))'
<1>. SUFFICES ASSUME TypeInv, [Next]_vars, NEW k \in Keys, LogInv(k), RollbackInv(k)  PROVE RollbackInv(k)'
  OBVIOUS
<1>. USE DEF RollbackInv
<1>1. ASSUME NEW j \in Keys, Write(j) \/ Confirm(j) \/ Forget(j) \/ Purge(j)  PROVE RollbackInv(k)'
  <2>1. /\ plan = << >> /\ UNCHANGED <<rows, root, torn, preview>>
        /\ call' # None /\ call'.op \in {"write", "forget", "purge"}
    <3>1. CASE Write(j)
      BY <3>1, WritePlan, NoneAssumption
    <3>2. CASE Confirm(j)
      BY <3>2, ConfirmPlan, NoneAssumption DEF memory
    <3>3. CASE Forget(j)
      BY <3>3, ForgetPlan, NoneAssumption
    <3>4. CASE Purge(j)
      BY <3>4, PurgePlan, NoneAssumption DEF Call
    <3>. QED  BY <1>1, <3>1, <3>2, <3>3, <3>4
  <2>. QED  BY <2>1, BeginPreview DEF RollbackOnCourse
<1>2. ASSUME NEW s \in SnapIds, CreateSnapshot(s)  PROVE RollbackInv(k)'
  BY <1>2, SnapshotPlan, BeginPreview DEF RollbackOnCourse
<1>3. ASSUME NEW s \in SnapIds, NEW bound \in BOOLEAN, Rollback(s, bound)  PROVE RollbackInv(k)'
  <2>1. /\ call' = [op |-> "rollback", bound |-> bound, target |-> Target(s), missed |-> {}]
        /\ plan = << >> /\ UNCHANGED <<rows, root, torn, preview>>
        /\ RollbackPart(Target(s), k)
        /\ \A i \in DOMAIN plan' : plan'[i].do \in {"delete", "restore", "log", "return"}
    BY <1>3, RollbackPlan
  <2>2. CASE rows[k] = Target(s)[k]
    <3>1. Changing(k)' = {}
      BY <2>1, <2>2 DEF RollbackPart, Pending, Changing
    <3>. QED  BY <2>1, <2>2, <3>1, BeginPreview DEF RollbackOnCourse
  <2>3. CASE rows[k] # Target(s)[k]
    <3>1. PICK i \in DOMAIN plan' :
              /\ \A j \in DOMAIN plan' : plan'[j].key = k => j = i \/ j = i + 1
              /\ plan'[i].key = k
              /\ IF Target(s)[k] = Absent THEN plan'[i].do = "delete" ELSE plan'[i].do = "restore"
              /\ plan'[i].entries = Some(Target(s)[k])
              /\ plan'[i + 1].do = "log"
      BY <2>1, <2>3 DEF RollbackPart
    <3>2. i \in Changing(k)' /\ \A j \in Changing(k)' : j = i
      BY <3>1 DEF Pending, Changing, Changes
    <3>3. \/ plan'[i].do = "delete" /\ call'.target[k] = Absent
          \/ plan'[i].do = "restore" /\ plan'[i].entries = {call'.target[k]}
      BY <2>1, <3>1 DEF Some
    <3>. QED  BY <2>1, <3>2, <3>3, BeginPreview DEF RollbackOnCourse
  <2>. QED  BY <2>2, <2>3
<1>4. CASE Effect
  BY <1>4, EffectPreview, EffectRollback
<1>5. CASE Fail \/ Restart
  <2>1. call' = None /\ torn \subseteq torn' /\ UNCHANGED <<rows, root>> /\ (preview' = preview \/ preview' = None)
    BY <1>5, CutShortFacts DEF Fail, Restart, storage, memory
  <2>2. Awaited(k) => k \in torn'
    BY <1>5, CutAwaited
  <2>. QED  BY <2>1, <2>2 DEF PreviewCurrent, RollbackOnCourse
<1>6. ASSUME PreviewState \/ (\E s \in SnapIds : PreviewHead(s)) \/ (\E j \in Keys : CaptureRecall(j)) \/ UNCHANGED vars
      PROVE  RollbackInv(k)'
  <2>. USE DEF storage, memory, ghosts
  <2>1. UNCHANGED <<rows, root, plan, call, torn>>
    BY <1>6 DEF PreviewState, PreviewHead, CaptureRecall, vars
  <2>2. RollbackOnCourse(k)' /\ (Awaited(k) => Awaited(k)')
    BY <2>1 DEF RollbackOnCourse, Changing, Pending, Awaited
  <2>3. CASE PreviewState
    <3>1. preview \in [snap : SnapIds, root : 0..MaxRoot, state : State \cup {None}]
      BY <2>3 DEF PreviewState, TypeInv, TypeOK
    <3>2. preview'.root = preview.root /\ preview'.state = rows
      BY <2>3, <3>1 DEF PreviewState
    <3>. QED  BY <2>1, <2>2, <2>3, <3>2 DEF PreviewCurrent, PreviewState
  <2>4. ASSUME NEW s \in SnapIds, PreviewHead(s)  PROVE RollbackInv(k)'
    <3>1. preview'.root = root /\ preview'.state = None /\ root \in Nat
      BY <2>4 DEF PreviewHead, TypeInv, TypeOK
    <3>. QED  BY <2>1, <2>2, <3>1 DEF PreviewCurrent
  <2>5. CASE preview' = preview
    BY <2>1, <2>2, <2>5 DEF PreviewCurrent
  <2>. QED  BY <1>6, <2>3, <2>4, <2>5 DEF CaptureRecall, vars
<1>7. ASSUME NEW j \in Keys, OtherWrite(j)  PROVE RollbackInv(k)'
  <2>1. call' = None /\ preview' = preview /\ root' = root + 1
    BY <1>7 DEF OtherWrite, memory, TypeInv, TypeOK
  <2>2. preview # None => preview.root \in Nat /\ root \in Nat
    BY DEF TypeInv, TypeOK
  <2>. QED  BY <2>1, <2>2 DEF PreviewCurrent, RollbackOnCourse
<1>. QED  BY <1>1, <1>2, <1>3, <1>4, <1>5, <1>6, <1>7 DEF Next, Effect

\* as they are at the start.
LEMMA InitRollback == Init => \A k \in Keys : RollbackInv(k)
BY DEF Init, RollbackInv, PreviewCurrent, RollbackOnCourse

\* A rollback that begins is one that the caller confirmed.
LEMMA BeginsRight ==
    TypeInv /\ (\A k \in Keys : RollbackInv(k)) /\ [Next]_vars => [BeginsAsShown]_vars
<1>. SUFFICES ASSUME TypeInv, \A k \in Keys : RollbackInv(k), Next, Idle, call' # None, call'.op = "rollback", call'.bound,
                     NEW k \in Keys \ torn
              PROVE  rows[k] = preview.state[k]
  BY DEF BeginsAsShown
<1>1. ASSUME NEW s \in SnapIds, NEW bound \in BOOLEAN, Rollback(s, bound)  PROVE rows[k] = preview.state[k]
  <2>1. bound
    BY <1>1, RollbackPlan
  <2>2. preview # None /\ preview.state # None /\ root = preview.root
    BY <1>1, <2>1 DEF Rollback, CurrentRoot
  <2>. QED  BY <2>2, IdleAwaits DEF RollbackInv, PreviewCurrent, Idle
<1>2. ASSUME NEW j \in Keys, Write(j) \/ Confirm(j) \/ Forget(j) \/ Purge(j)  PROVE FALSE
  <2>1. call'.op \in {"write", "forget", "purge"}
    BY <1>2, WritePlan, ConfirmPlan, ForgetPlan, PurgePlan DEF Call
  <2>. QED  BY <2>1
<1>3. ASSUME NEW s \in SnapIds, CreateSnapshot(s)  PROVE FALSE
  BY <1>3, SnapshotPlan
<1>4. call = None /\ plan = << >>
  BY DEF TypeInv, TypeOK, Idle
<1>5. ~Effect
  BY <1>4, EffectTail
<1>6. ~(Fail \/ Restart)
  BY CutShortFacts DEF Fail, Restart
<1>7. ~(PreviewState \/ (\E s \in SnapIds : PreviewHead(s)) \/ (\E j \in Keys : CaptureRecall(j) \/ OtherWrite(j)))
  BY <1>4 DEF PreviewState, PreviewHead, CaptureRecall, OtherWrite
<1>. QED  BY <1>1, <1>2, <1>3, <1>5, <1>6, <1>7 DEF Next, Effect

\* A rollback that returns has reached its target.
LEMMA EndsRight ==
    TypeInv /\ (\A k \in Keys : RollbackInv(k)) => EndsAsAsked
<1>. SUFFICES ASSUME TypeInv, \A k \in Keys : RollbackInv(k), Now("return"), Return, call.op = "rollback",
                     NEW k \in Keys \ call.missed
              PROVE  rows[k] = call.target[k]
  BY DEF EndsAsAsked
<1>1. Effect
  BY DEF Effect
<1>2. plan # << >> /\ Len(plan) = 1 /\ Head(plan).do = "return" /\ plan \in Seq(Steps)
  BY <1>1, EffectTail, HeadOK DEF Now, TypeInv, PlanType
<1>3. Changing(k) = {}
  <2>1. \A i \in DOMAIN plan : plan[i].do = "return"
    BY <1>2, HeadTailProperties, LenProperties
  <2>. QED  BY <2>1 DEF Changing, Pending, Changes
<1>4. call # None
  BY <1>1, EffectCall, NoneAssumption
<1>. QED  BY <1>3, <1>4 DEF RollbackInv, RollbackOnCourse

\* A rollback keeps its word: it begins in the state that was confirmed and ends in
\* the one that was asked for.
THEOREM ConfirmedAndRestored == Spec => RollbackKeepsItsWord
BY InitType, NextType, InitLogInv, NextLogInv, InitRollback, NextRollback, BeginsRight, EndsRight, PTL
   DEF Spec, RollbackKeepsItsWord, ExecuteIsConfirmed, RollbackRestores

-----------------------------------------------------------------------------
(* What a purge promises *)

\* Where capture rows name a key, the gate of a purge finds the key, unless its row
\* was changed and not logged.
CapturesCovered(k) == k \in captures => rows[k] # Absent \/ logged[k] # {} \/ k \in torn \/ Awaited(k)

\* Made after the last complete purge of the key.
Fresh(k, e) == purged[k] < e /\ e <= writes

\* Nothing that is kept, or that the plan will keep, is older than the last complete purge.
KeptIsFresh(k) ==
    /\ purged[k] \in Nat /\ purged[k] <= writes
    /\ \A e \in Traces(k) : Fresh(k, e)
    /\ \A i \in Pending({"save", "restore", "event", "log"}, k) : \A e \in plan[i].entries : Fresh(k, e)
    /\ \A i \in DOMAIN plan : plan[i].do \in {"create", "fill"} =>
          plan[i].entries[k] = Absent \/ Fresh(k, plan[i].entries[k])

\* What a purge has not emptied yet it will.
PurgeOnCourse(k) ==
    call # None /\ call.op = "purge" /\ call.key = k =>
        /\ \A i \in DOMAIN plan : plan[i].key = k /\ plan[i].do \notin {"save", "restore", "event", "create", "fill"}
        /\ rows[k] = Absent \/ Pending({"delete"}, k) # {}
        /\ oplog[k] = {} \/ Pending({"redact"}, k) # {}
        /\ events[k] = {} \/ Pending({"payloads"}, k) # {}
        /\ logged[k] = {} \/ Pending({"empty"}, k) # {}
        /\ \A i \in Pending({"log"}, k) : plan[i].entries = {} \/ Pending({"empty"}, k) # {}
        /\ \A s \in SnapIds : snaps[s] # None /\ Target(s)[k] # Absent =>
              \E i \in Pending({"scrub"}, k) : plan[i].snap = s

PurgeInv(k) == CapturesCovered(k) /\ KeptIsFresh(k) /\ PurgeOnCourse(k)

\* An effect that hides a key from the gate removes its capture rows first.
LEMMA EffectCaptures ==
    ASSUME TypeInv, Effect, NEW k \in Keys, LogInv(k), CapturesCovered(k)
    PROVE  CapturesCovered(k)'
<1>1. SUFFICES ASSUME k \in captures'
               PROVE  rows'[k] # Absent \/ logged'[k] # {} \/ k \in torn' \/ Awaited(k)'
  BY DEF CapturesCovered
<1>2. k \in captures
  BY <1>1, EffectTraces
<1>3. \A j \in Pending({"captures"}, k) : ~(j < 1)
  BY EffectMoves
<1>4. ~(Head(plan).key = k /\ Head(plan).do \in {"receipt", "empty"})
  <2>. SUFFICES ASSUME Head(plan).key = k, Head(plan).do \in {"receipt", "empty"}  PROVE FALSE
    OBVIOUS
  <2>1. 1 \in Pending({"receipt", "empty"}, k)
    BY EffectMoves
  <2>. QED  BY <1>2, <1>3, <2>1 DEF LogInv, PurgeOrder
<1>5. Head(plan).key = k /\ Head(plan).do = "log" => logged'[k] # {}
  <2>. SUFFICES ASSUME Head(plan).key = k, Head(plan).do = "log"  PROVE logged'[k] # {}
    OBVIOUS
  <2>1. 1 \in Pending({"log"}, k) /\ Head(plan) = plan[1] /\ \A j \in Pending({"log"}, k) : ~(j < 1)
    BY EffectMoves
  <2>2. Head(plan).entries = {} => logged[k] # {}
    BY <2>1 DEF LogInv, PurgeOrder
  <2>3. logged'[k] = logged[k] \cup Head(plan).entries
    BY EffectLog
  <2>. QED  BY <2>2, <2>3
<1>6. CASE rows[k] # Absent
  <2>1. CASE rows'[k] = rows[k]
    BY <1>6, <2>1
  <2>2. CASE rows'[k] # rows[k]
    BY <2>2, ChangeAwaits, EffectRows DEF Changes
  <2>. QED  BY <2>1, <2>2
<1>7. CASE logged[k] # {}
  <2>1. logged'[k] # {}
    BY <1>4, <1>5, <1>7, EffectLog
  <2>. QED  BY <2>1
<1>8. CASE k \in torn
  BY <1>4, <1>5, <1>8, EffectLog DEF Audits
<1>9. CASE Awaited(k)
  BY <1>5, <1>9, AwaitedComes
<1>. QED  BY <1>2, <1>6, <1>7, <1>8, <1>9 DEF CapturesCovered

\* Every step keeps the gate open where capture rows name a key.
LEMMA NextCaptures ==
    ASSUME TypeInv, [Next]_vars, NEW k \in Keys, LogInv(k), CapturesCovered(k)
    PROVE  CapturesCovered(k)'
<1>. USE DEF storage, memory, ghosts
<1>1. CASE plan = << >> /\ UNCHANGED <<rows, logged, captures, torn>>
  BY <1>1, IdleAwaits DEF CapturesCovered
<1>2. ASSUME NEW j \in Keys, Write(j) \/ Confirm(j) \/ Forget(j) \/ Purge(j)  PROVE CapturesCovered(k)'
  <2>1. plan = << >> /\ UNCHANGED <<rows, logged, captures, torn>>
    <3>1. CASE Write(j)
      BY <3>1, WritePlan
    <3>2. CASE Confirm(j)
      BY <3>2, ConfirmPlan
    <3>3. CASE Forget(j)
      BY <3>3, ForgetPlan
    <3>4. CASE Purge(j)
      BY <3>4, PurgePlan
    <3>. QED  BY <1>2, <3>1, <3>2, <3>3, <3>4
  <2>. QED  BY <1>1, <2>1
<1>3. ASSUME NEW s \in SnapIds, CreateSnapshot(s) \/ \E bound \in BOOLEAN : Rollback(s, bound)
      PROVE  CapturesCovered(k)'
  BY <1>1, <1>3, SnapshotPlan, RollbackPlan
<1>4. CASE Effect
  BY <1>4, EffectCaptures
<1>5. CASE Fail \/ Restart
  <2>1. UNCHANGED <<rows, logged, captures>> /\ torn \subseteq torn'
    BY <1>5, CutShortFacts DEF Fail, Restart
  <2>. QED  BY <1>5, <2>1, CutAwaited DEF CapturesCovered
<1>6. CASE PreviewState \/ (\E s \in SnapIds : PreviewHead(s)) \/ UNCHANGED vars
  <2>1. UNCHANGED <<rows, logged, captures, torn, plan>>
    BY <1>6 DEF PreviewState, PreviewHead, vars
  <2>. QED  BY <2>1 DEF CapturesCovered, Awaited, Changing, Pending
<1>7. ASSUME NEW j \in Keys, CaptureRecall(j)  PROVE CapturesCovered(k)'
  <2>1. UNCHANGED <<rows, logged, torn, plan>> /\ captures' = captures \cup {j} /\ rows[j] # Absent
    BY <1>7 DEF CaptureRecall
  <2>. QED  BY <2>1 DEF CapturesCovered, Awaited, Changing, Pending
<1>8. ASSUME NEW j \in Keys, OtherWrite(j)  PROVE CapturesCovered(k)'
  <2>1. plan = << >> /\ captures' = captures
    BY <1>8 DEF OtherWrite, Idle
  <2>2. k # j => UNCHANGED <<rows[k], logged[k]>> /\ (k \in torn => k \in torn')
    BY <1>8 DEF OtherWrite, TypeInv, TypeOK, State
  <2>3. k = j => rows'[k] # Absent
    <3>1. writes' \in Nat /\ writes' # 0
      BY <1>8 DEF OtherWrite, NewEntry, TypeInv, TypeOK
    <3>. QED  BY <1>8, <3>1 DEF OtherWrite, TypeInv, TypeOK, State, Absent
  <2>. QED  BY <2>1, <2>2, <2>3, IdleAwaits DEF CapturesCovered
<1>. QED  BY <1>2, <1>3, <1>4, <1>5, <1>6, <1>7, <1>8 DEF Next, Effect

\* What is kept of a key, and where.
LEMMA TraceFacts ==
    ASSUME NEW k \in Keys, NEW e
    PROVE  e \in Traces(k) <=>
              \/ e \in Some(rows[k]) \/ e \in logged[k] \/ e \in events[k] \/ e \in oplog[k]
              \/ \E s \in SnapIds : snaps[s] # None /\ e \in Some(Target(s)[k])
BY DEF Traces

\* The same after a step.
LEMMA TraceFactsNext ==
    ASSUME NEW k \in Keys, NEW e
    PROVE  e \in Traces(k)' <=>
              \/ e \in Some(rows'[k]) \/ e \in logged'[k] \/ e \in events'[k] \/ e \in oplog'[k]
              \/ \E s \in SnapIds : snaps'[s] # None /\ e \in Some(snaps'[s].entries[k])
BY DEF Traces, Target

\* The same of the next state.
FreshNext(k, e) == purged'[k] < e /\ e <= writes'

\* What a mutation keeps when it begins is what was kept, or newer.
LEMMA BeginFresh ==
    ASSUME TypeInv, NEW k \in Keys, KeptIsFresh(k), UNCHANGED <<rows, logged, events, snaps, purged>>,
           writes' \in Nat, writes <= writes',
           oplog'[k] \subseteq oplog[k] \cup (IF writes' = writes + 1 THEN {writes'} ELSE {})
    PROVE  /\ purged'[k] \in Nat /\ purged'[k] <= writes'
           /\ \A e \in Traces(k)' : FreshNext(k, e)
           /\ writes' = writes + 1 => FreshNext(k, writes')
           /\ \A e \in Some(rows[k]) : FreshNext(k, e)
           /\ \A s \in SnapIds : snaps[s] # None => \A e \in Some(Target(s)[k]) : FreshNext(k, e)
<1>1. purged[k] \in Nat /\ writes \in Nat /\ purged[k] <= writes
  BY DEF KeptIsFresh, TypeInv, TypeOK
<1>2. \A e \in Traces(k) : e \in Nat
  <2>1. rows \in State /\ snaps \in [SnapIds -> Snapshots \cup {None}]
        /\ \A f \in {logged, events, oplog} : f \in [Keys -> SUBSET Entries]
    BY DEF TypeInv, TypeOK
  <2>2. Some(rows[k]) \subseteq Nat /\ logged[k] \subseteq Nat /\ events[k] \subseteq Nat /\ oplog[k] \subseteq Nat
    BY <2>1 DEF State, Some, Entries, Absent
  <2>3. \A s \in SnapIds : snaps[s] # None => Some(Target(s)[k]) \subseteq Nat
    BY <2>1 DEF State, Some, Entries, Absent, Snapshots, Target
  <2>. QED  BY <2>2, <2>3, TraceFacts
<1>3. \A e \in Traces(k) : FreshNext(k, e)
  BY <1>1, <1>2 DEF KeptIsFresh, Fresh, FreshNext
<1>4. writes' = writes + 1 => FreshNext(k, writes')
  BY <1>1 DEF FreshNext
<1>5. \A e \in Traces(k)' : e \in Traces(k) \/ (writes' = writes + 1 /\ e = writes')
  BY TraceFacts, TraceFactsNext DEF Target
<1>6. purged'[k] \in Nat /\ purged'[k] <= writes'
  BY <1>1
<1>7. \A e \in Traces(k)' : FreshNext(k, e)
  BY <1>3, <1>4, <1>5
<1>. QED  BY <1>3, <1>4, <1>6, <1>7, TraceFacts

\* An effect keeps only what is kept or planned.
LEMMA EffectFresh ==
    ASSUME TypeInv, Effect, NEW k \in Keys, KeptIsFresh(k), purged'[k] = purged[k]
    PROVE  KeptIsFresh(k)'
<1>1. writes' = writes
  BY EffectTail
<1>2. \A e : Fresh(k, e) => Fresh(k, e)'
  BY <1>1 DEF Fresh
<1>3. /\ plan # << >> /\ plan' = Tail(plan) /\ plan \in Seq(Steps) /\ Head(plan) = plan[1] /\ 1 \in DOMAIN plan
      /\ \A i \in DOMAIN plan' : i + 1 \in DOMAIN plan /\ plan'[i] = plan[i + 1]
  <2>1. plan # << >> /\ plan' = Tail(plan) /\ plan \in Seq(Steps)
    BY EffectTail DEF TypeInv, PlanType
  <2>. QED  BY <2>1, TailFacts
<1>4. Head(plan).key = k /\ Head(plan).do \in {"save", "restore", "event", "log"} =>
        \A e \in Head(plan).entries : Fresh(k, e)
  BY <1>3 DEF KeptIsFresh, Pending
<1>5. Head(plan).do \in {"create", "fill"} => Head(plan).entries[k] = Absent \/ Fresh(k, Head(plan).entries[k])
  BY <1>3 DEF KeptIsFresh
<1>6. ASSUME NEW e \in Traces(k)'  PROVE Fresh(k, e)
  <2>1. CASE e \in Some(rows'[k])
    <3>1. e = rows'[k] /\ e # Absent
      BY <2>1 DEF Some
    <3>2. CASE rows'[k] = rows[k]
      BY <3>1, <3>2, TraceFacts DEF KeptIsFresh, Some
    <3>3. CASE Head(plan).key = k /\ Head(plan).do \in {"save", "restore"} /\ rows'[k] \in Head(plan).entries
      BY <1>4, <3>1, <3>3
    <3>. QED  BY <3>1, <3>2, <3>3, EffectRows
  <2>2. CASE e \in logged'[k]
    <3>1. e \in logged[k] \/ (Head(plan).key = k /\ Head(plan).do = "log" /\ e \in Head(plan).entries)
      BY <2>2, EffectLog
    <3>. QED  BY <1>4, <3>1, TraceFacts DEF KeptIsFresh
  <2>3. CASE e \in events'[k]
    <3>1. e \in events[k] \/ (Head(plan).key = k /\ Head(plan).do = "event" /\ e \in Head(plan).entries)
      BY <2>3, EffectTraces
    <3>. QED  BY <1>4, <3>1, TraceFacts DEF KeptIsFresh
  <2>4. CASE e \in oplog'[k]
    <3>1. e \in oplog[k]
      BY <2>4, EffectTraces
    <3>. QED  BY <3>1, TraceFacts DEF KeptIsFresh
  <2>5. ASSUME NEW s \in SnapIds, snaps'[s] # None, e \in Some(snaps'[s].entries[k])  PROVE Fresh(k, e)
    <3>1. e = snaps'[s].entries[k] /\ e # Absent
      BY <2>5 DEF Some
    <3>2. CASE snaps'[s] = snaps[s]
      <4>1. snaps[s] # None /\ e \in Some(Target(s)[k])
        BY <2>5, <3>2 DEF Target
      <4>. QED  BY <4>1, TraceFacts DEF KeptIsFresh
    <3>3. CASE Head(plan).do \in {"create", "fill"} /\ snaps'[s].entries = Head(plan).entries
      BY <1>5, <3>1, <3>3
    <3>4. CASE snaps[s] \in Snapshots /\ snaps'[s].entries = [snaps[s].entries EXCEPT ![Head(plan).key] = Absent]
      <4>1. snaps[s].entries \in State
        BY <3>4 DEF Snapshots
      <4>2. e = Target(s)[k]
        BY <3>1, <3>4, <4>1 DEF State, Target
      <4>3. snaps[s] # None
        BY <3>4, NoneAssumption
      <4>4. e \in Some(Target(s)[k])
        BY <3>1, <4>2 DEF Some
      <4>. QED  BY <4>3, <4>4, TraceFacts DEF KeptIsFresh
    <3>. QED  BY <3>2, <3>3, <3>4, EffectSnaps
  <2>. QED  BY <2>1, <2>2, <2>3, <2>4, <2>5, TraceFactsNext
<1>7. ASSUME NEW i \in Pending({"save", "restore", "event", "log"}, k)', NEW e \in plan'[i].entries
      PROVE  Fresh(k, e)
  <2>1. i + 1 \in Pending({"save", "restore", "event", "log"}, k) /\ plan'[i] = plan[i + 1]
    BY EffectMoves
  <2>. QED  BY <1>7, <2>1 DEF KeptIsFresh
<1>8. ASSUME NEW i \in DOMAIN plan', plan'[i].do \in {"create", "fill"}
      PROVE  plan'[i].entries[k] = Absent \/ Fresh(k, plan'[i].entries[k])
  BY <1>3, <1>8 DEF KeptIsFresh
<1>9. \A e \in Traces(k)' : Fresh(k, e)'
  BY <1>2, <1>6
<1>10. \A i \in Pending({"save", "restore", "event", "log"}, k)' : \A e \in plan'[i].entries : Fresh(k, e)'
  BY <1>2, <1>7
<1>11. \A i \in DOMAIN plan' : plan'[i].do \in {"create", "fill"} =>
          plan'[i].entries[k] = Absent \/ (purged'[k] < plan'[i].entries[k] /\ plan'[i].entries[k] <= writes')
  BY <1>1, <1>8 DEF Fresh
<1>12. purged'[k] \in Nat /\ purged'[k] <= writes'
  BY <1>1 DEF KeptIsFresh
<1>. QED  BY <1>9, <1>10, <1>11, <1>12 DEF KeptIsFresh, Fresh

\* A purge that returns has emptied everything of its key.
LEMMA PurgeReturns ==
    ASSUME TypeInv, Effect, NEW k \in Keys, KeptIsFresh(k), \A j \in Keys : PurgeOnCourse(j), purged'[k] # purged[k]
    PROVE  KeptIsFresh(k)'
<1>1. /\ Head(plan).do = "return" /\ call.op = "purge" /\ call # None
      /\ purged' = [purged EXCEPT ![Head(plan).key] = writes] /\ writes' = writes
  BY EffectCall, EffectTail, NoneAssumption
<1>2. Head(plan).key = k /\ purged'[k] = writes
  BY <1>1 DEF TypeInv, TypeOK
<1>3. plan # << >> /\ Len(plan) = 1 /\ plan \in Seq(Steps) /\ plan' = Tail(plan)
  BY <1>1, EffectTail, HeadOK DEF TypeInv, PlanType
<1>4. DOMAIN plan' = {} /\ DOMAIN plan = {1} /\ Head(plan) = plan[1]
  BY <1>3, TailFacts
<1>5. call.key \in Keys
  BY <1>1, EffectCall DEF Mutations
<1>6. call.key = k
  BY <1>1, <1>2, <1>4, <1>5 DEF PurgeOnCourse
<1>7. \A doing : "return" \notin doing => Pending(doing, k) = {}
  BY <1>1, <1>4 DEF Pending
<1>8. /\ rows[k] = Absent /\ oplog[k] = {} /\ events[k] = {} /\ logged[k] = {}
      /\ \A s \in SnapIds : snaps[s] # None => Target(s)[k] = Absent
  BY <1>1, <1>6, <1>7 DEF PurgeOnCourse
<1>9. rows'[k] = rows[k]
  BY <1>1, EffectRows
<1>10. logged'[k] = {} /\ events'[k] = {} /\ oplog'[k] = {}
  BY <1>1, <1>8, EffectLog, EffectTraces
<1>11. snaps' = snaps
  <2>1. Return
    BY <1>1 DEF Effect, Now, SaveRow, RestoreRefused, DeleteRow, AppendEvent, AppendAudit, RedactOperationLog,
                PurgeCaptures, EmptyAuditRows, PurgePayloads, WriteSnapshot, ScrubSnapshot
  <2>. QED  BY <2>1 DEF Return, storage
<1>12. Traces(k)' = {}
  BY <1>8, <1>9, <1>10, <1>11, TraceFactsNext DEF Some, Target
<1>13. writes' \in Nat /\ purged'[k] = writes'
  BY <1>1, <1>2 DEF TypeInv, TypeOK
<1>. QED  BY <1>4, <1>12, <1>13 DEF KeptIsFresh, Pending

\* With a plan whose entries are kept ones or new, a mutation begins well.
LEMMA FreshPlan ==
    ASSUME NEW k \in Keys,
           purged'[k] \in Nat /\ purged'[k] <= writes', \A e \in Traces(k)' : FreshNext(k, e),
           \A i \in Pending({"save", "restore", "event", "log"}, k)' : \A e \in plan'[i].entries : FreshNext(k, e),
           \A i \in DOMAIN plan' : plan'[i].do \in {"create", "fill"} =>
              plan'[i].entries[k] = Absent \/ FreshNext(k, plan'[i].entries[k])
    PROVE  KeptIsFresh(k)'
BY DEF KeptIsFresh, Fresh, FreshNext

\* A mutation plans to keep only what is kept, or new.
LEMMA BeginKeepsFresh ==
    ASSUME TypeInv, NEW k \in Keys, KeptIsFresh(k),
           \/ \E j \in Keys : Write(j) \/ Confirm(j) \/ Forget(j) \/ Purge(j)
           \/ \E s \in SnapIds : CreateSnapshot(s) \/ \E bound \in BOOLEAN : Rollback(s, bound)
    PROVE  KeptIsFresh(k)'
<1>0. writes \in Nat /\ oplog \in [Keys -> SUBSET Entries]
  BY DEF TypeInv, TypeOK
<1>1. ASSUME NEW j \in Keys, Write(j)  PROVE KeptIsFresh(k)'
  <2>1. /\ DOMAIN plan' = 1..4
        /\ plan'[1].do = "save" /\ plan'[1].key = j /\ plan'[1].entries = {writes'}
        /\ plan'[2].do = "event" /\ plan'[2].key = j /\ plan'[2].entries = {writes'}
        /\ plan'[3].do = "log" /\ plan'[3].key = j /\ plan'[3].entries = Some(rows[j]) \cup {writes'}
        /\ plan'[4].do = "return"
        /\ writes' = writes + 1 /\ UNCHANGED <<rows, logged, events, snaps, purged>>
        /\ (oplog'[k] = oplog[k] \/ (k = j /\ oplog'[k] = oplog[k] \cup {writes'}))
    BY <1>1, WritePlan
  <2>2. /\ purged'[k] \in Nat /\ purged'[k] <= writes' /\ \A e \in Traces(k)' : FreshNext(k, e)
        /\ FreshNext(k, writes') /\ \A e \in Some(rows[k]) : FreshNext(k, e)
    BY <1>0, <2>1, BeginFresh
  <2>3. ASSUME NEW i \in Pending({"save", "restore", "event", "log"}, k)', NEW e \in plan'[i].entries
        PROVE  FreshNext(k, e)
    <3>1. i \in {1, 2, 3} /\ k = j
      BY <2>1 DEF Pending
    <3>. QED  BY <2>1, <2>2, <2>3, <3>1
  <2>4. \A i \in DOMAIN plan' : plan'[i].do \notin {"create", "fill"}
    BY <2>1
  <2>. QED  BY <2>2, <2>3, <2>4, FreshPlan
<1>2. ASSUME NEW j \in Keys, Confirm(j)  PROVE KeptIsFresh(k)'
  <2>1. /\ DOMAIN plan' = 1..3
        /\ plan'[1].do = "save" /\ plan'[1].key = j /\ plan'[1].entries = {writes'}
        /\ plan'[2].do = "log" /\ plan'[2].key = j /\ plan'[2].entries = {rows[j], writes'}
        /\ plan'[3].do = "return" /\ rows[j] \in Entries
        /\ writes' = writes + 1 /\ UNCHANGED <<rows, logged, events, snaps, purged, oplog>>
    BY <1>2, ConfirmPlan DEF memory
  <2>2. /\ purged'[k] \in Nat /\ purged'[k] <= writes' /\ \A e \in Traces(k)' : FreshNext(k, e)
        /\ FreshNext(k, writes') /\ \A e \in Some(rows[k]) : FreshNext(k, e)
    BY <1>0, <2>1, BeginFresh
  <2>3. ASSUME NEW i \in Pending({"save", "restore", "event", "log"}, k)', NEW e \in plan'[i].entries
        PROVE  FreshNext(k, e)
    <3>1. i \in {1, 2} /\ k = j
      BY <2>1 DEF Pending
    <3>2. rows[j] \in Some(rows[j])
      BY <2>1 DEF Some, Entries, Absent
    <3>. QED  BY <2>1, <2>2, <2>3, <3>1, <3>2
  <2>4. \A i \in DOMAIN plan' : plan'[i].do \notin {"create", "fill"}
    BY <2>1
  <2>. QED  BY <2>2, <2>3, <2>4, FreshPlan
<1>3. ASSUME NEW j \in Keys, Forget(j)  PROVE KeptIsFresh(k)'
  <2>1. /\ DOMAIN plan' = 1..4
        /\ plan'[1].do = "delete"
        /\ plan'[2].do = "log" /\ plan'[2].key = j /\ plan'[2].entries = {rows[j]}
        /\ plan'[3].do = "log" /\ plan'[3].key = j /\ plan'[3].entries = {}
        /\ plan'[4].do = "return" /\ rows[j] \in Entries
        /\ writes' = writes /\ UNCHANGED <<rows, logged, events, snaps, purged, oplog>>
    BY <1>3, ForgetPlan
  <2>2. /\ purged'[k] \in Nat /\ purged'[k] <= writes' /\ \A e \in Traces(k)' : FreshNext(k, e)
        /\ \A e \in Some(rows[k]) : FreshNext(k, e)
    BY <1>0, <2>1, BeginFresh
  <2>3. ASSUME NEW i \in Pending({"save", "restore", "event", "log"}, k)', NEW e \in plan'[i].entries
        PROVE  FreshNext(k, e)
    <3>1. i \in {2, 3} /\ k = j
      BY <2>1 DEF Pending
    <3>2. rows[j] \in Some(rows[j])
      BY <2>1 DEF Some, Entries, Absent
    <3>. QED  BY <2>1, <2>2, <2>3, <3>1, <3>2
  <2>4. \A i \in DOMAIN plan' : plan'[i].do \notin {"create", "fill"}
    BY <2>1
  <2>. QED  BY <2>2, <2>3, <2>4, FreshPlan
<1>4. ASSUME NEW j \in Keys, Purge(j)  PROVE KeptIsFresh(k)'
  <2>1. writes' = writes /\ UNCHANGED <<rows, logged, events, snaps, purged, oplog>>
    BY <1>4, PurgePlan
  <2>2. PICK f \in {0, 3}, r \in {0, 2}, n \in Nat : PurgeLayout(j, f, r, n)
    BY <1>4, PurgePlan
  <2>3. /\ purged'[k] \in Nat /\ purged'[k] <= writes' /\ \A e \in Traces(k)' : FreshNext(k, e)
        /\ \A e \in Some(rows[k]) : FreshNext(k, e)
    BY <1>0, <2>1, BeginFresh
  <2>4. DOMAIN plan' = 1..f + r + n + 4 /\ f = IF rows[j] # Absent THEN 3 ELSE 0
    BY <2>2 DEF PurgeLayout
  <2>5. \A i \in DOMAIN plan' : plan'[i].key = j /\ plan'[i].entries \subseteq Some(rows[j])
    <3>1. ASSUME NEW i \in 1..f + r + n + 4
          PROVE  plan'[i].key = j /\ plan'[i].entries = IF f = 3 /\ i = 2 THEN {rows[j]} ELSE {}
      BY <2>2 DEF PurgeLayout
    <3>. QED  BY <2>4, <3>1 DEF Some
  <2>6. ASSUME NEW i \in Pending({"save", "restore", "event", "log"}, k)', NEW e \in plan'[i].entries
        PROVE  FreshNext(k, e)
    BY <2>3, <2>5, <2>6 DEF Pending
  <2>7. \A i \in DOMAIN plan' : plan'[i].do \notin {"create", "fill"}
    <3>. TAKE i \in DOMAIN plan'
    <3>1. \/ i <= f \/ i = f + 1 \/ i = f + 2 \/ (r = 2 /\ (i = f + 3 \/ i = f + 4)) \/ i = f + r + 3
          \/ (f + r + 3 < i /\ i < f + r + n + 4) \/ i = f + r + n + 4
      BY <2>4
    <3>2. /\ i <= f => plan'[i].do = IF i = 1 THEN "delete" ELSE "log"
          /\ i = f + 1 => plan'[i].do = "redact"
          /\ i = f + 2 => plan'[i].do = "captures"
          /\ r = 2 /\ i = f + 3 => plan'[i].do = "receipt"
          /\ r = 2 /\ i = f + 4 => plan'[i].do = "empty"
          /\ i = f + r + 3 => plan'[i].do = "payloads"
          /\ f + r + 3 < i /\ i < f + r + n + 4 => plan'[i].do = "scrub"
          /\ i = f + r + n + 4 => plan'[i].do = "return"
      BY <2>2, <2>4 DEF PurgeLayout
    <3>. QED  BY <3>1, <3>2
  <2>. QED  BY <2>3, <2>6, <2>7, FreshPlan
<1>5. ASSUME NEW s \in SnapIds, CreateSnapshot(s)  PROVE KeptIsFresh(k)'
  <2>1. /\ DOMAIN plan' = 1..3
        /\ plan'[1].do = "create" /\ plan'[1].entries = rows
        /\ plan'[2].do = "fill" /\ plan'[2].entries = rows
        /\ plan'[3].do = "return"
        /\ writes' = writes /\ UNCHANGED <<rows, logged, events, snaps, purged, oplog>>
    BY <1>5, SnapshotPlan
  <2>2. /\ purged'[k] \in Nat /\ purged'[k] <= writes' /\ \A e \in Traces(k)' : FreshNext(k, e)
        /\ \A e \in Some(rows[k]) : FreshNext(k, e)
    BY <1>0, <2>1, BeginFresh
  <2>3. Pending({"save", "restore", "event", "log"}, k)' = {}
    BY <2>1 DEF Pending
  <2>4. ASSUME NEW i \in DOMAIN plan', plan'[i].do \in {"create", "fill"}
        PROVE  plan'[i].entries[k] = Absent \/ FreshNext(k, plan'[i].entries[k])
    <3>1. plan'[i].entries = rows
      BY <2>1, <2>4
    <3>2. rows[k] = Absent \/ rows[k] \in Some(rows[k])
      BY DEF Some
    <3>. QED  BY <2>2, <3>1, <3>2
  <2>. QED  BY <2>2, <2>3, <2>4, FreshPlan
<1>6. ASSUME NEW s \in SnapIds, NEW bound \in BOOLEAN, Rollback(s, bound)  PROVE KeptIsFresh(k)'
  <2>1. /\ writes' = writes /\ UNCHANGED <<rows, logged, events, snaps, purged, oplog>>
        /\ \A i \in DOMAIN plan' : plan'[i].do \in {"delete", "restore", "log", "return"}
        /\ RollbackPart(Target(s), k)
    BY <1>6, RollbackPlan
  <2>2. snaps[s] # None
    BY <1>6 DEF Rollback, Readable
  <2>3. /\ purged'[k] \in Nat /\ purged'[k] <= writes' /\ \A e \in Traces(k)' : FreshNext(k, e)
        /\ \A e \in Some(rows[k]) : FreshNext(k, e)
        /\ \A e \in Some(Target(s)[k]) : FreshNext(k, e)
    BY <1>0, <2>1, <2>2, BeginFresh
  <2>4. \A i \in DOMAIN plan' : plan'[i].key = k => plan'[i].entries \subseteq Some(rows[k]) \cup Some(Target(s)[k])
    BY <2>1 DEF RollbackPart
  <2>5. ASSUME NEW i \in Pending({"save", "restore", "event", "log"}, k)', NEW e \in plan'[i].entries
        PROVE  FreshNext(k, e)
    BY <2>3, <2>4, <2>5 DEF Pending
  <2>6. \A i \in DOMAIN plan' : plan'[i].do \notin {"create", "fill"}
    BY <2>1
  <2>. QED  BY <2>3, <2>5, <2>6, FreshPlan
<1>. QED  BY <1>1, <1>2, <1>3, <1>4, <1>5, <1>6

\* Nothing older than the last complete purge comes back.
LEMMA NextFresh ==
    ASSUME TypeInv, [Next]_vars, NEW k \in Keys, KeptIsFresh(k), \A j \in Keys : PurgeOnCourse(j)
    PROVE  KeptIsFresh(k)'
<1>. USE DEF storage, memory, ghosts
<1>1. CASE Effect
  BY <1>1, EffectFresh, PurgeReturns
<1>2. CASE Fail \/ Restart
  <2>1. plan' = << >> /\ UNCHANGED <<rows, logged, events, snaps, writes, purged>>
    BY <1>2, CutShortFacts DEF Fail, Restart
  <2>2. oplog'[k] \subseteq oplog[k]
    BY <1>2 DEF Fail, Restart
  <2>3. \A e \in Traces(k)' : e \in Traces(k)
    BY <2>1, <2>2, TraceFacts, TraceFactsNext DEF Target
  <2>. QED  BY <2>1, <2>3 DEF KeptIsFresh, Fresh, Pending
<1>3. CASE UNCHANGED <<rows, logged, events, oplog, snaps, plan, writes, purged>>
  BY <1>3 DEF KeptIsFresh, Fresh, Pending, Traces, Target
<1>4. CASE PreviewState \/ (\E s \in SnapIds : PreviewHead(s)) \/ (\E j \in Keys : CaptureRecall(j)) \/ UNCHANGED vars
  BY <1>3, <1>4 DEF PreviewState, PreviewHead, CaptureRecall, vars
<1>5. ASSUME NEW j \in Keys, OtherWrite(j)  PROVE KeptIsFresh(k)'
  <2>1. plan' = << >> /\ UNCHANGED <<events, oplog, snaps, purged>> /\ writes' = writes + 1 /\ writes \in Nat
    BY <1>5 DEF OtherWrite, Idle, NewEntry, TypeInv, TypeOK
  <2>2. /\ rows'[k] = rows[k] \/ rows'[k] = writes'
        /\ logged'[k] \subseteq logged[k] \cup Some(rows[k]) \cup {writes'}
    BY <1>5 DEF OtherWrite, TypeInv, TypeOK, State
  <2>3. \A e \in Traces(k)' : e \in Traces(k) \/ e = writes'
    BY <2>1, <2>2, TraceFacts, TraceFactsNext DEF Target, Some
  <2>4. purged[k] \in Nat /\ \A e \in Traces(k) : e \in Nat
    <3>1. rows \in State /\ snaps \in [SnapIds -> Snapshots \cup {None}]
          /\ \A f \in {logged, events, oplog} : f \in [Keys -> SUBSET Entries]
      BY DEF TypeInv, TypeOK
    <3>2. Some(rows[k]) \subseteq Nat /\ logged[k] \subseteq Nat /\ events[k] \subseteq Nat /\ oplog[k] \subseteq Nat
      BY <3>1 DEF State, Some, Entries, Absent
    <3>3. \A s \in SnapIds : snaps[s] # None => Some(Target(s)[k]) \subseteq Nat
      BY <3>1 DEF State, Some, Entries, Absent, Snapshots, Target
    <3>. QED  BY <3>2, <3>3, TraceFacts DEF KeptIsFresh
  <2>5. \A e \in Traces(k)' : Fresh(k, e)'
    BY <2>1, <2>3, <2>4 DEF KeptIsFresh, Fresh
  <2>6. purged'[k] \in Nat /\ purged'[k] <= writes' /\ DOMAIN plan' = {}
    BY <2>1, <2>4 DEF KeptIsFresh
  <2>. QED  BY <2>5, <2>6 DEF KeptIsFresh, Pending
<1>. QED  BY <1>1, <1>2, <1>4, <1>5, BeginKeepsFresh DEF Next, Effect

\* An effect keeps a purge on its course.
LEMMA EffectOnCourse ==
    ASSUME TypeInv, Effect, NEW k \in Keys, LogInv(k), PurgeOnCourse(k)
    PROVE  PurgeOnCourse(k)'
<1>1. SUFFICES ASSUME call' # None, call'.op = "purge", call'.key = k
      PROVE  /\ \A i \in DOMAIN plan' : plan'[i].key = k /\ plan'[i].do \notin {"save", "restore", "event", "create", "fill"}
             /\ rows'[k] = Absent \/ Pending({"delete"}, k)' # {}
             /\ oplog'[k] = {} \/ Pending({"redact"}, k)' # {}
             /\ events'[k] = {} \/ Pending({"payloads"}, k)' # {}
             /\ logged'[k] = {} \/ Pending({"empty"}, k)' # {}
             /\ \A i \in Pending({"log"}, k)' : plan'[i].entries = {} \/ Pending({"empty"}, k)' # {}
             /\ \A s \in SnapIds : snaps'[s] # None /\ snaps'[s].entries[k] # Absent =>
                   \E i \in Pending({"scrub"}, k)' : plan'[i].snap = s
  BY DEF PurgeOnCourse, Target
<1>2. call' = call /\ call # None /\ call.op = "purge" /\ call.key = k
  <2>1. call \in Mutations /\ (call' = call \/ Refused)
    BY <1>1, EffectCall
  <2>2. Refused => call.op = "rollback" /\ call'.op = "rollback"
    <3>1. Refused => call.op = "rollback"
      BY HeadOK, EffectTail DEF Refused, TypeInv
    <3>. QED  BY <2>1, <3>1 DEF Refused, Mutations
  <2>. QED  BY <1>1, <2>1, <2>2
<1>3. /\ \A i \in DOMAIN plan : plan[i].key = k /\ plan[i].do \notin {"save", "restore", "event", "create", "fill"}
      /\ rows[k] = Absent \/ Pending({"delete"}, k) # {}
      /\ oplog[k] = {} \/ Pending({"redact"}, k) # {}
      /\ events[k] = {} \/ Pending({"payloads"}, k) # {}
      /\ logged[k] = {} \/ Pending({"empty"}, k) # {}
      /\ \A i \in Pending({"log"}, k) : plan[i].entries = {} \/ Pending({"empty"}, k) # {}
      /\ \A s \in SnapIds : snaps[s] # None /\ Target(s)[k] # Absent =>
            \E i \in Pending({"scrub"}, k) : plan[i].snap = s
  BY <1>2 DEF PurgeOnCourse
<1>4. /\ Head(plan) = plan[1] /\ 1 \in DOMAIN plan
      /\ \A i \in DOMAIN plan' : i + 1 \in DOMAIN plan /\ plan'[i] = plan[i + 1]
  <2>1. plan # << >> /\ plan' = Tail(plan) /\ plan \in Seq(Steps)
    BY EffectTail DEF TypeInv, PlanType
  <2>. QED  BY <2>1, TailFacts
<1>5. Head(plan).key = k /\ Head(plan).do \notin {"save", "restore", "event", "create", "fill"}
  BY <1>3, <1>4
<1>6. \A doing : Head(plan).do \notin doing /\ Pending(doing, k) # {} => Pending(doing, k)' # {}
  <2>. TAKE doing
  <2>. QED  BY EffectMoves
<1>7. \A i \in DOMAIN plan' : plan'[i].key = k /\ plan'[i].do \notin {"save", "restore", "event", "create", "fill"}
  BY <1>3, <1>4
<1>8. rows'[k] = Absent \/ Pending({"delete"}, k)' # {}
  <2>1. \/ rows'[k] = rows[k] /\ (Head(plan).do # "delete" \/ Refused)
        \/ rows'[k] = Absent
    BY <1>5, EffectRows DEF Changes
  <2>. QED  BY <1>3, <1>6, <2>1 DEF Refused
<1>9. oplog'[k] = {} \/ Pending({"redact"}, k)' # {}
  BY <1>3, <1>5, <1>6, EffectTraces
<1>10. events'[k] = {} \/ Pending({"payloads"}, k)' # {}
  BY <1>3, <1>5, <1>6, EffectTraces
<1>11. logged'[k] = {} \/ Pending({"empty"}, k)' # {}
  <2>1. CASE Head(plan).do = "log"
    <3>1. 1 \in Pending({"log"}, k)
      BY <1>5, <2>1, EffectMoves
    <3>2. logged'[k] = logged[k] \cup Head(plan).entries
      BY <1>5, <2>1, EffectLog
    <3>3. (logged[k] = {} /\ Head(plan).entries = {}) \/ Pending({"empty"}, k) # {}
      BY <1>3, <1>4, <3>1
    <3>. QED  BY <1>6, <2>1, <3>2, <3>3
  <2>2. CASE Head(plan).do # "log"
    <3>1. logged'[k] = {} \/ (logged'[k] = logged[k] /\ Head(plan).do # "empty")
      BY <1>5, <2>2, EffectLog
    <3>. QED  BY <1>3, <1>6, <3>1
  <2>. QED  BY <2>1, <2>2
<1>12. ASSUME NEW i \in Pending({"log"}, k)', plan'[i].entries # {}  PROVE Pending({"empty"}, k)' # {}
  <2>1. i \in Nat /\ i + 1 \in Pending({"log"}, k) /\ plan'[i] = plan[i + 1]
    BY EffectMoves
  <2>2. PICK j \in Pending({"empty"}, k) : i + 1 < j
    BY <1>3, <1>12, <2>1 DEF LogInv, PurgeOrder
  <2>3. j - 1 \in Pending({"empty"}, k)'
    <3>1. j # 1
      BY <2>1, <2>2
    <3>. QED  BY <3>1, EffectMoves
  <2>. QED  BY <2>3
<1>13. ASSUME NEW s \in SnapIds, snaps'[s] # None, snaps'[s].entries[k] # Absent
       PROVE  \E i \in Pending({"scrub"}, k)' : plan'[i].snap = s
  <2>1. snaps'[s] = snaps[s] /\ ~(Head(plan).do = "scrub" /\ Head(plan).snap = s)
    <3>1. ASSUME snaps[s] \in Snapshots, snaps'[s].entries = [snaps[s].entries EXCEPT ![Head(plan).key] = Absent]
          PROVE  FALSE
      <4>1. snaps[s].entries \in State
        BY <3>1 DEF Snapshots
      <4>. QED  BY <1>5, <1>13, <3>1, <4>1 DEF State
    <3>. QED  BY <1>5, <3>1, EffectSnaps
  <2>2. PICK i \in Pending({"scrub"}, k) : plan[i].snap = s
    BY <1>3, <1>13, <2>1 DEF Target
  <2>3. i - 1 \in Pending({"scrub"}, k)' /\ plan'[i - 1] = plan[i]
    <3>1. ~(i = 1 /\ Head(plan).do \in {"scrub"})
      BY <1>4, <2>1, <2>2
    <3>. QED  BY <3>1, EffectMoves
  <2>. QED  BY <2>2, <2>3
<1>. QED  BY <1>7, <1>8, <1>9, <1>10, <1>11, <1>12, <1>13

\* A purge begins with everything of its key ahead of it.
LEMMA PurgeBeginsOnCourse ==
    ASSUME TypeInv, NEW k \in Keys, Purge(k)  PROVE PurgeOnCourse(k)'
<1>1. /\ UNCHANGED <<rows, logged, events, oplog, snaps>> /\ call'.key = k
      /\ \A s \in SnapIds : snaps[s] # None /\ Target(s)[k] # Absent => s \in Holding(k)
  BY PurgePlan DEF Call
<1>2. PICK f \in {0, 3}, r \in {0, 2}, n \in Nat : PurgeLayout(k, f, r, n)
  BY PurgePlan
<1>3. /\ DOMAIN plan' = 1..f + r + n + 4 /\ f = IF rows[k] # Absent THEN 3 ELSE 0
      /\ r = IF rows[k] # Absent \/ logged[k] # {} THEN 2 ELSE 0
  BY <1>2 DEF PurgeLayout
<1>4. ASSUME NEW i \in DOMAIN plan'
      PROVE  /\ plan'[i].key = k /\ plan'[i].do \notin {"save", "restore", "event", "create", "fill"}
             /\ plan'[i].entries # {} => f = 3
  <2>1. \/ i <= f \/ i = f + 1 \/ i = f + 2 \/ (r = 2 /\ (i = f + 3 \/ i = f + 4)) \/ i = f + r + 3
        \/ (f + r + 3 < i /\ i < f + r + n + 4) \/ i = f + r + n + 4
    BY <1>3
  <2>2. /\ plan'[i].key = k
        /\ plan'[i].entries = IF f = 3 /\ i = 2 THEN {rows[k]} ELSE {}
        /\ i <= f => plan'[i].do = IF i = 1 THEN "delete" ELSE "log"
        /\ i = f + 1 => plan'[i].do = "redact"
        /\ i = f + 2 => plan'[i].do = "captures"
        /\ r = 2 /\ i = f + 3 => plan'[i].do = "receipt"
        /\ r = 2 /\ i = f + 4 => plan'[i].do = "empty"
        /\ i = f + r + 3 => plan'[i].do = "payloads"
        /\ f + r + 3 < i /\ i < f + r + n + 4 => plan'[i].do = "scrub"
        /\ i = f + r + n + 4 => plan'[i].do = "return"
    BY <1>2, <1>3 DEF PurgeLayout
  <2>3. plan'[i].do \notin {"save", "restore", "event", "create", "fill"}
    BY <2>1, <2>2
  <2>. QED  BY <2>2, <2>3
<1>5. /\ f = 3 => Pending({"delete"}, k)' # {}
      /\ Pending({"redact"}, k)' # {} /\ Pending({"payloads"}, k)' # {}
      /\ r = 2 => Pending({"empty"}, k)' # {}
  <2>1. /\ f = 3 => 1 \in DOMAIN plan'
        /\ f + 1 \in DOMAIN plan' /\ f + r + 3 \in DOMAIN plan'
        /\ r = 2 => f + 4 \in DOMAIN plan'
    BY <1>3
  <2>2. /\ f = 3 => plan'[1].do = "delete"
        /\ plan'[f + 1].do = "redact" /\ plan'[f + r + 3].do = "payloads"
        /\ r = 2 => plan'[f + 4].do = "empty"
    <3>1. \A i \in DOMAIN plan' : /\ i <= f => plan'[i].do = IF i = 1 THEN "delete" ELSE "log"
                                  /\ i = f + 1 => plan'[i].do = "redact"
                                  /\ r = 2 /\ i = f + 4 => plan'[i].do = "empty"
                                  /\ i = f + r + 3 => plan'[i].do = "payloads"
      BY <1>2, <1>3 DEF PurgeLayout
    <3>. QED  BY <2>1, <3>1
  <2>. QED  BY <1>4, <2>1, <2>2 DEF Pending
<1>6. ASSUME NEW s \in SnapIds, snaps'[s] # None, snaps'[s].entries[k] # Absent
      PROVE  \E i \in Pending({"scrub"}, k)' : plan'[i].snap = s
  <2>1. s \in Holding(k)
    BY <1>1, <1>6 DEF Target
  <2>2. PICK i \in DOMAIN plan' : plan'[i].do = "scrub" /\ plan'[i].snap = s
    BY <1>2, <1>3, <2>1 DEF PurgeLayout
  <2>. QED  BY <1>4, <2>2 DEF Pending
<1>7. /\ rows'[k] = Absent \/ Pending({"delete"}, k)' # {}
      /\ logged'[k] = {} \/ Pending({"empty"}, k)' # {}
      /\ \A i \in Pending({"log"}, k)' : plan'[i].entries = {} \/ Pending({"empty"}, k)' # {}
  <2>1. f = 3 => r = 2
    BY <1>3
  <2>. QED  BY <1>1, <1>3, <1>4, <1>5, <2>1 DEF Pending
<1>. QED  BY <1>4, <1>5, <1>6, <1>7 DEF PurgeOnCourse, Target

\* Every step keeps a purge on its course.
LEMMA NextOnCourse ==
    ASSUME TypeInv, [Next]_vars, NEW k \in Keys, LogInv(k), PurgeOnCourse(k)
    PROVE  PurgeOnCourse(k)'
<1>. USE DEF storage, memory, ghosts
<1>1. ASSUME NEW j \in Keys, Write(j) \/ Confirm(j) \/ Forget(j)  PROVE PurgeOnCourse(k)'
  <2>1. call'.op \in {"write", "forget"}
    BY <1>1, WritePlan, ConfirmPlan, ForgetPlan
  <2>. QED  BY <2>1 DEF PurgeOnCourse
<1>2. ASSUME NEW j \in Keys, Purge(j)  PROVE PurgeOnCourse(k)'
  <2>1. CASE j = k
    BY <1>2, <2>1, PurgeBeginsOnCourse
  <2>2. CASE j # k
    <3>1. call'.key = j
      BY <1>2, PurgePlan DEF Call
    <3>. QED  BY <2>2, <3>1 DEF PurgeOnCourse
  <2>. QED  BY <2>1, <2>2
<1>3. ASSUME NEW s \in SnapIds, CreateSnapshot(s) \/ \E bound \in BOOLEAN : Rollback(s, bound)
      PROVE  PurgeOnCourse(k)'
  <2>1. call'.op \in {"snapshot", "rollback"}
    BY <1>3, SnapshotPlan, RollbackPlan
  <2>. QED  BY <2>1 DEF PurgeOnCourse
<1>4. CASE Effect
  BY <1>4, EffectOnCourse
<1>5. CASE Fail \/ Restart
  BY <1>5, CutShortFacts DEF Fail, Restart, PurgeOnCourse
<1>6. CASE UNCHANGED <<rows, logged, events, oplog, snaps, plan, call>>
  BY <1>6 DEF PurgeOnCourse, Pending, Target
<1>7. CASE PreviewState \/ (\E s \in SnapIds : PreviewHead(s)) \/ (\E j \in Keys : CaptureRecall(j)) \/ UNCHANGED vars
  BY <1>6, <1>7 DEF PreviewState, PreviewHead, CaptureRecall, vars
<1>8. ASSUME NEW j \in Keys, OtherWrite(j)  PROVE PurgeOnCourse(k)'
  <2>1. call' = None
    BY <1>8 DEF OtherWrite, TypeInv, TypeOK
  <2>. QED  BY <2>1 DEF PurgeOnCourse
<1>. QED  BY <1>1, <1>2, <1>3, <1>4, <1>5, <1>7, <1>8 DEF Next, Effect

\* Every step keeps what a purge promises,
LEMMA NextPurge ==
    TypeInv /\ (\A k \in Keys : LogInv(k)) /\ (\A k \in Keys : PurgeInv(k)) /\ [Next]_vars
        => (\A k \in Keys : PurgeInv(k))'
<1>. SUFFICES ASSUME TypeInv, [Next]_vars, \A j \in Keys : LogInv(j), \A j \in Keys : PurgeInv(j), NEW k \in Keys
              PROVE  PurgeInv(k)'
  OBVIOUS
<1>1. CapturesCovered(k)'
  BY NextCaptures DEF PurgeInv
<1>2. KeptIsFresh(k)'
  BY NextFresh DEF PurgeInv
<1>3. PurgeOnCourse(k)'
  BY NextOnCourse DEF PurgeInv
<1>. QED  BY <1>1, <1>2, <1>3 DEF PurgeInv

\* which holds at the start.
LEMMA InitPurge == Init => \A k \in Keys : PurgeInv(k)
<1>. SUFFICES ASSUME Init, NEW k \in Keys  PROVE PurgeInv(k)
  OBVIOUS
<1>1. CapturesCovered(k) /\ PurgeOnCourse(k)
  BY DEF Init, CapturesCovered, PurgeOnCourse
<1>2. Traces(k) = {}
  BY DEF Init, Traces, Some
<1>3. KeptIsFresh(k)
  BY <1>2 DEF Init, KeptIsFresh, Pending
<1>. QED  BY <1>1, <1>3 DEF PurgeInv

\* A purge that is on course keeps its word.
LEMMA PurgeInvKeepsWord == TypeInv /\ (\A k \in Keys : PurgeInv(k)) => PurgeKeepsItsWord
<1>. SUFFICES ASSUME TypeInv, \A k \in Keys : PurgeInv(k)  PROVE PurgedIsGone /\ CapturesKeepGateOpen
  BY DEF PurgeKeepsItsWord
<1>1. PurgedIsGone
  <2>1. ASSUME NEW k \in Keys, NEW e \in Traces(k)  PROVE e > purged[k]
    <3>1. purged[k] < e
      BY <2>1 DEF PurgeInv, KeptIsFresh, Fresh
    <3>. QED  BY <3>1
  <2>. QED  BY <2>1 DEF PurgedIsGone
<1>2. CapturesKeepGateOpen
  <2>1. captures \subseteq Keys
    BY DEF TypeInv, TypeOK
  <2>2. ASSUME Idle, NEW k \in (cut \cap captures) \ torn  PROVE rows[k] # Absent \/ logged[k] # {}
    BY <2>1, <2>2, IdleAwaits DEF PurgeInv, CapturesCovered, Idle
  <2>. QED  BY <2>2 DEF CapturesKeepGateOpen, Admitted
<1>. QED  BY <1>1, <1>2

\* What a purge reports gone is gone, and stays gone, whatever fails, rolls back or
\* writes later; and what a purge cut short left behind can still be purged.
THEOREM PurgedStaysGone == Spec => []PurgeKeepsItsWord
BY InitType, NextType, InitLogInv, NextLogInv, InitPurge, NextPurge, PurgeInvKeepsWord, PTL DEF Spec
=============================================================================
