------------------------ MODULE CloudRuntime_proofs ------------------------
(***************************************************************************)
(* Proofs about the hosted runtime manager, for any finite set of calls,   *)
(* any projects, any cap and any kinds of call.                            *)
(***************************************************************************)
EXTENDS CloudRuntime, FiniteSetTheorems, SequenceTheorems, TLAPS

-----------------------------------------------------------------------------

(* The inductive invariant *)

\* TypeOK without the bound on lease counts, which LeasesCount gives, and with
\* a job for every call that has begun.
TypeInv ==
    /\ pc \in [Calls -> Steps]
    /\ job \in [Calls -> [kind : Kinds, proj : Projects] \cup {None}]
    /\ \A c \in Calls : pc[c] # "new" => job[c] \in [kind : Kinds, proj : Projects]
    /\ using \in [Calls -> Calls \cup {None}]
    /\ planes \in [Projects -> Calls \cup {None}]
    /\ inflight \in [Projects -> Int]
    /\ manager \in Calls \cup {None}
    /\ queue \in [Projects -> Seq(Calls)]
    /\ status \in [Calls -> {"none", "building", "open", "closing", "closed", "dropped"}]
    /\ schema \in [Projects -> BOOLEAN]
    /\ phase \in {"up", "closing", "down"}

\* The manager shuts down after its last call.
Quiet == phase # "up" => \A c \in Calls : ~Running(c)

\* Only purges purge.
KindsFit ==
    \A c \in Calls : pc[c] \in {"purge", "drop", "sweep", "files"} => Kind(c) = "purge"

\* A write or a purge past Acquire is at the head of its project's queue.
Serialised ==
    \A c \in Calls :
        pc[c] \notin {"new", "lookup", "queued", "done"} /\ Kind(c) # "read" =>
            queue[Proj(c)] # << >> /\ Head(queue[Proj(c)]) = c

\* The holder of _lock is the one call that builds, for a project without a plane.
Building ==
    \A c \in Calls :
        /\ pc[c] \in {"build", "load"} <=> manager = c
        /\ status[c] = "building" <=> manager = c
        /\ manager = c => planes[Proj(c)] = None

\* A call has a plane of its own only after it began to build one.
Built == \A c \in Calls : status[c] # "none" => pc[c] \in {"build", "load", "use", "done"}

\* What _planes holds for a project is a plane of that project, open until the
\* manager shuts down.
PlanesFit ==
    \A p \in Projects : planes[p] # None =>
        /\ pc[planes[p]] # "new"
        /\ Proj(planes[p]) = p
        /\ phase = "up" => status[planes[p]] = "open"
        /\ status[planes[p]] \in {"open", "closing", "closed"}

\* And every open plane is in _planes.
OpenLoaded ==
    \A c \in Calls : status[c] = "open" => planes[Proj(c)] = c

\* A call works with a plane of its project, and if that plane is no longer
\* open, the call is not a write and a purge of the project has begun.
UsesOwn ==
    \A c \in Calls : pc[c] = "use" =>
        /\ using[c] \in Calls
        /\ pc[using[c]] # "new"
        /\ Proj(using[c]) = Proj(c)
        /\ \/ status[using[c]] = "open"
           \/ /\ Kind(c) # "write"
              /\ \E d \in Calls : pc[d] # "new" /\ job[d] = [kind |-> "purge", proj |-> Proj(c)]

IInv ==
    /\ TypeInv
    /\ LeasesCount
    /\ Quiet
    /\ KindsFit
    /\ Serialised
    /\ Building
    /\ Built
    /\ PlanesFit
    /\ OpenLoaded
    /\ UsesOwn
    /\ AllClosedWhenDown

-----------------------------------------------------------------------------
(* What a step can do *)

\* Where a call can go from where it is.
Moves(c) ==
    \/ pc[c] = "new" /\ phase = "up" /\ phase' = "up" /\ pc'[c] = "lookup"
    \/ pc[c] = "new" /\ phase = "up" /\ phase' = "up" /\ pc'[c] = "get" /\ Kind(c)' = "read"
    \/ pc[c] = "lookup" /\ pc'[c] = "queued"
    \/ /\ pc[c] = "queued" /\ queue[Proj(c)] # << >> /\ Head(queue[Proj(c)]) = c
       /\ pc'[c] = IF Kind(c) = "purge" THEN "purge" ELSE "get"
    \/ pc[c] = "get" /\ pc'[c] = "wait"
    \/ /\ pc[c] \in {"get", "wait"} /\ pc'[c] = "use"
       /\ planes[Proj(c)] # None /\ using'[c] = planes[Proj(c)] /\ UNCHANGED <<planes, status>>
    \/ pc[c] = "wait" /\ pc'[c] = "build"
    \/ pc[c] = "build" /\ pc'[c] \in {"load", "done"}
    \/ pc[c] = "load" /\ pc'[c] = "use" /\ using'[c] = c /\ BuildDone(c)
    \/ pc[c] = "load" /\ pc'[c] = "done"
    \/ pc[c] = "use" /\ pc'[c] = "done"
    \/ pc[c] = "purge" /\ pc'[c] \in {"drop", "sweep", "done"}
    \/ pc[c] = "drop" /\ pc'[c] \in {"sweep", "done"}
    \/ pc[c] = "sweep" /\ pc'[c] = "files"
    \/ pc[c] = "files" /\ pc'[c] = "done"

\* Every step takes every call along one of these edges, or leaves it.
LEMMA ControlFlow ==
    ASSUME TypeInv, [Next]_vars, NEW c \in Calls, pc'[c] # pc[c]
    PROVE  Moves(c)
<1>1. ASSUME NEW d \in Calls, NEW p \in Projects, NEW kind \in Kinds, Start(d, p, kind)  PROVE Moves(c)
  BY <1>1 DEF TypeInv, Moves, Start, Goto, FirstStep, Kind
<1>2. ASSUME NEW d \in Calls, Lookup(d)  PROVE Moves(c)
  BY <1>2 DEF TypeInv, Moves, Lookup, Goto
<1>3. ASSUME NEW d \in Calls, Acquire(d)  PROVE Moves(c)
  BY <1>3 DEF TypeInv, Moves, Acquire, Goto
<1>4. ASSUME NEW d \in Calls, GetPlane(d)  PROVE Moves(c)
  BY <1>4 DEF TypeInv, Moves, GetPlane, Goto, Use
<1>5. ASSUME NEW d \in Calls, BuildStart(d)  PROVE Moves(c)
  BY <1>5 DEF TypeInv, Moves, BuildStart, StillMissing, Goto, Use
<1>6. ASSUME NEW d \in Calls, BuildSchema(d)  PROVE Moves(c)
  BY <1>6 DEF TypeInv, Moves, BuildSchema, Goto
<1>7. ASSUME NEW d \in Calls, BuildDone(d)  PROVE Moves(c)
  <2>1. c = d /\ pc[c] = "load" /\ pc'[c] = "use" /\ using'[c] = c
    BY <1>7 DEF TypeInv, BuildDone, Goto, Use
  <2>. QED  BY <1>7, <2>1 DEF Moves
<1>8. ASSUME NEW d \in Calls, BuildFail(d)  PROVE Moves(c)
  BY <1>8 DEF TypeInv, Moves, BuildFail, Return, Goto
<1>9. ASSUME NEW d \in Calls, Finish(d)  PROVE Moves(c)
  BY <1>9 DEF TypeInv, Moves, Finish, Return, Goto
<1>10. ASSUME NEW d \in Calls, PurgeBegin(d)  PROVE Moves(c)
  BY <1>10 DEF TypeInv, Moves, PurgeBegin, EvictPlane, Goto
<1>11. ASSUME NEW d \in Calls, PurgeDrop(d)  PROVE Moves(c)
  BY <1>11 DEF TypeInv, Moves, PurgeDrop, Goto
<1>12. ASSUME NEW d \in Calls, PurgeSweep(d)  PROVE Moves(c)
  BY <1>12 DEF TypeInv, Moves, PurgeSweep, EvictPlane, Goto
<1>13. ASSUME NEW d \in Calls, PurgeFinish(d)  PROVE Moves(c)
  BY <1>13 DEF TypeInv, Moves, PurgeFinish, Return, Goto
<1>14. ASSUME NEW d \in Calls, PurgeFail(d)  PROVE Moves(c)
  BY <1>14 DEF TypeInv, Moves, PurgeFail, Return, Goto
<1>15. CASE UNCHANGED pc
  BY <1>15
<1>. QED  BY <1>1, <1>2, <1>3, <1>4, <1>5, <1>6, <1>7, <1>8, <1>9, <1>10, <1>11, <1>12, <1>13,
   <1>14, <1>15 DEF Next, vars, Progress, Shutdown, CloseDone, Reap, ShutdownBegin, ShutdownClose,
   ShutdownEnd

\* A call that has begun keeps its project and its kind.
LEMMA JobsStay ==
    ASSUME TypeInv, [Next]_vars, NEW c \in Calls, pc[c] # "new"
    PROVE  pc'[c] # "new" /\ job'[c] = job[c]
<1>1. pc'[c] # "new"
  BY ControlFlow DEF Moves
<1>2. ASSUME NEW d \in Calls, NEW p \in Projects, NEW kind \in Kinds, Start(d, p, kind)
      PROVE  job'[c] = job[c]
  BY <1>2 DEF TypeInv, Start
<1>3. (\E d \in Calls, p \in Projects, kind \in Kinds : Start(d, p, kind)) \/ UNCHANGED job
  BY DEF Next, vars, Progress, Shutdown, Lookup, Acquire, GetPlane, BuildStart,
       BuildSchema, BuildDone, BuildFail, Finish, PurgeBegin, PurgeDrop, PurgeSweep, PurgeFinish,
       PurgeFail, CloseDone, Reap, ShutdownBegin, ShutdownClose, ShutdownEnd
<1>. QED  BY <1>1, <1>2, <1>3

\* The steps that open, close or move a plane.
LEMMA PlaneSteps ==
    ASSUME [Next]_vars
    PROVE  \/ \E c \in Calls : \/ BuildStart(c) \/ BuildDone(c) \/ BuildFail(c)
                               \/ PurgeBegin(c) \/ PurgeSweep(c) \/ CloseDone(c)
           \/ Reap
           \/ \E p \in Projects : ShutdownClose(p)
           \/ ShutdownEnd
           \/ UNCHANGED <<planes, status>>
BY DEF Next, vars, Progress, Shutdown, Start, Lookup, Acquire, GetPlane,
       BuildSchema, Finish, PurgeDrop, PurgeFinish, PurgeFail, ShutdownBegin

\* The steps that take or drop a lease.
LEMMA LeaseSteps ==
    ASSUME TypeInv, [Next]_vars
    PROVE  \/ \E c \in Calls, p \in Projects, kind \in Kinds : Start(c, p, kind)
           \/ \E c \in Calls : Running(c) /\ Return(c) /\ UNCHANGED job
           \/ ShutdownEnd
           \/ UNCHANGED <<job, inflight>> /\ \A c \in Calls : Running(c)' = Running(c)
BY DEF TypeInv, Running, Next, vars, Progress, Shutdown, Start, Lookup, Acquire, GetPlane,
   BuildStart,
       BuildSchema, BuildDone, BuildFail, Finish, PurgeBegin, PurgeDrop, PurgeSweep, PurgeFinish,
       PurgeFail, CloseDone, Reap, ShutdownBegin, ShutdownClose, EvictPlane,
       Goto, Use, FirstStep

\* The phase only changes when the manager shuts down, and nothing runs then.
LEMMA PhaseSteps ==
    ASSUME [Next]_vars
    PROVE  ShutdownBegin \/ ShutdownEnd \/ UNCHANGED phase
BY DEF Next, vars, Progress, Shutdown, Start, Lookup, Acquire, GetPlane, BuildStart,
       BuildSchema, BuildDone, BuildFail, Finish, PurgeBegin, PurgeDrop, PurgeSweep, PurgeFinish,
       PurgeFail, CloseDone, Reap, ShutdownClose

-----------------------------------------------------------------------------
(* Types *)

\* Every step keeps the types.
LEMMA TypeInvStep ==
    ASSUME TypeInv, [Next]_vars
    PROVE  TypeInv'
<1>1. ASSUME NEW c \in Calls, NEW p \in Projects, NEW kind \in Kinds, Start(c, p, kind)  PROVE TypeInv'
  BY <1>1 DEF TypeInv, Steps, Proj, Start, Goto, FirstStep, LeasesFrom
<1>2. ASSUME NEW c \in Calls, Lookup(c)  PROVE TypeInv'
  BY <1>2 DEF TypeInv, Steps, Proj, Lookup, Goto
<1>3. ASSUME NEW c \in Calls, Acquire(c)  PROVE TypeInv'
  BY <1>3 DEF TypeInv, Steps, Proj, Acquire, Goto
<1>4. ASSUME NEW c \in Calls, GetPlane(c)  PROVE TypeInv'
  BY <1>4 DEF TypeInv, Steps, Proj, GetPlane, Goto, Use
<1>5. ASSUME NEW c \in Calls, BuildStart(c)  PROVE TypeInv'
  BY <1>5 DEF TypeInv, Steps, Proj, BuildStart, StillMissing, Goto, Use
<1>6. ASSUME NEW c \in Calls, BuildSchema(c)  PROVE TypeInv'
  BY <1>6 DEF TypeInv, Steps, Proj, BuildSchema, Goto
<1>7. ASSUME NEW c \in Calls, BuildDone(c)  PROVE TypeInv'
  <2>1. PICK out : /\ planes' = [Evicted(out) EXCEPT ![Proj(c)] = c]
                   /\ status' = [ClosingStatus(out) EXCEPT ![c] = "open"]
    BY <1>7 DEF BuildDone
  <2>2. planes' \in [Projects -> Calls \cup {None}]
    BY <2>1 DEF Evicted, TypeInv
  <2>3. status' \in [Calls -> {"none", "building", "open", "closing", "closed", "dropped"}]
    BY <2>1 DEF ClosingStatus, TypeInv
  <2>. QED  BY <1>7, <2>2, <2>3 DEF TypeInv, Steps, BuildDone, Goto, Use
<1>8. ASSUME NEW c \in Calls, Finish(c)  PROVE TypeInv'
  BY <1>8 DEF TypeInv, Steps, Proj, Finish, Goto, Return, LeasesAfter
<1>9. ASSUME NEW c \in Calls, PurgeBegin(c)  PROVE TypeInv'
  <2>1. pc[c] = "purge" /\ UNCHANGED <<job, inflight, manager, queue, schema, phase>>
    BY <1>9 DEF PurgeBegin
  <2>2. CASE EvictPlane(c, "drop")
    BY <2>1, <2>2 DEF TypeInv, Steps, EvictPlane, Goto, Proj
  <2>3. CASE Goto(c, "sweep") /\ UNCHANGED <<using, planes, status>>
    BY <2>1, <2>3 DEF TypeInv, Steps, Goto
  <2>. QED  BY <1>9, <2>2, <2>3 DEF PurgeBegin
<1>10. ASSUME NEW c \in Calls, PurgeDrop(c)  PROVE TypeInv'
  BY <1>10 DEF TypeInv, Steps, Proj, PurgeDrop, Goto
<1>11. ASSUME NEW c \in Calls, PurgeSweep(c)  PROVE TypeInv'
  BY <1>11 DEF TypeInv, Steps, Proj, PurgeSweep, EvictPlane, Goto
<1>12. ASSUME NEW c \in Calls, PurgeFinish(c)  PROVE TypeInv'
  BY <1>12 DEF TypeInv, Steps, Proj, PurgeFinish, Return, Goto, LeasesAfter
<1>13. ASSUME NEW c \in Calls, CloseDone(c)  PROVE TypeInv'
  BY <1>13 DEF TypeInv, CloseDone
<1>14. ASSUME NEW c \in Calls, BuildFail(c)  PROVE TypeInv'
  BY <1>14 DEF TypeInv, Steps, Proj, BuildFail, Return, Goto, LeasesAfter, LockAfterFailure
<1>15. ASSUME NEW c \in Calls, PurgeFail(c)  PROVE TypeInv'
  BY <1>15 DEF TypeInv, Steps, Proj, PurgeFail, Return, Goto, LeasesAfter
<1>16. ASSUME Reap  PROVE TypeInv'
  BY <1>16 DEF TypeInv, Reap, Evicted, ClosingStatus, Victims, IdleProjects, Loaded
<1>17. ASSUME ShutdownBegin  PROVE TypeInv'
  BY <1>17 DEF TypeInv, ShutdownBegin
<1>18. ASSUME NEW p \in Projects, ShutdownClose(p)  PROVE TypeInv'
  BY <1>18 DEF TypeInv, ShutdownClose
<1>19. ASSUME ShutdownEnd  PROVE TypeInv'
  BY <1>19 DEF TypeInv, ShutdownEnd, Loaded, AllCloseAwaited
<1>20. ASSUME UNCHANGED vars  PROVE TypeInv'
  BY <1>20 DEF TypeInv, vars
<1>. QED  BY <1>1, <1>2, <1>3, <1>4, <1>5, <1>6, <1>7, <1>8, <1>9, <1>10, <1>11, <1>12, <1>13,
   <1>14, <1>15, <1>16, <1>17, <1>18, <1>19, <1>20 DEF Next, Progress, Shutdown

\* What evicting a set of loaded projects does to the planes.
LEMMA EvictionEffect ==
    ASSUME TypeInv, PlanesFit, OpenLoaded, Built, NEW out \in SUBSET Loaded
    PROVE  /\ \A c \in Calls :
              \/ ClosingStatus(out)[c] = status[c] /\ (status[c] = "open" => Proj(c) \notin out)
              \/ /\ ClosingStatus(out)[c] = "closing" /\ pc[c] # "new"
                 /\ Proj(c) \in out /\ planes[Proj(c)] = c
           /\ \A p \in Projects : Evicted(out)[p] = IF p \in out THEN None ELSE planes[p]
           /\ Evicted(out) \in [Projects -> Calls \cup {None}]
           /\ ClosingStatus(out) \in [Calls -> {"none", "building", "open", "closing", "closed", "dropped"}]
<1>1. \A p \in out : p \in Projects /\ planes[p] \in Calls /\ planes[p] # None
  BY DEF Loaded, TypeInv
<1>2. ASSUME NEW c \in Calls, \E p \in out : planes[p] = c
      PROVE  ClosingStatus(out)[c] = "closing" /\ pc[c] # "new" /\ Proj(c) \in out /\ planes[Proj(c)] = c
  BY <1>1, <1>2 DEF ClosingStatus, PlanesFit
<1>3. ASSUME NEW c \in Calls, ~ \E p \in out : planes[p] = c
      PROVE  ClosingStatus(out)[c] = status[c] /\ (status[c] = "open" => Proj(c) \notin out)
  BY <1>3 DEF ClosingStatus, OpenLoaded
<1>. QED  BY <1>1, <1>2, <1>3 DEF Evicted, ClosingStatus, TypeInv

-----------------------------------------------------------------------------
(* Leases *)

\* What LeasesCount counts.
Runners(p) == {c \in Calls : Running(c) /\ Proj(c) = p}

\* There are finitely many of them, since there are finitely many calls.
LEMMA RunnersFinite ==
    \A p : /\ IsFiniteSet(Runners(p))
           /\ Cardinality(Runners(p)) \in 0..Cardinality(Calls)
<1>. SUFFICES ASSUME NEW p
              PROVE  IsFiniteSet(Runners(p)) /\ Cardinality(Runners(p)) \in 0..Cardinality(Calls)
  OBVIOUS
<1>1. Runners(p) \in SUBSET Calls
  BY DEF Runners
<1>. QED  BY <1>1, CallsAssumption, FS_Subset, FS_CardinalityType

\* While a call runs, its project is leased.
LEMMA RunningIsLeased ==
    ASSUME TypeInv, LeasesCount, NEW c \in Calls, Running(c)
    PROVE  inflight[Proj(c)] # 0
<1>1. Proj(c) \in Projects /\ c \in Runners(Proj(c))
  BY DEF TypeInv, Running, Runners, Proj
<1>2. Cardinality(Runners(Proj(c))) # 0
  BY <1>1, RunnersFinite, FS_EmptySet
<1>. QED  BY <1>1, <1>2 DEF LeasesCount, Runners

\* Every step keeps the count: Start adds a runner and a lease, Return takes
\* both, and the reset in close finds no runner.
LEMMA LeasesCountStep ==
    ASSUME TypeInv, LeasesCount, Quiet, [Next]_vars
    PROVE  LeasesCount'
<1>. SUFFICES ASSUME NEW p \in Projects  PROVE inflight'[p] = Cardinality(Runners(p)')
  BY DEF LeasesCount, Runners
<1>1. inflight[p] = Cardinality(Runners(p)) /\ inflight[p] \in Int
  BY DEF LeasesCount, Runners, TypeInv
<1>2. IsFiniteSet(Runners(p)) /\ Cardinality(Runners(p)) \in Nat
  BY RunnersFinite
<1>3. ASSUME NEW c \in Calls, NEW q \in Projects, NEW kind \in Kinds, Start(c, q, kind)
      PROVE  inflight'[p] = Cardinality(Runners(p)')
  <2>1. c \notin Runners(p)
    BY <1>3 DEF Start, Runners, Running
  <2>2. Runners(p)' = IF p = q THEN Runners(p) \cup {c} ELSE Runners(p)
    BY <1>3 DEF Start, Runners, Running, Proj, Goto, FirstStep, TypeInv
  <2>3. inflight'[p] = IF p = q THEN inflight[p] + 1 ELSE inflight[p]
    BY <1>3 DEF Start, LeasesFrom, TypeInv
  <2>4. Cardinality(Runners(p) \cup {c}) = Cardinality(Runners(p)) + 1
    BY <1>2, <2>1, FS_AddElement
  <2>. QED  BY <1>1, <2>2, <2>3, <2>4
<1>4. ASSUME NEW c \in Calls, Running(c), Return(c), UNCHANGED job
      PROVE  inflight'[p] = Cardinality(Runners(p)')
  <2>1. c \in Runners(p) <=> p = Proj(c)
    BY <1>4 DEF Runners
  <2>2. Runners(p)' = Runners(p) \ {c}
    BY <1>4 DEF Return, Goto, Runners, Running, Proj, TypeInv
  <2>3. inflight'[p] = IF p = Proj(c) THEN inflight[p] - 1 ELSE inflight[p]
    <3>1. inflight' = [inflight EXCEPT ![Proj(c)] = @ - 1]
      BY <1>4 DEF Return, LeasesAfter
    <3>. QED  BY <3>1 DEF TypeInv
  <2>4. Cardinality(Runners(p) \ {c}) = IF c \in Runners(p) THEN Cardinality(Runners(p)) - 1
                                      ELSE Cardinality(Runners(p))
    BY <1>2, FS_RemoveElement
  <2>. QED  BY <1>1, <2>1, <2>2, <2>3, <2>4
<1>5. CASE ShutdownEnd
  <2>1. Runners(p)' = {}
    BY <1>5 DEF ShutdownEnd, Runners, Running, Quiet
  <2>. QED  BY <1>5, <2>1, FS_EmptySet DEF ShutdownEnd
<1>6. CASE UNCHANGED <<job, inflight>> /\ \A c \in Calls : Running(c)' = Running(c)
  <2>1. Runners(p)' = Runners(p)
    BY <1>6 DEF Runners, Proj
  <2>. QED  BY <1>1, <1>6, <2>1
<1>. QED  BY <1>3, <1>4, <1>5, <1>6, LeaseSteps

-----------------------------------------------------------------------------
(* Locks *)

\* No call begins once the manager shuts down.
LEMMA QuietStep ==
    ASSUME TypeInv, Quiet, [Next]_vars
    PROVE  Quiet'
<1>. SUFFICES ASSUME phase' # "up", NEW c \in Calls  PROVE ~Running(c)'
  BY DEF Quiet
<1>1. ~Running(c)
  BY PhaseSteps DEF Quiet, ShutdownBegin, ShutdownEnd
<1>2. pc'[c] = pc[c]
  BY <1>1, ControlFlow, PhaseSteps DEF Moves, Running, ShutdownBegin, ShutdownEnd
<1>. QED  BY <1>1, <1>2 DEF Running

\* A call enters the purge steps from the queue, by its kind.
LEMMA KindsFitStep ==
    ASSUME TypeInv, KindsFit, [Next]_vars
    PROVE  KindsFit'
<1>. SUFFICES ASSUME NEW c \in Calls, pc'[c] \in {"purge", "drop", "sweep", "files"}
              PROVE  Kind(c)' = "purge"
  BY DEF KindsFit
<1>1. \/ pc[c] \in {"purge", "drop", "sweep", "files"}
      \/ pc[c] = "queued" /\ Kind(c) = "purge"
  BY ControlFlow DEF Moves
<1>2. job'[c] = job[c]
  BY <1>1, JobsStay
<1>. QED  BY <1>1, <1>2 DEF KindsFit, Kind

\* How a project's queue changes: a call joins at its end, or the call at its
\* head returns.
LEMMA QueueSteps ==
    ASSUME TypeInv, [Next]_vars
    PROVE  \/ UNCHANGED queue
           \/ \E c \in Calls : /\ pc[c] = "lookup" /\ Goto(c, "queued")
                               /\ queue' = [queue EXCEPT ![Proj(c)] = Append(@, c)]
           \/ \E c \in Calls : Running(c) /\ Return(c)
BY DEF TypeInv, Running, Next, vars, Progress, Shutdown, Start, Lookup, Acquire, GetPlane,
   BuildStart,
       BuildSchema, BuildDone, BuildFail, Finish, PurgeBegin, PurgeDrop, PurgeSweep, PurgeFinish,
       PurgeFail, CloseDone, Reap, ShutdownBegin, ShutdownClose, ShutdownEnd

\* The call at the head of its project's queue stays there until it returns.
LEMMA HeadStays ==
    ASSUME TypeInv, [Next]_vars, NEW c \in Calls, Running(c), Running(c)',
           queue[Proj(c)] # << >>, Head(queue[Proj(c)]) = c
    PROVE  queue'[Proj(c)] # << >> /\ Head(queue'[Proj(c)]) = c
<1>. Proj(c) \in Projects /\ queue[Proj(c)] \in Seq(Calls)
  BY DEF TypeInv, Proj, Running
<1>1. CASE UNCHANGED queue
  BY <1>1
<1>2. ASSUME NEW d \in Calls, pc[d] = "lookup", queue' = [queue EXCEPT ![Proj(d)] = Append(@, d)]
      PROVE  queue'[Proj(c)] # << >> /\ Head(queue'[Proj(c)]) = c
  <2>. Proj(d) \in Projects
    BY <1>2 DEF TypeInv, Proj
  <2>1. queue'[Proj(c)] = queue[Proj(c)] \/ queue'[Proj(c)] = Append(queue[Proj(c)], d)
    BY <1>2 DEF TypeInv
  <2>. QED  BY <2>1
<1>3. ASSUME NEW d \in Calls, Running(d), Return(d)
      PROVE  queue'[Proj(c)] # << >> /\ Head(queue'[Proj(c)]) = c
  <2>1. d # c
    BY <1>3 DEF Return, Goto, Running, TypeInv
  <2>2. queue' = [queue EXCEPT ![Proj(d)] = IF @ # << >> /\ Head(@) = d THEN Tail(@) ELSE @]
    BY <1>3 DEF Return
  <2>3. queue'[Proj(c)] = queue[Proj(c)]
    BY <2>1, <2>2 DEF TypeInv
  <2>. QED  BY <2>3
<1>. QED  BY <1>1, <1>2, <1>3, QueueSteps

\* A write or a purge gets in at the head of the queue and stays there.
LEMMA SerialisedStep ==
    ASSUME TypeInv, Serialised, [Next]_vars
    PROVE  Serialised'
<1>. DEFINE Inside == Steps \ {"new", "lookup", "queued", "done"}
<1>. SUFFICES ASSUME NEW c \in Calls, pc'[c] \in Inside, Kind(c)' # "read"
              PROVE  queue'[Proj(c)'] # << >> /\ Head(queue'[Proj(c)']) = c
  BY TypeInvStep DEF Serialised, TypeInv
<1>1. \/ pc[c] \in Inside
      \/ pc[c] = "queued" /\ queue[Proj(c)] # << >> /\ Head(queue[Proj(c)]) = c
  BY TypeInvStep, ControlFlow DEF Moves, TypeInv, Steps
<1>2. job'[c] = job[c]
  BY <1>1, JobsStay
<1>3. queue[Proj(c)] # << >> /\ Head(queue[Proj(c)]) = c
  BY <1>1, <1>2 DEF Serialised, Kind
<1>4. Running(c) /\ Running(c)'
  BY <1>1 DEF Running
<1>. QED  BY <1>2, <1>3, <1>4, HeadStays DEF Proj

\* What a round of eviction takes was loaded and leased by nobody.
LEMMA EvictedAreIdle ==
    ASSUME NEW loaded, NEW keep, NEW out \in Victims(loaded, keep)
    PROVE  out \in SUBSET (loaded \ {keep}) /\ \A p \in out : inflight[p] = 0
BY DEF Victims, IdleProjects

\* The step that finishes a build: what it evicts, and what it keeps.
LEMMA BuildDoneEvicts ==
    ASSUME NEW c \in Calls, BuildDone(c)
    PROVE  \E out \in SUBSET Loaded :
              /\ \A p \in out : inflight[p] = 0 /\ p # Proj(c)
              /\ planes' = [Evicted(out) EXCEPT ![Proj(c)] = c]
              /\ status' = [ClosingStatus(out) EXCEPT ![c] = "open"]
<1>1. PICK out \in IF Cap > 0 THEN Victims(Loaded \cup {Proj(c)}, Proj(c)) ELSE {{}} :
              /\ planes' = [Evicted(out) EXCEPT ![Proj(c)] = c]
              /\ status' = [ClosingStatus(out) EXCEPT ![c] = "open"]
  BY DEF BuildDone
<1>2. out \in SUBSET Loaded /\ \A p \in out : inflight[p] = 0 /\ p # Proj(c)
  <2>1. CASE out = {}
    BY <2>1
  <2>2. CASE out \in Victims(Loaded \cup {Proj(c)}, Proj(c))
    BY <2>2, EvictedAreIdle
  <2>. QED  BY <1>1, <2>1, <2>2
<1>. QED  BY <1>1, <1>2

-----------------------------------------------------------------------------
(* Planes *)

\* _lock is held from BuildStart to BuildDone or BuildFail, and nothing else
\* puts a plane into _planes.
LEMMA BuildingStep ==
    ASSUME TypeInv, Building, Built, Quiet, PlanesFit, OpenLoaded, [Next]_vars
    PROVE  Building'
<1>1. ASSUME NEW c \in Calls, NEW p \in Projects, NEW kind \in Kinds, Start(c, p, kind)  PROVE Building'
  BY <1>1, NoneAssumption DEF TypeInv, Building, Built, Quiet, PlanesFit, Proj, Running, Start,
     Goto, FirstStep, LeasesFrom
<1>2. ASSUME NEW c \in Calls, Lookup(c)  PROVE Building'
  BY <1>2, NoneAssumption DEF TypeInv, Building, Built, Quiet, PlanesFit, Proj, Running, Lookup,
     Goto
<1>3. ASSUME NEW c \in Calls, Acquire(c)  PROVE Building'
  BY <1>3, NoneAssumption DEF TypeInv, Building, Built, Quiet, PlanesFit, Proj, Running, Acquire,
     Goto
<1>4. ASSUME NEW c \in Calls, GetPlane(c)  PROVE Building'
  BY <1>4, NoneAssumption DEF TypeInv, Building, Built, Quiet, PlanesFit, Proj, Running, GetPlane,
     Goto, Use
<1>5. ASSUME NEW c \in Calls, BuildStart(c)  PROVE Building'
  BY <1>5, NoneAssumption DEF TypeInv, Building, Built, Quiet, PlanesFit, Proj, Running,
     BuildStart, StillMissing, Goto, Use
<1>6. ASSUME NEW c \in Calls, BuildSchema(c)  PROVE Building'
  BY <1>6, NoneAssumption DEF TypeInv, Building, Built, Quiet, PlanesFit, Proj, Running,
     BuildSchema, Goto
<1>7. ASSUME NEW c \in Calls, BuildDone(c)  PROVE Building'
  <2>1. PICK out \in SUBSET Loaded : /\ planes' = [Evicted(out) EXCEPT ![Proj(c)] = c]
                                    /\ status' = [ClosingStatus(out) EXCEPT ![c] = "open"]
    BY <1>7, BuildDoneEvicts
  <2>2. manager = c /\ manager' = None /\ pc' = [pc EXCEPT ![c] = "use"]
    BY <1>7 DEF BuildDone, Building, Use, Goto
  <2>3. \A d \in Calls : pc'[d] \notin {"build", "load"}
    BY <2>2 DEF TypeInv, Building
  <2>4. \A d \in Calls : status'[d] # "building"
    BY <2>1, <2>2, EvictionEffect DEF TypeInv, Building
  <2>. QED  BY <2>2, <2>3, <2>4, NoneAssumption DEF Building
<1>8. ASSUME NEW c \in Calls, Finish(c)  PROVE Building'
  BY <1>8, NoneAssumption DEF TypeInv, Building, Built, Quiet, PlanesFit, Proj, Running, Finish,
     Goto, Return, LeasesAfter
<1>9. ASSUME NEW c \in Calls, PurgeBegin(c)  PROVE Building'
  BY <1>9, NoneAssumption DEF TypeInv, Building, Built, Quiet, PlanesFit, Proj, Running,
     PurgeBegin, EvictPlane, Goto
<1>10. ASSUME NEW c \in Calls, PurgeDrop(c)  PROVE Building'
  BY <1>10, NoneAssumption DEF TypeInv, Building, Built, Quiet, PlanesFit, Proj, Running,
     PurgeDrop, Goto
<1>11. ASSUME NEW c \in Calls, PurgeSweep(c)  PROVE Building'
  BY <1>11, NoneAssumption DEF TypeInv, Building, Built, Quiet, PlanesFit, Proj, Running,
     PurgeSweep, EvictPlane, Goto
<1>12. ASSUME NEW c \in Calls, PurgeFinish(c)  PROVE Building'
  BY <1>12, NoneAssumption DEF TypeInv, Building, Built, Quiet, PlanesFit, Proj, Running,
     PurgeFinish, Return, Goto, LeasesAfter
<1>13. ASSUME NEW c \in Calls, CloseDone(c)  PROVE Building'
  BY <1>13, NoneAssumption DEF TypeInv, Building, Built, Quiet, PlanesFit, Proj, Running, CloseDone
<1>14. ASSUME NEW c \in Calls, BuildFail(c)  PROVE Building'
  BY <1>14, NoneAssumption DEF TypeInv, Building, Built, Quiet, PlanesFit, Proj, Running,
     BuildFail, Return, Goto, LeasesAfter, LockAfterFailure
<1>15. ASSUME NEW c \in Calls, PurgeFail(c)  PROVE Building'
  BY <1>15, NoneAssumption DEF TypeInv, Building, Built, Quiet, PlanesFit, Proj, Running,
     PurgeFail, Return, Goto, LeasesAfter
<1>16. ASSUME Reap  PROVE Building'
  BY <1>16, NoneAssumption DEF TypeInv, Building, Built, Quiet, PlanesFit, Proj, Running, Reap,
     Evicted, ClosingStatus, Victims, IdleProjects, Loaded
<1>17. ASSUME ShutdownBegin  PROVE Building'
  BY <1>17, NoneAssumption DEF TypeInv, Building, Built, Quiet, PlanesFit, Proj, Running,
     ShutdownBegin
<1>18. ASSUME NEW p \in Projects, ShutdownClose(p)  PROVE Building'
  BY <1>18, NoneAssumption DEF TypeInv, Building, Built, Quiet, PlanesFit, Proj, Running,
     ShutdownClose
<1>19. ASSUME ShutdownEnd  PROVE Building'
  BY <1>19, NoneAssumption DEF TypeInv, Building, Built, Quiet, PlanesFit, Proj, Running,
     ShutdownEnd, Loaded, AllCloseAwaited
<1>20. ASSUME UNCHANGED vars  PROVE Building'
  BY <1>20, NoneAssumption DEF TypeInv, Building, Built, Quiet, PlanesFit, Proj, Running, vars
<1>. QED  BY <1>1, <1>2, <1>3, <1>4, <1>5, <1>6, <1>7, <1>8, <1>9, <1>10, <1>11, <1>12, <1>13,
   <1>14, <1>15, <1>16, <1>17, <1>18, <1>19, <1>20 DEF Next, Progress, Shutdown

\* A plane begins with its build.
LEMMA StatusBegins ==
    ASSUME TypeInv, Building, Built, PlanesFit, OpenLoaded, [Next]_vars,
           NEW c \in Calls, status[c] = "none", status'[c] # "none"
    PROVE  pc'[c] = "build"
<1>0. \A p \in Projects : planes[p] # c
  BY NoneAssumption DEF PlanesFit
<1>1. ASSUME NEW d \in Calls, BuildStart(d)  PROVE pc'[c] = "build"
  BY <1>1 DEF BuildStart, Goto, Use, TypeInv
<1>2. ASSUME NEW d \in Calls, BuildDone(d)  PROVE FALSE
  <2>1. c # d
    BY <1>2 DEF BuildDone, Building
  <2>2. PICK out \in SUBSET Loaded : status' = [ClosingStatus(out) EXCEPT ![d] = "open"]
    BY <1>2, BuildDoneEvicts
  <2>3. status'[c] = ClosingStatus(out)[c]
    BY <2>1, <2>2 DEF ClosingStatus
  <2>. QED  BY <1>0, <2>3, EvictionEffect DEF Loaded
<1>3. ASSUME NEW d \in Calls, BuildFail(d)  PROVE FALSE
  BY <1>3 DEF BuildFail, Building, TypeInv
<1>4. ASSUME NEW d \in Calls, PurgeBegin(d) \/ PurgeSweep(d)  PROVE FALSE
  <2>1. Proj(d) \in Projects
    BY <1>4 DEF PurgeBegin, PurgeSweep, TypeInv, Proj
  <2>2. status' = status \/ status' = [status EXCEPT ![planes[Proj(d)]] = "closing"]
    BY <1>4 DEF PurgeBegin, PurgeSweep, EvictPlane
  <2>. QED  BY <1>0, <2>1, <2>2 DEF TypeInv
<1>5. ASSUME NEW d \in Calls, CloseDone(d)  PROVE FALSE
  BY <1>5 DEF CloseDone, TypeInv
<1>6. CASE Reap
  <2>1. PICK out \in Victims(Loaded, None) : status' = ClosingStatus(out)
    BY <1>6 DEF Reap
  <2>. QED  BY <1>0, <2>1, EvictedAreIdle, EvictionEffect DEF Loaded, TypeInv
<1>7. ASSUME NEW p \in Projects, ShutdownClose(p)  PROVE FALSE
  BY <1>0, <1>7 DEF ShutdownClose, TypeInv
<1>8. CASE ShutdownEnd
  BY <1>8 DEF ShutdownEnd
<1>. QED  BY <1>1, <1>2, <1>3, <1>4, <1>5, <1>6, <1>7, <1>8, PlaneSteps

\* A plane outlives the call that built it, never precedes it.
LEMMA BuiltStep ==
    ASSUME TypeInv, Building, Built, PlanesFit, OpenLoaded, [Next]_vars
    PROVE  Built'
BY StatusBegins, ControlFlow DEF Built, Moves

\* A plane leaves "open" and _planes together, until the manager shuts down.
LEMMA PlanesFitStep ==
    ASSUME TypeInv, Quiet, Building, Built, PlanesFit, OpenLoaded, [Next]_vars
    PROVE  PlanesFit'
<1>. SUFFICES ASSUME NEW p \in Projects, planes'[p] # None
              PROVE  /\ pc'[planes'[p]] # "new"
                     /\ job'[planes'[p]].proj = p
                     /\ phase' = "up" => status'[planes'[p]] = "open"
                     /\ status'[planes'[p]] \in {"open", "closing", "closed"}
  BY DEF PlanesFit, Proj
<1>0. phase' = "up" => phase = "up"
  BY PhaseSteps DEF ShutdownBegin, ShutdownEnd
<1>1. ASSUME NEW d \in Calls, BuildDone(d), p = Proj(d)
      PROVE  planes'[p] = d /\ status'[d] = "open" /\ pc[d] # "new"
  <2>1. PICK out \in SUBSET Loaded : /\ planes' = [Evicted(out) EXCEPT ![p] = d]
                                    /\ status' = [ClosingStatus(out) EXCEPT ![d] = "open"]
    BY <1>1, BuildDoneEvicts
  <2>. QED  BY <1>1, <2>1 DEF BuildDone, Evicted, ClosingStatus
<1>2. ASSUME ~ \E d \in Calls : BuildDone(d) /\ p = Proj(d)
      PROVE  /\ planes'[p] = planes[p]
             /\ status'[planes[p]] # status[planes[p]] =>
                   phase # "up" /\ status'[planes[p]] \in {"closing", "closed"}
  <2>. DEFINE Kept == /\ planes'[p] = planes[p]
                      /\ status'[planes[p]] # status[planes[p]] =>
                            phase # "up" /\ status'[planes[p]] \in {"closing", "closed"}
  <2>0. planes[p] # None => /\ planes[p] \in Calls /\ Proj(planes[p]) = p
                            /\ phase = "up" => status[planes[p]] = "open"
                            /\ status[planes[p]] \in {"open", "closing", "closed"}
    BY DEF PlanesFit, TypeInv
  <2>1. ASSUME NEW d \in Calls, BuildStart(d)  PROVE Kept
    <3>1. status[d] = "none"
      BY <2>1 DEF BuildStart, Built, TypeInv
    <3>. QED  BY <2>0, <2>1, <3>1 DEF BuildStart, TypeInv
  <2>2. ASSUME NEW d \in Calls, BuildDone(d)  PROVE Kept
    <3>1. PICK out \in SUBSET Loaded : /\ planes' = [Evicted(out) EXCEPT ![Proj(d)] = d]
                                      /\ status' = [ClosingStatus(out) EXCEPT ![d] = "open"]
      BY <2>2, BuildDoneEvicts
    <3>2. planes'[p] = Evicted(out)[p] /\ planes[p] # d
      BY <1>2, <2>0, <2>2, <3>1, NoneAssumption DEF Evicted
    <3>3. p \notin out /\ planes'[p] = planes[p]
      BY <3>2 DEF Evicted
    <3>4. ClosingStatus(out)[planes[p]] = status[planes[p]]
      BY <2>0, <3>3, EvictionEffect
    <3>. QED  BY <2>0, <3>1, <3>2, <3>3, <3>4 DEF ClosingStatus
  <2>3. ASSUME NEW d \in Calls, BuildFail(d)  PROVE Kept
    <3>1. status[d] = "building"
      BY <2>3 DEF BuildFail, Building
    <3>. QED  BY <2>0, <2>3, <3>1 DEF BuildFail, TypeInv
  <2>4. ASSUME NEW d \in Calls, PurgeBegin(d) \/ PurgeSweep(d)  PROVE Kept
    <3>1. Proj(d) \in Projects
      BY <2>4 DEF PurgeBegin, PurgeSweep, TypeInv, Proj
    <3>2. CASE UNCHANGED <<planes, status>>
      BY <3>2
    <3>3. CASE /\ planes' = [planes EXCEPT ![Proj(d)] = None]
               /\ status' = IF planes[Proj(d)] = None THEN status
                            ELSE [status EXCEPT ![planes[Proj(d)]] = "closing"]
      <4>1. p # Proj(d) /\ planes'[p] = planes[p]
        BY <3>1, <3>3 DEF TypeInv
      <4>2. planes[Proj(d)] # None => planes[Proj(d)] # planes[p]
        BY <2>0, <3>1, <4>1 DEF PlanesFit
      <4>. QED  BY <3>3, <4>1, <4>2, <2>0 DEF TypeInv
    <3>. QED  BY <2>4, <3>2, <3>3 DEF PurgeBegin, PurgeSweep, EvictPlane
  <2>5. ASSUME NEW d \in Calls, CloseDone(d)  PROVE Kept
    BY <2>0, <2>5 DEF CloseDone, TypeInv
  <2>6. CASE Reap
    <3>1. PICK out \in Victims(Loaded, None) : planes' = Evicted(out) /\ status' = ClosingStatus(out)
      BY <2>6 DEF Reap
    <3>2. out \in SUBSET Loaded
      BY <3>1, EvictedAreIdle
    <3>3. p \notin out /\ planes'[p] = planes[p]
      BY <3>1, <3>2, EvictionEffect
    <3>. QED  BY <2>0, <3>1, <3>2, <3>3, EvictionEffect
  <2>7. ASSUME NEW q \in Projects, ShutdownClose(q)  PROVE Kept
    BY <2>0, <2>7 DEF ShutdownClose, TypeInv
  <2>8. CASE ShutdownEnd
    BY <2>8 DEF ShutdownEnd
  <2>9. CASE UNCHANGED <<planes, status>>
    BY <2>9
  <2>. QED  BY <2>1, <2>2, <2>3, <2>4, <2>5, <2>6, <2>7, <2>8, <2>9, PlaneSteps
<1>3. CASE \E d \in Calls : BuildDone(d) /\ p = Proj(d)
  BY <1>1, <1>3, JobsStay DEF Proj
<1>4. CASE ~ \E d \in Calls : BuildDone(d) /\ p = Proj(d)
  <2>1. /\ planes[p] \in Calls /\ pc[planes[p]] # "new" /\ Proj(planes[p]) = p
        /\ phase = "up" => status[planes[p]] = "open"
        /\ status[planes[p]] \in {"open", "closing", "closed"}
    BY <1>2, <1>4 DEF PlanesFit, TypeInv
  <2>2. pc'[planes[p]] # "new" /\ job'[planes[p]] = job[planes[p]]
    BY <2>1, JobsStay
  <2>. QED  BY <1>0, <1>2, <1>4, <2>1, <2>2 DEF Proj
<1>. QED  BY <1>3, <1>4

\* A plane stops being open only when nobody leases its project, when a purge
\* of the project evicts it, or when the manager shuts down.
LEMMA OpenEnds ==
    ASSUME TypeInv, Building, Built, PlanesFit, OpenLoaded, [Next]_vars,
           NEW c \in Calls, status[c] = "open", status'[c] # "open"
    PROVE  \/ inflight[Proj(c)] = 0
           \/ \E d \in Calls : pc[d] \in {"purge", "sweep"} /\ Proj(d) = Proj(c)
           \/ phase # "up"
<1>0. Proj(c) \in Projects /\ planes[Proj(c)] = c /\ pc[c] \in {"build", "load", "use", "done"}
  BY DEF Built, OpenLoaded, TypeInv, Proj
<1>1. ASSUME NEW d \in Calls, BuildStart(d)  PROVE FALSE
  BY <1>0, <1>1 DEF BuildStart, TypeInv
<1>2. ASSUME NEW d \in Calls, BuildDone(d)  PROVE inflight[Proj(c)] = 0
  <2>1. PICK out \in SUBSET Loaded : /\ \A p \in out : inflight[p] = 0
                                    /\ status' = [ClosingStatus(out) EXCEPT ![d] = "open"]
    BY <1>2, BuildDoneEvicts
  <2>2. c # d /\ ClosingStatus(out)[c] # "open"
    BY <2>1 DEF ClosingStatus
  <2>. QED  BY <2>1, <2>2, EvictionEffect
<1>3. ASSUME NEW d \in Calls, BuildFail(d)  PROVE FALSE
  <2>1. status[d] = "building"
    BY <1>3 DEF BuildFail, Building
  <2>. QED  BY <1>3, <2>1 DEF BuildFail, TypeInv
<1>4. ASSUME NEW d \in Calls, PurgeBegin(d) \/ PurgeSweep(d)
      PROVE  pc[d] \in {"purge", "sweep"} /\ Proj(d) = Proj(c)
  <2>1. pc[d] \in {"purge", "sweep"} /\ Proj(d) \in Projects
    BY <1>4 DEF PurgeBegin, PurgeSweep, TypeInv, Proj
  <2>2. /\ planes[Proj(d)] # None
        /\ status' = [status EXCEPT ![planes[Proj(d)]] = "closing"]
    BY <1>4 DEF PurgeBegin, PurgeSweep, EvictPlane
  <2>3. planes[Proj(d)] = c
    BY <2>2 DEF TypeInv
  <2>. QED  BY <2>1, <2>2, <2>3 DEF PlanesFit
<1>5. ASSUME NEW d \in Calls, CloseDone(d)  PROVE FALSE
  BY <1>5 DEF CloseDone, TypeInv
<1>6. CASE Reap
  <2>1. PICK out \in Victims(Loaded, None) : status' = ClosingStatus(out)
    BY <1>6 DEF Reap
  <2>2. out \in SUBSET Loaded /\ \A p \in out : inflight[p] = 0
    BY <2>1, EvictedAreIdle
  <2>. QED  BY <2>1, <2>2, EvictionEffect
<1>7. ASSUME NEW p \in Projects, ShutdownClose(p)  PROVE phase # "up"
  BY <1>7 DEF ShutdownClose
<1>8. CASE ShutdownEnd
  BY <1>8 DEF ShutdownEnd
<1>. QED  BY <1>1, <1>2, <1>3, <1>4, <1>5, <1>6, <1>7, <1>8, PlaneSteps

\* A plane becomes open when it is put into _planes, and leaves both together.
LEMMA OpenLoadedStep ==
    ASSUME TypeInv, Quiet, Building, Built, PlanesFit, OpenLoaded, [Next]_vars
    PROVE  OpenLoaded'
<1>. SUFFICES ASSUME NEW c \in Calls, status'[c] = "open"
              PROVE  planes'[job'[c].proj] = c
  BY DEF OpenLoaded, Proj
<1>1. ASSUME status[c] # "open"  PROVE BuildDone(c)
  <2>1. ASSUME NEW d \in Calls, BuildDone(d), d # c  PROVE FALSE
    <3>1. PICK out \in SUBSET Loaded : status' = [ClosingStatus(out) EXCEPT ![d] = "open"]
      BY <2>1, BuildDoneEvicts
    <3>2. status'[c] = ClosingStatus(out)[c]
      BY <2>1, <3>1 DEF ClosingStatus
    <3>. QED  BY <1>1, <3>2, EvictionEffect
  <2>2. ASSUME NEW d \in Calls, BuildStart(d) \/ BuildFail(d) \/ CloseDone(d)  PROVE FALSE
    BY <1>1, <2>2 DEF BuildStart, BuildFail, CloseDone, TypeInv
  <2>3. ASSUME NEW d \in Calls, PurgeBegin(d) \/ PurgeSweep(d)  PROVE FALSE
    <3>1. status' = status \/ status' = [status EXCEPT ![planes[Proj(d)]] = "closing"]
      BY <2>3 DEF PurgeBegin, PurgeSweep, EvictPlane
    <3>. QED  BY <1>1, <3>1 DEF TypeInv
  <2>4. ASSUME Reap  PROVE FALSE
    BY <1>1, <2>4, EvictedAreIdle, EvictionEffect DEF Reap
  <2>5. ASSUME NEW p \in Projects, ShutdownClose(p)  PROVE FALSE
    BY <1>1, <2>5 DEF ShutdownClose, TypeInv
  <2>6. ASSUME ShutdownEnd  PROVE FALSE
    BY <1>1, <2>6 DEF ShutdownEnd
  <2>. QED  BY <1>1, <2>1, <2>2, <2>3, <2>4, <2>5, <2>6, PlaneSteps
<1>2. CASE status[c] # "open"
  <2>1. BuildDone(c) /\ pc[c] = "load" /\ Proj(c) \in Projects
    BY <1>1, <1>2 DEF BuildDone, TypeInv, Proj
  <2>2. PICK out : planes' = [Evicted(out) EXCEPT ![Proj(c)] = c]
    BY <2>1, BuildDoneEvicts
  <2>. QED  BY <2>1, <2>2, JobsStay DEF Evicted, Proj
<1>3. CASE status[c] = "open"
  <2>1. pc[c] # "new" /\ Proj(c) \in Projects /\ planes[Proj(c)] = c
    BY <1>3 DEF Built, OpenLoaded, TypeInv, Proj
  <2>2. job'[c] = job[c]
    BY <2>1, JobsStay
  <2>. SUFFICES planes'[Proj(c)] = c
    BY <2>2 DEF Proj
  <2>3. ASSUME NEW d \in Calls, BuildDone(d)  PROVE planes'[Proj(c)] = c
    <3>1. PICK out \in SUBSET Loaded : /\ planes' = [Evicted(out) EXCEPT ![Proj(d)] = d]
                                      /\ status' = [ClosingStatus(out) EXCEPT ![d] = "open"]
      BY <2>3, BuildDoneEvicts
    <3>2. manager = d /\ planes[Proj(d)] = None /\ status[d] = "building"
      BY <2>3 DEF BuildDone, Building
    <3>3. c # d /\ Proj(c) # Proj(d)
      BY <1>3, <2>1, <3>2, NoneAssumption
    <3>4. Proj(c) \notin out
      BY <1>3, <3>1, <3>3, EvictionEffect DEF ClosingStatus
    <3>. QED  BY <2>1, <3>1, <3>3, <3>4 DEF Evicted
  <2>4. ASSUME NEW d \in Calls, PurgeBegin(d) \/ PurgeSweep(d)  PROVE planes'[Proj(c)] = c
    <3>1. CASE UNCHANGED planes
      BY <2>1, <3>1
    <3>2. CASE /\ planes' = [planes EXCEPT ![Proj(d)] = None]
               /\ status' = IF planes[Proj(d)] = None THEN status
                            ELSE [status EXCEPT ![planes[Proj(d)]] = "closing"]
      <4>1. Proj(d) # Proj(c)
        BY <2>1, <3>2, NoneAssumption DEF TypeInv
      <4>. QED  BY <2>1, <3>2, <4>1 DEF TypeInv
    <3>. QED  BY <2>4, <3>1, <3>2 DEF PurgeBegin, PurgeSweep, EvictPlane
  <2>5. CASE Reap
    <3>1. PICK out \in Victims(Loaded, None) : planes' = Evicted(out) /\ status' = ClosingStatus(out)
      BY <2>5 DEF Reap
    <3>2. Proj(c) \notin out /\ out \in SUBSET Loaded
      BY <1>3, <3>1, EvictedAreIdle, EvictionEffect
    <3>. QED  BY <2>1, <3>1, <3>2 DEF Evicted
  <2>6. CASE ShutdownEnd
    BY <1>3, <2>1, <2>6, NoneAssumption DEF ShutdownEnd, Loaded
  <2>7. CASE UNCHANGED planes
    BY <2>1, <2>7
  <2>. QED  BY <2>3, <2>4, <2>5, <2>6, <2>7, PlaneSteps
            DEF BuildStart, BuildFail, CloseDone, ShutdownClose
<1>. QED  BY <1>2, <1>3

\* What a call works with changes when the call itself moves on, and not before.
LEMMA UsingStays ==
    ASSUME TypeInv, [Next]_vars, NEW c \in Calls, pc[c] = "use", pc'[c] = "use"
    PROVE  using'[c] = using[c]
<1>1. UNCHANGED using \/ \E d \in Calls : /\ \E label \in Steps \ {pc[d]} : Goto(d, label)
                                         /\ \E plane : using' = [using EXCEPT ![d] = plane]
  BY DEF Steps, Next, vars, Progress, Shutdown, Start, Lookup, Acquire, GetPlane, BuildStart,
       BuildSchema, BuildDone, BuildFail, Finish, PurgeBegin, PurgeDrop, PurgeSweep, PurgeFinish,
       PurgeFail, CloseDone, Reap, ShutdownBegin, ShutdownClose, ShutdownEnd, Return, EvictPlane, Use
<1>. QED  BY <1>1 DEF Goto, TypeInv

\* Two calls inside a project's mutation lock are one call.
LEMMA Alone ==
    ASSUME TypeInv, Serialised, KindsFit, NEW c \in Calls, NEW d \in Calls,
           pc[c] = "use", Kind(c) = "write", pc[d] \in {"purge", "sweep"}, Proj(d) = Proj(c)
    PROVE  FALSE
<1>1. Kind(d) = "purge"
  BY DEF KindsFit
<1>2. Head(queue[Proj(c)]) = c /\ Head(queue[Proj(d)]) = d
  BY <1>1 DEF Serialised
<1>. QED  BY <1>2

\* A call gets an open plane and holds a lease on its project from before that;
\* only a purge closes a leased plane, and the mutation lock keeps purges from
\* writes.
LEMMA UsesOwnStep ==
    ASSUME TypeInv, LeasesCount, Quiet, KindsFit, Serialised, Building, Built, PlanesFit,
           OpenLoaded, UsesOwn, [Next]_vars
    PROVE  UsesOwn'
<1>. SUFFICES ASSUME NEW c \in Calls, pc'[c] = "use"
              PROVE  /\ using'[c] \in Calls
                     /\ pc'[using'[c]] # "new"
                     /\ job'[using'[c]].proj = job'[c].proj
                     /\ \/ status'[using'[c]] = "open"
                        \/ /\ job'[c].kind # "write"
                           /\ \E d \in Calls : /\ pc'[d] # "new"
                                               /\ job'[d] = [kind |-> "purge", proj |-> job'[c].proj]
  BY DEF UsesOwn, Proj, Kind
<1>0. Running(c) /\ job'[c] = job[c] /\ Proj(c) \in Projects /\ phase = "up"
  <2>1. pc[c] \in {"get", "wait", "load", "use"}
    BY ControlFlow DEF Moves
  <2>. QED  BY <2>1, JobsStay DEF Running, Quiet, TypeInv, Proj
<1>1. CASE pc[c] # "use" /\ pc[c] # "load"
  <2>1. planes[Proj(c)] # None /\ using'[c] = planes[Proj(c)] /\ UNCHANGED status
    BY <1>1, ControlFlow DEF Moves
  <2>2. /\ planes[Proj(c)] \in Calls /\ pc[planes[Proj(c)]] # "new"
        /\ Proj(planes[Proj(c)]) = Proj(c) /\ status[planes[Proj(c)]] = "open"
    BY <1>0, <2>1 DEF PlanesFit, TypeInv
  <2>3. pc'[planes[Proj(c)]] # "new" /\ job'[planes[Proj(c)]] = job[planes[Proj(c)]]
    BY <2>2, JobsStay
  <2>. QED  BY <1>0, <2>1, <2>2, <2>3 DEF Proj
<1>2. CASE pc[c] = "load"
  <2>1. using'[c] = c /\ BuildDone(c)
    BY <1>2, ControlFlow DEF Moves
  <2>2. status'[c] = "open"
    BY <2>1, BuildDoneEvicts DEF ClosingStatus
  <2>. QED  BY <1>0, <2>1, <2>2
<1>3. CASE pc[c] = "use"
  <2>. DEFINE e == using[c]
  <2>1. using'[c] = e
    BY <1>3, UsingStays
  <2>2. e \in Calls /\ pc[e] # "new" /\ Proj(e) = Proj(c)
    BY <1>3 DEF UsesOwn
  <2>3. pc'[e] # "new" /\ job'[e] = job[e]
    BY <2>2, JobsStay
  <2>. HIDE DEF e
  <2>4. CASE status'[e] = "open"
    BY <1>0, <2>1, <2>2, <2>3, <2>4 DEF Proj
  <2>5. ASSUME status'[e] # "open"
        PROVE  /\ Kind(c) # "write"
               /\ \E d \in Calls : pc[d] # "new" /\ job[d] = [kind |-> "purge", proj |-> Proj(c)]
    <3>1. CASE status[e] # "open"
      BY <1>3, <3>1 DEF UsesOwn, e
    <3>2. CASE status[e] = "open"
      <4>1. inflight[Proj(e)] # 0
        BY <1>0, <2>2, RunningIsLeased
      <4>2. PICK d \in Calls : pc[d] \in {"purge", "sweep"} /\ Proj(d) = Proj(c)
        BY <1>0, <2>2, <2>5, <3>2, <4>1, OpenEnds
      <4>3. Kind(c) # "write"
        BY <1>3, <4>2, Alone
      <4>4. pc[d] # "new" /\ Kind(d) = "purge" /\ job[d] \in [kind : Kinds, proj : Projects]
        BY <4>2 DEF KindsFit, TypeInv
      <4>5. job[d] = [kind |-> "purge", proj |-> Proj(c)]
        BY <4>2, <4>4 DEF Kind, Proj
      <4>. QED  BY <4>3, <4>4, <4>5
    <3>. QED  BY <3>1, <3>2
  <2>6. CASE status'[e] # "open"
    <3>1. PICK d \in Calls : pc[d] # "new" /\ job[d] = [kind |-> "purge", proj |-> Proj(c)]
      BY <2>5, <2>6
    <3>2. pc'[d] # "new" /\ job'[d] = job[d]
      BY <3>1, JobsStay
    <3>. QED  BY <1>0, <2>1, <2>2, <2>3, <2>5, <2>6, <3>1, <3>2 DEF Proj, Kind
  <2>. QED  BY <2>4, <2>6
<1>. QED  BY <1>1, <1>2, <1>3

\* Once the manager is down, nothing opens, builds or closes a plane.
LEMMA AllClosedStep ==
    ASSUME TypeInv, Quiet, Building, Built, PlanesFit, OpenLoaded, AllClosedWhenDown, [Next]_vars
    PROVE  AllClosedWhenDown'
<1>1. CASE ShutdownEnd
  <2>. SUFFICES ASSUME NEW c \in Calls  PROVE status[c] \in {"none", "closed", "dropped"}
    BY <1>1 DEF ShutdownEnd, AllClosedWhenDown
  <2>1. status[c] # "closing"
    BY <1>1 DEF ShutdownEnd, AllCloseAwaited
  <2>2. status[c] # "building"
    <3>1. ~Running(c)
      BY <1>1 DEF ShutdownEnd, Quiet
    <3>. QED  BY <3>1 DEF Building, Running
  <2>3. status[c] # "open"
    <3>1. ASSUME status[c] = "open"  PROVE Proj(c) \in Loaded /\ planes[Proj(c)] = c
      BY <3>1, NoneAssumption DEF Built, OpenLoaded, Loaded, TypeInv, Proj
    <3>. QED  BY <1>1, <3>1 DEF ShutdownEnd
  <2>. QED  BY <2>1, <2>2, <2>3 DEF TypeInv
<1>2. CASE phase = "down" /\ phase' = "down"
  <2>. SUFFICES ASSUME NEW c \in Calls  PROVE status'[c] \in {"none", "closed", "dropped"}
    BY DEF AllClosedWhenDown
  <2>0. status[c] \in {"none", "closed", "dropped"} /\ ~Running(c)
    BY <1>2 DEF AllClosedWhenDown, Quiet
  <2>1. ASSUME NEW d \in Calls, BuildStart(d) \/ BuildDone(d) \/ BuildFail(d) \/ PurgeBegin(d) \/ PurgeSweep(d)
        PROVE  FALSE
    BY <1>2, <2>1 DEF Quiet, Running, BuildStart, BuildDone, BuildFail, PurgeBegin, PurgeSweep
  <2>2. ASSUME NEW d \in Calls, CloseDone(d)  PROVE FALSE
    BY <1>2, <2>2 DEF CloseDone, AllClosedWhenDown
  <2>. QED  BY <1>2, <2>0, <2>1, <2>2, PlaneSteps DEF Reap, ShutdownClose, ShutdownEnd
<1>. QED  BY <1>1, <1>2, PhaseSteps DEF ShutdownBegin, AllClosedWhenDown

-----------------------------------------------------------------------------
(* Theorems *)

\* It holds at the start.
LEMMA InitIInv == Init => IInv
<1>. SUFFICES ASSUME Init  PROVE IInv
  OBVIOUS
<1>1. TypeInv
  BY EmptySeq DEF Init, TypeInv, Steps
<1>2. LeasesCount
  <2>1. \A p \in Projects : {c \in Calls : Running(c) /\ Proj(c) = p} = {}
    BY DEF Init, Running
  <2>. QED  BY <2>1, FS_EmptySet DEF Init, LeasesCount
<1>3. Quiet /\ KindsFit /\ Serialised /\ Built /\ UsesOwn /\ AllClosedWhenDown
  BY DEF Init, Quiet, KindsFit, Serialised, Built, UsesOwn, AllClosedWhenDown
<1>4. Building /\ PlanesFit /\ OpenLoaded
  BY NoneAssumption DEF Init, Building, PlanesFit, OpenLoaded
<1>. QED  BY <1>1, <1>2, <1>3, <1>4 DEF IInv

\* The runtime manager's inductive invariant.
THEOREM IInvCorrect == Spec => []IInv
<1>1. IInv /\ [Next]_vars => IInv'
  <2>. SUFFICES ASSUME IInv, [Next]_vars  PROVE IInv'
    OBVIOUS
  <2>. USE DEF IInv
  <2>1. TypeInv' /\ LeasesCount' /\ Quiet' /\ KindsFit' /\ Serialised'
    BY TypeInvStep, LeasesCountStep, QuietStep, KindsFitStep, SerialisedStep
  <2>2. Building' /\ Built' /\ PlanesFit' /\ OpenLoaded'
    BY BuildingStep, BuiltStep, PlanesFitStep, OpenLoadedStep
  <2>3. UsesOwn' /\ AllClosedWhenDown'
    BY UsesOwnStep, AllClosedStep
  <2>. QED  BY <2>1, <2>2, <2>3
<1>. QED  BY InitIInv, <1>1, PTL DEF Spec

\* Every reachable state is well typed; lease counts stay within the number of
\* calls although Return subtracts without a check.
THEOREM TypeCorrect == Spec => []TypeOK
<1>1. IInv => TypeOK
  <2>. SUFFICES ASSUME IInv  PROVE TypeOK
    OBVIOUS
  <2>1. \A p \in Projects : inflight[p] \in 0..Cardinality(Calls)
    <3>1. Cardinality(Calls) \in Nat
      BY CallsAssumption, FS_CardinalityType
    <3>2. \A p \in Projects : inflight[p] = Cardinality(Runners(p))
      BY DEF IInv, LeasesCount, Runners
    <3>. QED  BY <3>1, <3>2, RunnersFinite
  <2>2. inflight \in [Projects -> 0..Cardinality(Calls)]
    BY <2>1 DEF IInv, TypeInv
  <2>. QED  BY <2>2 DEF IInv, TypeInv, TypeOK
<1>. QED  BY IInvCorrect, <1>1, PTL

\* _leased_plane balances: whatever calls do, a project's lease count is the
\* number of its calls that have begun and not ended.
THEOREM LeasesAreCounted == Spec => []LeasesCount
<1>1. IInv => LeasesCount
  BY DEF IInv
<1>. QED  BY IInvCorrect, <1>1, PTL

\* get_plane never has two planes open or under construction for a project.
THEOREM OnePlaneEach == Spec => []OnePlanePerProject
<1>1. IInv => OnePlanePerProject
  <2>. SUFFICES ASSUME IInv, NEW c \in Calls, NEW d \in Calls
                PROVE  /\ status[c] = "open" => planes[Proj(c)] = c
                       /\ {status[c], status[d]} \subseteq {"open", "building"} /\ Proj(c) = Proj(d) => c = d
    BY DEF OnePlanePerProject
  <2>1. \A e \in Calls : status[e] = "open" => planes[Proj(e)] = e
    BY DEF IInv, OpenLoaded
  <2>2. \A e \in Calls : status[e] = "building" => manager = e /\ planes[Proj(e)] = None
    BY DEF IInv, Building
  <2>. QED  BY <2>1, <2>2, NoneAssumption
<1>. QED  BY IInvCorrect, <1>1, PTL

\* A write works with an open plane until it returns, whoever evicts or purges.
THEOREM WritesAreSafe == Spec => []WritesKeepTheirPlane
<1>1. IInv => WritesKeepTheirPlane
  BY DEF IInv, UsesOwn, WritesKeepTheirPlane
<1>. QED  BY IInvCorrect, <1>1, PTL

\* A read loses its plane to a purge of its project and to nothing else.
THEOREM ReadsLoseTheirPlaneToPurges == Spec => []OnlyAPurgeTakesAPlaneInUse
<1>1. IInv => OnlyAPurgeTakesAPlaneInUse
  BY DEF IInv, UsesOwn, OnlyAPurgeTakesAPlaneInUse
<1>. QED  BY IInvCorrect, <1>1, PTL

\* close leaves no plane open, half built or still closing.
THEOREM DownMeansClosed == Spec => []AllClosedWhenDown
<1>1. IInv => AllClosedWhenDown
  BY DEF IInv
<1>. QED  BY IInvCorrect, <1>1, PTL


\* A purge drops the schema of its project only once every plane of it has
\* closed (purge_project).
THEOREM DropsWaitForCloses == Spec => NoDropWhileClosing
<1>1. TypeOK /\ [Next]_vars => [DropsAfterClosing]_vars
  <2>. SUFFICES ASSUME TypeOK, Next  PROVE DropsAfterClosing
    OBVIOUS
  <2>1. CASE \E c \in Calls : PurgeDrop(c)
    BY <2>1 DEF PurgeDrop, AwaitClosing, DropsAfterClosing, TypeOK
  <2>2. CASE \E c \in Calls : BuildSchema(c)
    BY <2>2 DEF BuildSchema, DropsAfterClosing, TypeOK
  <2>3. CASE schema' = schema
    BY <2>3 DEF DropsAfterClosing
  <2>. QED
    BY <2>1, <2>2, <2>3
    DEF Next, Progress, Shutdown, Start, Lookup, Acquire, GetPlane, BuildStart, BuildDone, BuildFail,
        Finish, Reap, CloseDone, PurgeBegin, PurgeSweep, PurgeFinish, PurgeFail,
        ShutdownBegin, ShutdownClose, ShutdownEnd
<1>. QED  BY <1>1, TypeCorrect, PTL DEF Spec, NoDropWhileClosing
=============================================================================
