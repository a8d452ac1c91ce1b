---------------------------- MODULE CloudRuntime ----------------------------
(***************************************************************************)
(* The hosted runtime manager (cloud/runtime.py) with its Postgres         *)
(* storage: it loads one plane per project on first use, evicts planes     *)
(* nobody uses, serialises mutations per project, purges projects and      *)
(* shuts down.  Everything runs on one event loop, so a step is what       *)
(* happens between two awaits.                                             *)
(*                                                                         *)
(* A call runs once.  A plane is named by the call that built it: get_plane *)
(* builds at most one.  What a call does with its plane is one step whose  *)
(* length is open; idle times are a choice of the reaper.                  *)
(***************************************************************************)
EXTENDS Integers, Sequences, FiniteSets

CONSTANTS
    Calls,       \* requests, and the planes they build
    Projects,
    Kinds,       \* which kinds of call are made
    Cap,         \* BILINC_CLOUD_PLANE_MAX, 0 for no cap
    IdleLimit,   \* is BILINC_CLOUD_PLANE_IDLE_SECONDS set?
    None

ASSUME CallsAssumption == IsFiniteSet(Calls)
ASSUME KindsAssumption == Kinds \subseteq {"read", "write", "purge"}
ASSUME CapAssumption   == Cap \in Nat /\ IdleLimit \in BOOLEAN
ASSUME NoneAssumption  == None \notin Calls

VARIABLES
    pc,        \* [Calls -> where the call is]
    job,       \* [Calls -> [kind, proj], or None before the call]
    using,     \* [Calls -> the plane it got from get_plane or is closing, or None]
    planes,    \* [Projects -> plane or None]: _planes
    inflight,  \* [Projects -> Nat]: _inflight
    manager,   \* the call that holds _lock, or None
    queue,     \* [Projects -> calls at the project's mutation lock, holder first]
    status,    \* [Calls -> "none", "building", "open", "closing", "closed" or "dropped"]
    schema,    \* [Projects -> BOOLEAN]: does the project's schema exist?
    phase      \* the manager: "up", "closing" or "down"

vars == <<pc, job, using, planes, inflight, manager, queue, status, schema, phase>>

Proj(c) == job[c].proj
Kind(c) == job[c].kind

Running(c) == pc[c] \notin {"new", "done"}

Loaded == {p \in Projects : planes[p] # None}

\* Planes of project p that are being closed (_closing, or awaited by a purge).
ClosingPlanes(p) == {c \in Calls : status[c] = "closing" /\ Proj(c) = p}

-----------------------------------------------------------------------------
Init ==
    /\ pc = [c \in Calls |-> "new"]
    /\ job = [c \in Calls |-> None]
    /\ using = [c \in Calls |-> None]
    /\ planes = [p \in Projects |-> None]
    /\ inflight = [p \in Projects |-> 0]
    /\ manager = None
    /\ queue = [p \in Projects |-> << >>]
    /\ status = [c \in Calls |-> "none"]
    /\ schema = [p \in Projects |-> FALSE]
    /\ phase = "up"

Goto(c, label) == pc' = [pc EXCEPT ![c] = label]

(* Leases and locks: the decorators of every method *)

\* Mutant: a purge does not wait for the project's mutation lock.
FirstStepPurgeUnserialised(kind) == IF kind = "write" THEN "lookup" ELSE IF kind = "purge" THEN "purge" ELSE "get"

FirstStep(kind) == IF kind = "read" THEN "get" ELSE "lookup"

\* Mutant: no lease is taken.
LeasesFromNone(p) == inflight

LeasesFrom(p) == [inflight EXCEPT ![p] = @ + 1]

\* _leased_plane: the lease is taken before the first await.
Start(c, p, kind) ==
    /\ phase = "up"
    /\ pc[c] = "new"
    /\ job' = [job EXCEPT ![c] = [kind |-> kind, proj |-> p]]
    /\ inflight' = LeasesFrom(p)
    /\ Goto(c, FirstStep(kind))
    /\ UNCHANGED <<using, planes, manager, queue, status, schema, phase>>

\* _project_mutation_lock: needs _lock for a moment, then queues up.
Lookup(c) ==
    /\ pc[c] = "lookup"
    /\ manager = None
    /\ queue' = [queue EXCEPT ![Proj(c)] = Append(@, c)]
    /\ Goto(c, "queued")
    /\ UNCHANGED <<job, using, planes, inflight, manager, status, schema, phase>>

Acquire(c) ==
    /\ pc[c] = "queued"
    /\ queue[Proj(c)] # << >> /\ Head(queue[Proj(c)]) = c
    /\ Goto(c, IF Kind(c) = "purge" THEN "purge" ELSE "get")
    /\ UNCHANGED <<job, using, planes, inflight, manager, queue, status, schema, phase>>

\* Mutant: a call that raises keeps its lease.
LeasesAfterKeepingFailed(c) ==
    IF using[c] = None /\ Kind(c) # "purge" THEN inflight ELSE [inflight EXCEPT ![Proj(c)] = @ - 1]

\* The call ends, by value or by exception: the lock is released, the lease dropped.
LeasesAfter(c) == [inflight EXCEPT ![Proj(c)] = @ - 1]

Return(c) ==
    /\ Goto(c, "done")
    /\ using' = [using EXCEPT ![c] = None]
    /\ inflight' = LeasesAfter(c)
    /\ queue' = [queue EXCEPT ![Proj(c)] = IF @ # << >> /\ Head(@) = c THEN Tail(@) ELSE @]

-----------------------------------------------------------------------------
(* get_plane *)

Use(c, plane) ==
    /\ using' = [using EXCEPT ![c] = plane]
    /\ Goto(c, "use")

\* The plane is loaded, or the call has to wait for the encoder and for _lock.
GetPlane(c) ==
    /\ pc[c] = "get"
    /\ IF planes[Proj(c)] # None
       THEN Use(c, planes[Proj(c)])
       ELSE Goto(c, "wait") /\ UNCHANGED using
    /\ UNCHANGED <<job, planes, inflight, manager, queue, status, schema, phase>>

\* Mutant: _lock is taken without looking again.
StillMissingUnchecked(c) == TRUE

StillMissing(c) == planes[Proj(c)] = None

\* Under _lock: look again, then start to build.
BuildStart(c) ==
    /\ pc[c] = "wait"
    /\ manager = None
    /\ IF StillMissing(c)
       THEN /\ manager' = c
            /\ status' = [status EXCEPT ![c] = "building"]
            /\ Goto(c, "build")
            /\ UNCHANGED using
       ELSE /\ Use(c, planes[Proj(c)])
            /\ UNCHANGED <<manager, status>>
    /\ UNCHANGED <<job, planes, inflight, queue, schema, phase>>

\* plane.init creates the schema first.
BuildSchema(c) ==
    /\ pc[c] = "build"
    /\ schema' = [schema EXCEPT ![Proj(c)] = TRUE]
    /\ Goto(c, "load")
    /\ UNCHANGED <<job, using, planes, inflight, manager, queue, status, phase>>

\* Mutant: a project may be evicted whoever uses it.
IdleIgnoringLeases(loaded, keep) == {p \in loaded : p # keep}

\* The projects _evict_idle may take, out of those loaded.
IdleProjects(loaded, keep) == {p \in loaded : inflight[p] = 0 /\ p # keep}

\* What one round takes: the planes idle for too long, and the least recently
\* used ones over the cap.
Victims(loaded, keep) ==
    LET idle   == IdleProjects(loaded, keep)
        over   == IF Cap = 0 THEN 0 ELSE Cardinality(loaded) - Cap
        excess == IF over > Cardinality(idle) THEN Cardinality(idle) ELSE over
    IN  {out \in SUBSET idle : Cardinality(out) >= excess /\
                               (IdleLimit \/ Cardinality(out) = IF excess > 0 THEN excess ELSE 0)}

\* _begin_eviction of each: out of _planes, closing in the background.
Evicted(out)       == [p \in Projects |-> IF p \in out THEN None ELSE planes[p]]
ClosingStatus(out) == [c \in Calls |-> IF \E p \in out : planes[p] = c THEN "closing" ELSE status[c]]

\* The plane is ready and kept; a cap may push others out.
BuildDone(c) ==
    /\ pc[c] = "load"
    /\ \E out \in IF Cap > 0 THEN Victims(Loaded \cup {Proj(c)}, Proj(c)) ELSE {{}} :
        /\ planes' = [Evicted(out) EXCEPT ![Proj(c)] = c]
        /\ status' = [ClosingStatus(out) EXCEPT ![c] = "open"]
    /\ manager' = None
    /\ Use(c, c)
    /\ UNCHANGED <<job, inflight, queue, schema, phase>>

\* Mutant: an exception leaves _lock held.
LockAfterFailureKept(c) == c

LockAfterFailure(c) == None

\* plane.init or the belief load raises, and so does the call; a pool that was
\* already open is dropped without being closed.
BuildFail(c) ==
    /\ pc[c] \in {"build", "load"}
    /\ status' = [status EXCEPT ![c] = IF pc[c] = "load" THEN "dropped" ELSE "none"]
    /\ manager' = LockAfterFailure(c)
    /\ Return(c)
    /\ UNCHANGED <<job, planes, schema, phase>>

\* The body of the method is done with its plane.
Finish(c) ==
    /\ pc[c] = "use"
    /\ Return(c)
    /\ UNCHANGED <<job, planes, manager, status, schema, phase>>

-----------------------------------------------------------------------------
(* Eviction *)

\* A round of the reaper; it only runs when an idle limit is set.
Reap ==
    /\ phase = "up"
    /\ IdleLimit
    /\ \E out \in Victims(Loaded, None) \ {{}} :
        /\ planes' = Evicted(out)
        /\ status' = ClosingStatus(out)
    /\ UNCHANGED <<pc, job, using, inflight, manager, queue, schema, phase>>

\* _close_plane ends: by itself, by its timeout, or terminated.
CloseDone(c) ==
    /\ status[c] = "closing"
    /\ status' = [status EXCEPT ![c] = "closed"]
    /\ UNCHANGED <<pc, job, using, planes, inflight, manager, queue, schema, phase>>

-----------------------------------------------------------------------------
(* purge_project, under the lease and the mutation lock *)

\* Mutant: background closes of the project are not waited for.
AwaitClosingSkipped(p) == TRUE

\* _await_closing.
AwaitClosing(p) == ClosingPlanes(p) = {}

\* _evict_plane: pop the plane, whoever uses it, and close it.
EvictPlane(c, next) ==
    LET p == Proj(c)
    IN  /\ planes' = [planes EXCEPT ![p] = None]
        /\ status' = IF planes[p] = None THEN status
                     ELSE [status EXCEPT ![planes[p]] = "closing"]
        /\ using' = [using EXCEPT ![c] = planes[p]]
        /\ Goto(c, next)

\* _close_plane of the plane this purge evicted has returned.
OwnCloseReturned(c) == using[c] # None => status[using[c]] # "closing"

\* Wait for background closes, connect, look for the schema and evict.
PurgeBegin(c) ==
    /\ pc[c] = "purge"
    /\ AwaitClosing(Proj(c))
    /\ IF schema[Proj(c)]
       THEN EvictPlane(c, "drop")
       ELSE Goto(c, "sweep") /\ UNCHANGED <<using, planes, status>>
    /\ UNCHANGED <<job, inflight, manager, queue, schema, phase>>

\* DROP SCHEMA, once the evicted plane is closed.
PurgeDrop(c) ==
    /\ pc[c] = "drop"
    /\ OwnCloseReturned(c)
    /\ AwaitClosing(Proj(c))
    /\ schema' = [schema EXCEPT ![Proj(c)] = FALSE]
    /\ Goto(c, "sweep")
    /\ UNCHANGED <<job, using, planes, inflight, manager, queue, status, phase>>

\* Evict once more, in case the plane came back, and remove the files.
PurgeSweep(c) ==
    /\ pc[c] = "sweep"
    /\ EvictPlane(c, "files")
    /\ UNCHANGED <<job, inflight, manager, queue, schema, phase>>

PurgeFinish(c) ==
    /\ pc[c] = "files"
    /\ OwnCloseReturned(c)
    /\ Return(c)
    /\ UNCHANGED <<job, planes, manager, status, schema, phase>>

\* The connection or the DROP raises: the plane stays evicted.
PurgeFail(c) ==
    /\ \/ pc[c] = "purge" /\ AwaitClosing(Proj(c))
       \/ pc[c] = "drop" /\ OwnCloseReturned(c) /\ AwaitClosing(Proj(c))
    /\ Return(c)
    /\ UNCHANGED <<job, planes, manager, status, schema, phase>>

-----------------------------------------------------------------------------
(* close, once the server has drained its requests *)

ShutdownBegin ==
    /\ phase = "up"
    /\ \A c \in Calls : ~Running(c)
    /\ phase' = "closing"
    /\ UNCHANGED <<pc, job, using, planes, inflight, manager, queue, status, schema>>

\* Mutant: planes that close in the background are not waited for.
AllCloseAwaitedLoadedOnly == \A p \in Loaded : status[planes[p]] # "closing"

AllCloseAwaited == \A c \in Calls : status[c] # "closing"

\* Background closes first, then the loaded planes one after the other.
ShutdownClose(p) ==
    /\ phase = "closing"
    /\ AllCloseAwaited
    /\ planes[p] # None
    /\ status[planes[p]] = "open"
    /\ status' = [status EXCEPT ![planes[p]] = "closing"]
    /\ UNCHANGED <<pc, job, using, planes, inflight, manager, queue, schema, phase>>

ShutdownEnd ==
    /\ phase = "closing"
    /\ AllCloseAwaited
    /\ \A p \in Loaded : status[planes[p]] = "closed"
    /\ planes' = [p \in Projects |-> None]
    /\ inflight' = [p \in Projects |-> 0]
    /\ phase' = "down"
    /\ UNCHANGED <<pc, job, using, manager, queue, status, schema>>

-----------------------------------------------------------------------------
Progress(c) ==
    \/ Lookup(c) \/ Acquire(c)
    \/ GetPlane(c) \/ BuildStart(c) \/ BuildSchema(c) \/ BuildDone(c)
    \/ Finish(c)
    \/ PurgeBegin(c) \/ PurgeDrop(c) \/ PurgeSweep(c) \/ PurgeFinish(c)
    \/ CloseDone(c)

Shutdown == (\E p \in Projects : ShutdownClose(p)) \/ ShutdownEnd

Next ==
    \/ \E c \in Calls, p \in Projects, kind \in Kinds : Start(c, p, kind)
    \/ \E c \in Calls : Progress(c) \/ BuildFail(c) \/ PurgeFail(c)
    \/ Reap
    \/ ShutdownBegin
    \/ Shutdown

Spec == Init /\ [][Next]_vars

\* The event loop runs every ready task; a close is bounded by its timeout.
FairSpec == Spec /\ (\A c \in Calls : WF_vars(Progress(c))) /\ WF_vars(Shutdown)

-----------------------------------------------------------------------------
(* Properties *)

Steps == {"new", "lookup", "queued", "get", "wait", "build", "load", "use",
          "purge", "drop", "sweep", "files", "done"}

\* Every variable keeps its type.
TypeOK ==
    /\ pc \in [Calls -> Steps]
    /\ job \in [Calls -> [kind : Kinds, proj : Projects] \cup {None}]
    /\ using \in [Calls -> Calls \cup {None}]
    /\ planes \in [Projects -> Calls \cup {None}]
    /\ inflight \in [Projects -> 0..Cardinality(Calls)]
    /\ manager \in Calls \cup {None}
    /\ queue \in [Projects -> Seq(Calls)]
    /\ status \in [Calls -> {"none", "building", "open", "closing", "closed", "dropped"}]
    /\ schema \in [Projects -> BOOLEAN]
    /\ phase \in {"up", "closing", "down"}

\* A project's lease count is the number of its running calls, however they
\* ended, evictions and purges included: too low and a plane is evicted under
\* a call, too high and it never is.
LeasesCount ==
    \A p \in Projects : inflight[p] = Cardinality({c \in Calls : Running(c) /\ Proj(c) = p})

\* A project has at most one plane that is open or being built, and an open
\* one is the one in _planes: two would mean two caches over one storage.
OnePlanePerProject ==
    \A c, d \in Calls :
        /\ status[c] = "open" => planes[Proj(c)] = c
        /\ {status[c], status[d]} \subseteq {"open", "building"} /\ Proj(c) = Proj(d) => c = d

\* runtime.py:11 "A plane is never evicted while an operation on its project is
\* in flight": the plane a method works with stays open until it returns.
NeverEvictedInFlight ==
    \A c \in Calls : pc[c] = "use" => status[using[c]] = "open"

\* The part of it that holds for the methods under the mutation lock: their
\* plane stays open whatever else is called, purges included.
WritesKeepTheirPlane ==
    \A c \in Calls : pc[c] = "use" /\ Kind(c) = "write" => status[using[c]] = "open"

\* And for reads: the cap and the reaper leave their plane alone, only a purge
\* of the project takes it away.
OnlyAPurgeTakesAPlaneInUse ==
    \A c \in Calls : pc[c] = "use" /\ status[using[c]] # "open" =>
        \E d \in Calls : job[d] = [kind |-> "purge", proj |-> Proj(c)]

\* In this step, a schema goes only when no plane of its project is closing.
DropsAfterClosing == \A p \in Projects : schema[p] /\ ~schema'[p] => ClosingPlanes(p) = {}

\* runtime.py:1479 "never delete under a connection that is still closing".
NoDropWhileClosing == [][DropsAfterClosing]_vars

\* When close has returned, every plane that was ever loaded is closed.
AllClosedWhenDown ==
    phase = "down" => \A c \in Calls : status[c] \in {"none", "closed", "dropped"}

\* What purge_project's docstring promises (runtime.py:1469-1474): when the purge
\* returns, nothing of the project is left: no schema and no loaded plane.
PurgeRemovesEverything ==
    [][\A c \in Calls : pc[c] = "files" /\ pc'[c] = "done" =>
          ~schema[Proj(c)] /\ planes[Proj(c)] = None]_vars

\* What CHANGELOG.md:21 promises of the cap: it limits how many projects stay
\* loaded; calls may exceed it while they run.
CapWhenQuiet ==
    Cap > 0 /\ (\A c \in Calls : ~Running(c)) => Cardinality(Loaded) <= Cap

\* No call waits forever for a lock, a build, a close or another call.
CallsEnd == \A c \in Calls : Running(c) ~> ~Running(c)

=============================================================================
