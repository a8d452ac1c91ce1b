---------------------------- MODULE JobScheduler ----------------------------
(***************************************************************************)
(* The background scheduler of a local server (scheduler.py, jobs/) and    *)
(* the lifespan that starts and stops it (mcp_server/server_v2.py,         *)
(* mcp_server/hermes_stdio.py).  The loop runs the jobs that are due, one  *)
(* after the other, looks at the fill of the working memory, and sleeps.   *)
(* A job that raises ends the loop.  Whether a job is due depends on the   *)
(* time of day, which can be set back.  What the jobs do is elsewhere.     *)
(***************************************************************************)
EXTENDS Integers, Sequences

CONSTANTS
    Jobs,      \* the names of the jobs, in the order they were registered
    Interval,  \* [job -> interval_seconds, in ticks]
    MaxSetBack,\* bound on how far the clock is set back
    MaxRaises, \* bound on the jobs that raise
    Never

ConstantsFit ==
    /\ Jobs \in Seq({Jobs[i] : i \in DOMAIN Jobs})
    /\ \A i \in DOMAIN Jobs : Interval[Jobs[i]] \in Int
    /\ MaxSetBack \in Nat /\ MaxRaises \in Nat
    /\ Never \notin Int

VARIABLES
    app,     \* "down" or "up"
    loop,    \* the task: where it is, the next job, the jobs that were due
    age,     \* [job -> time since last_run_at, or Never]
    setBack, raises

jvars == <<app, loop, age, setBack, raises>>

-----------------------------------------------------------------------------
JobNames == {Jobs[i] : i \in DOMAIN Jobs}

NoLoop == [at |-> "none", i |-> 1, due |-> {}]

\* Mutant: a job has to have run once to be due.
DueAgain(j) == age[j] # Never /\ age[j] >= Interval[j]

\* is_due
Due(j) == age[j] = Never \/ age[j] >= Interval[j]

Init ==
    /\ app = "down"
    /\ loop = NoLoop
    /\ age = [j \in JobNames |-> Never]
    /\ setBack = 0 /\ raises = 0

\* lifespan: a scheduler of its own, with all jobs registered, starts.
StartUp ==
    /\ app = "down"
    /\ app' = "up"
    /\ age' = [j \in JobNames |-> Never]
    /\ loop' = [NoLoop EXCEPT !.at = "woken"]
    /\ UNCHANGED <<setBack, raises>>

\* Mutant: the loop is told to stop and left alone.
ShutDownUnawaited ==
    /\ app = "up"
    /\ app' = "down"
    /\ UNCHANGED <<loop, age, setBack, raises>>

\* stop: the task is cancelled and awaited, wherever it is.
ShutDown ==
    /\ app = "up"
    /\ app' = "down"
    /\ loop' = NoLoop
    /\ UNCHANGED <<age, setBack, raises>>

\* run_due_jobs reads the time once for all jobs.
Woken ==
    /\ loop.at = "woken"
    /\ loop' = [at |-> "jobs", i |-> 1, due |-> {j \in JobNames : Due(j)}]
    /\ UNCHANGED <<app, age, setBack, raises>>

Here == Jobs[loop.i]

SkipJob ==
    /\ loop.at = "jobs" /\ loop.i <= Len(Jobs)
    /\ Here \notin loop.due
    /\ loop' = [loop EXCEPT !.i = @ + 1]
    /\ UNCHANGED <<app, age, setBack, raises>>

\* run_job_once: the time of the run is that of its end.
RunJob ==
    /\ loop.at = "jobs" /\ loop.i <= Len(Jobs)
    /\ Here \in loop.due
    /\ age' = [age EXCEPT ![Here] = 0]
    /\ loop' = [loop EXCEPT !.i = @ + 1]
    /\ UNCHANGED <<app, setBack, raises>>

\* run_trigger_checks, then the sleep.
Trigger ==
    /\ loop.at = "jobs" /\ loop.i > Len(Jobs)
    /\ loop' = [NoLoop EXCEPT !.at = "asleep"]
    /\ UNCHANGED <<app, age, setBack, raises>>

\* A handler or the consolidation raises: nothing catches it, the task is over.
Raise ==
    /\ loop.at = "jobs"
    /\ loop.i <= Len(Jobs) => Here \in loop.due
    /\ raises < MaxRaises
    /\ raises' = raises + 1
    /\ loop' = [NoLoop EXCEPT !.at = "dead"]
    /\ UNCHANGED <<app, age, setBack>>

Aged(j, by) == IF age[j] = Never THEN Never
               ELSE IF age[j] + by > Interval[j] + MaxSetBack THEN age[j] ELSE age[j] + by

\* Time goes on; a sleeping loop wakes up.
Tick ==
    /\ age' = [j \in JobNames |-> Aged(j, 1)]
    /\ loop' = IF loop.at = "asleep" THEN [loop EXCEPT !.at = "woken"] ELSE loop
    /\ UNCHANGED <<app, setBack, raises>>

\* The time of day is set back.
SetBack ==
    /\ setBack < MaxSetBack
    /\ setBack' = setBack + 1
    /\ age' = [j \in JobNames |-> Aged(j, -1)]
    /\ UNCHANGED <<app, loop, raises>>

Loop == Woken \/ SkipJob \/ RunJob \/ Trigger

Next == StartUp \/ ShutDown \/ Loop \/ Raise \/ Tick \/ SetBack

Spec == Init /\ [][Next]_jvars

\* The event loop runs the task when it is ready, and time passes.
FairSpec == Spec /\ WF_jvars(Loop) /\ WF_jvars(Tick)

-----------------------------------------------------------------------------
(* Properties *)

\* Every variable keeps its type, and no loop goes on without its server.
TypeOK ==
    /\ app \in {"down", "up"}
    /\ loop.at \in {"none", "woken", "jobs", "asleep", "dead"} /\ loop.i \in 1..Len(Jobs) + 1
    /\ \A j \in JobNames : age[j] # Never => age[j] >= -MaxSetBack
    /\ app = "down" <=> loop.at = "none"

\* A server that stays up and whose jobs do not raise runs every job, and then
\* again and again, although the jobs share one loop and the clock may go back.
JobsRecur ==
    \A j \in JobNames :
        loop.at \notin {"none", "dead"} ~>
            loop.at \in {"none", "dead"} \/ age[j] = 0
=============================================================================
