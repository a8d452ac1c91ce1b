------------------------------ MODULE MCUpkeep -------------------------------
(* What goes on beside the calls: the events appended after a write, the     *)
(* hosted indexer, the local embedding daemon and the local scheduler.  They *)
(* share no state and a behaviour exercises one of them.                     *)
EXTENDS EventChain, Sequences

CONSTANT Nothing

\* Of the hosted indexer
CONSTANTS EntryKeys, Words, Unembeddable, PerPass, MaxDelay, MaxStamp, MaxTrouble

\* Of the embedding daemon
CONSTANTS LastRow, Contents, Blank, Rejects, PassSize, MaxInARow, LongestWait, MaxEdits, MaxOutages

\* Of the scheduler
CONSTANTS Jobs, Interval, MaxSetBack, MaxRaises

VARIABLES part,
          entry, past, vector, stamp, backoff, queue, working, result, trouble,
          text, vec, waits, pass, cache, sig, now, edits, outages,
          app, loop, age, setBack, raises

HI == INSTANCE HostedIndexer
ED == INSTANCE EmbeddingDaemon WITH None <- Nothing, failed <- waits
JS == INSTANCE JobScheduler WITH Never <- Nothing

ASSUME UpkeepConstants == HI!ConstantsFit /\ ED!ConstantsFit /\ JS!ConstantsFit

\* The jobs of a local server differ in how often they run.
TwoJobs   == <<"decay_pass", "kg_maintenance">>
Intervals == [j \in {"decay_pass", "kg_maintenance"} |-> IF j = "decay_pass" THEN 1 ELSE 3]

hvars == <<entry, past, vector, stamp, backoff, queue, working, result, trouble>>
dvars == <<text, vec, waits, pass, cache, sig, now, edits, outages>>
svars == <<app, loop, age, setBack, raises>>
allvars == <<part, vars, hvars, dvars, svars>>

MCInit ==
    /\ Init /\ HI!Init /\ ED!Init /\ JS!Init
    /\ part \in {"ledger", "hosted", "local", "jobs"}

InLedger(A) == part = "ledger" /\ A /\ UNCHANGED <<part, hvars, dvars, svars>>
InHosted(A) == part = "hosted" /\ A /\ UNCHANGED <<part, vars, dvars, svars>>
InLocal(A)  == part = "local" /\ A /\ UNCHANGED <<part, vars, hvars, svars>>
InJobs(A)   == part = "jobs" /\ A /\ UNCHANGED <<part, vars, hvars, dvars>>

MCNext == InLedger(Next) \/ InHosted(HI!Next) \/ InLocal(ED!Next) \/ InJobs(JS!Next)

\* The fairness of the four modules.
MCSpec ==
    /\ MCInit /\ [][MCNext]_allvars
    /\ \A w \in Writers : WF_allvars(InLedger(TakeLock(w) \/ LockTimeout(w)))
    /\ WF_allvars(InHosted(HI!Index))
    /\ WF_allvars(InLocal(ED!Daemon))
    /\ WF_allvars(InJobs(JS!Loop)) /\ WF_allvars(InJobs(JS!Tick))

\* Every variable of the four keeps its type.
TypesOK == TypeOK /\ HI!TypeOK /\ ED!TypeOK /\ JS!TypeOK

\* Vectors are of what is stored: one that counts as current is of the text, a
\* forgotten memory has none, hosted or local, and a recall that knows the
\* signature of the table has its vectors (HostedIndexer.tla, EmbeddingDaemon.tla).
VectorsAreRight ==
    /\ HI!CurrentMeansSameText /\ HI!ForgottenHasNoVector
    /\ ED!ForgottenHasNoVector /\ ED!KnownSignatureKnownVectors

\* Jobs run again and again; JobsRecur of JobScheduler.tla, for behaviours of
\* that part.
JobsRecur ==
    \A j \in JS!JobNames :
        part = "jobs" /\ loop.at \notin {"none", "dead"} ~>
            loop.at \in {"none", "dead"} \/ age[j] = 0

\* Whatever goes on beside the calls goes on: a wait for the chain lock ends,
\* accepted texts get their vectors in the end, hosted and local, and every job
\* runs again and again.
UpkeepGoesOn ==
    WaitsEnd /\ HI!EveryEntryIsIndexed /\ ED!AcceptedIsIndexed /\ JobsRecur
=============================================================================
