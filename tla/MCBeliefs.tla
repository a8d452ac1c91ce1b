----------------------------- MODULE MCBeliefs ----------------------------
(* Two processes work on one key, or one process has the file to itself and *)
(* nothing fails; the number of writes is cut short.  The third part is the  *)
(* revision engine of one process, the fourth two remote clients that write  *)
(* one memory.  A behaviour exercises one of them.                           *)
EXTENDS SharedBeliefs, TLC

CONSTANTS
    p1,
    SharedWrites, \* bound on the writes of two processes, MaxWrites is the one of a process alone
    Offers, Middle, LogSize, MaxOps,                    \* of the engine
    RemoteLevels, RemoteStrategies, MaxClock, MaxLost   \* of the remote clients

VARIABLES part, eng, held, about, purged,
          row, seat, snap, clock, lost, know, asked, changed, marks, standing, slipped, wrongs

Solo == INSTANCE SharedBeliefs WITH
    Procs <- {p1}, MaxFaults <- 0

EN == INSTANCE AGMEngine WITH
    Subjects <- Procs, Entries <- Offers, Neutral <- Middle, None <- Absent

\* The offers of the run differ in value and in what each strategy looks at.
Offer(val, imp, at, ok) == [val |-> val, imp |-> imp, at |-> at, ok |-> ok]
RunOffers == {Offer(1, 1, 1, FALSE), Offer(2, 2, 2, TRUE), Offer(1, 3, 1, TRUE)}

RW == INSTANCE RemoteWrites WITH
    Clients <- Procs, Levels <- RemoteLevels, Neutral <- Middle, Strategies <- RemoteStrategies,
    None <- Absent, eng <- seat, faults <- lost, call <- asked

ASSUME AloneAssumption == p1 \in Procs
ASSUME EngineConstants == EN!ConstantsFit
ASSUME RemoteConstants == RW!ConstantsFit

evars == <<eng, held, about, purged>>
wvars == <<row, seat, snap, clock, lost, know, asked, changed, marks, standing, slipped, wrongs>>

Symmetry == Permutations(Procs) \cup Permutations(Values)

MCInit ==
    /\ part \in {"shared", "alone", "engine", "writers"}
    /\ Init /\ RW!Init
    /\ EN!Init /\ (part = "engine" \/ eng.beliefs = [k \in Procs |-> Absent])

MCNext ==
    \/ part = "shared" /\ Next /\ writes' <= SharedWrites /\ UNCHANGED <<part, evars, wvars>>
    \/ part = "alone" /\ Solo!Next /\ UNCHANGED <<part, evars, wvars>>
    \/ part = "engine" /\ EN!Next /\ UNCHANGED <<part, vars, wvars>>
    \/ part = "writers" /\ RW!Next /\ UNCHANGED <<part, vars, evars>>

MCSpec == MCInit /\ [][MCNext]_<<part, vars, evars, wvars>>

\* Every variable keeps its type.
TypesOK == TypeOK /\ EN!TypeOK /\ RW!TypeOK

\* Alone, a process believes what is stored, revives nothing it forgot, and logs
\* what it stores; only what a decay pass deletes is neither logged nor contracted,
\* until the key is written or forgotten (the parts are in SharedBeliefs.tla).
AloneIsSequential ==
    part = "alone" => BeliefsMatchRows /\ ForgottenStaysForgotten /\ AuditFollowsStore

\* The engine remembers how entrenched its beliefs are, and what it did last, but
\* nothing of what was redacted (AGMEngine.tla).
EngineRemembers == EN!EntrenchmentIsPeak /\ EN!LogIsRecent

\* A write with a version replaces what its caller has seen, one that must not be
\* repeated takes effect once, and a revision is rejected for what is or was stored
\* and for nothing else (the parts are in RemoteWrites.tla).
WritersSeeWhatTheyReplace ==
    RW!VersionedWritesSee /\ RW!TakesEffectOnce /\ RW!RevisionsAreJudgedFairly
=============================================================================
