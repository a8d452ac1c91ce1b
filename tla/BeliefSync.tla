----------------------------- MODULE BeliefSync -----------------------------
(***************************************************************************)
(* Agents that exchange beliefs in one process (core/belief_sync.py): an   *)
(* agent pushes beliefs into its space, pulls newer ones from others, two  *)
(* agents reconcile, and several vote.  Times of beliefs are those of the  *)
(* entries, which may be equal or arrive out of order.                     *)
(***************************************************************************)
EXTENDS Integers, Sequences, FiniteSets

SX == INSTANCE SequencesExt

CONSTANTS
    Agents,
    Subjects,  \* the keys beliefs are about
    Views,     \* the values they have
    MaxMade,   \* the created_at of entries are 1..MaxMade
    MaxRely,   \* reliabilities are 0..MaxRely
    MaxCalls,  \* bound on the calls
    Nobody

Entries == [subject : Subjects, value : Views, made : 1..MaxMade, source : Agents \cup {Nobody}]

ConstantsFit ==
    /\ MaxMade \in Nat /\ MaxRely \in Nat /\ MaxCalls \in Nat
    /\ IsFiniteSet(Agents) /\ Nobody \notin Entries

VARIABLES
    registered,
    rely,      \* [Agents -> reliability]
    belief,    \* [Agents -> [Subjects -> entry or Nobody]]
    vclock,    \* [Agents -> [Subjects -> number of ticks]]
    calls,
    caughtUp   \* for a property: who pulled from all since something changed

svars == <<registered, rely, belief, vclock, calls, caughtUp>>

-----------------------------------------------------------------------------
Holds(a, k) == belief[a][k] # Nobody

Init ==
    /\ registered = {}
    /\ rely = [a \in Agents |-> 0]
    /\ belief = [a \in Agents |-> [k \in Subjects |-> Nobody]]
    /\ vclock = [a \in Agents |-> [k \in Subjects |-> 0]]
    /\ calls = 0
    /\ caughtUp = {}

Call ==
    /\ calls < MaxCalls
    /\ calls' = calls + 1

\* init_sync
Register(a, r) ==
    /\ a \notin registered
    /\ registered' = registered \cup {a}
    /\ rely' = [rely EXCEPT ![a] = r]
    /\ caughtUp' = {}
    /\ UNCHANGED <<belief, vclock, calls>>

\* push_beliefs, of one entry: the agent's clock ticks, and the entry is taken
\* if it is newer than the one it has.
Push(a, e) ==
    /\ Call
    /\ a \in registered
    /\ vclock' = [vclock EXCEPT ![a][e.subject] = @ + 1]
    /\ belief' = IF ~Holds(a, e.subject) \/ e.made > belief[a][e.subject].made
                 THEN [belief EXCEPT ![a][e.subject] = e] ELSE belief
    /\ caughtUp' = {}
    /\ UNCHANGED <<registered, rely>>

\* A pull compares what is offered with what is there.
Newer(e, mine) == e # Nobody /\ (mine = Nobody \/ e.made > mine.made)

\* pull_updates: source after source, what is newer than what the sources before
\* have left, and not before `since`; 1 is as good as none.  From itself an agent
\* would take nothing.
Pull(a, sources, since) ==
    LET offered(i, k) == IF Holds(sources[i], k) /\ belief[sources[i]][k].made >= since
                         THEN belief[sources[i]][k] ELSE Nobody
        taken(k) == {i \in DOMAIN sources :
                        /\ Newer(offered(i, k), belief[a][k])
                        /\ \A j \in 1..i - 1 : Newer(offered(i, k), offered(j, k))}
        last(k) == CHOOSE i \in taken(k) : \A j \in taken(k) : j <= i
    IN  /\ Call
        /\ a \in registered
        /\ belief' = [belief EXCEPT ![a] =
                         [k \in Subjects |-> IF taken(k) = {} THEN belief[a][k] ELSE offered(last(k), k)]]
        /\ vclock' = [vclock EXCEPT ![a] = [k \in Subjects |-> @[k] + Cardinality(taken(k))]]
        /\ caughtUp' = IF since = 1 /\ registered \ {a} \subseteq SX!Range(sources)
                       THEN caughtUp \cup {a} ELSE caughtUp
        /\ UNCHANGED <<registered, rely>>

\* Mutant: the caller wins.
WinsAsCaller(a, b) == TRUE

\* A conflict goes to the agent that is at least as reliable.
Wins(a, b) == rely[a] >= rely[b]

\* merge_sync: first what a had goes to b, then what b had goes to a, where it
\* is compared with what a has by then.
Merge(a, b) ==
    LET differ(x, y) == x # Nobody /\ y # Nobody /\ x.value # y.value
        forB(k) == belief[a][k] # Nobody /\ (belief[b][k] = Nobody \/ (differ(belief[a][k], belief[b][k]) /\ Wins(a, b)))
        forA(k) == belief[b][k] # Nobody /\ (belief[a][k] = Nobody \/ (differ(belief[a][k], belief[b][k]) /\ Wins(b, a)))
        ticks(mine, theirs) == IF theirs # Nobody /\ (mine = Nobody \/ differ(mine, theirs)) THEN 1 ELSE 0
    IN  /\ Call
        /\ a # b /\ {a, b} \subseteq registered
        /\ belief' = [belief EXCEPT ![a] = [k \in Subjects |-> IF forA(k) THEN belief[b][k] ELSE belief[a][k]],
                                    ![b] = [k \in Subjects |-> IF forB(k) THEN belief[a][k] ELSE belief[b][k]]]
        /\ vclock' = [vclock EXCEPT ![a] = [k \in Subjects |-> @[k] + ticks(belief[a][k], belief[b][k])],
                                    ![b] = [k \in Subjects |-> @[k] + ticks(belief[b][k], belief[a][k])]]
        /\ caughtUp' = {}
        /\ UNCHANGED <<registered, rely>>

\* The voters, by their place in the list, who have a belief about a subject.
Ballot(voters, k) == {i \in DOMAIN voters : Holds(voters[i], k)}

Votes(voters, k, v) == Cardinality({i \in Ballot(voters, k) : belief[voters[i]][k].value = v})

\* The reliability behind an entry: of its source, or of the last voter.
Behind(voters, e) == IF e.source \in registered THEN rely[e.source] ELSE rely[voters[Len(voters)]]

\* The winner: of the values with most votes the one with the most reliable
\* entry, of several such the one that appears first.
Winner(voters, k) ==
    LET entry(i) == belief[voters[i]][k]
        leading == {i \in Ballot(voters, k) : \A j \in Ballot(voters, k) :
                        Votes(voters, k, entry(i).value) >= Votes(voters, k, entry(j).value)}
        tied == \E i, j \in leading : entry(i).value # entry(j).value
        first(i) == CHOOSE n \in leading : /\ entry(n).value = entry(i).value
                                           /\ \A m \in leading : entry(m).value = entry(i).value => n <= m
        rank(i) == IF tied THEN Behind(voters, entry(i)) ELSE 0
        better(i, j) == \/ rank(i) > rank(j)
                        \/ rank(i) = rank(j) /\ (first(i) < first(j) \/ (first(i) = first(j) /\ i <= j))
    IN  entry(CHOOSE i \in leading : \A j \in leading : better(i, j))

Disputed(voters, k) ==
    \E i, j \in Ballot(voters, k) : belief[voters[i]][k].value # belief[voters[j]][k].value

\* consensus_sync: the winner goes to every voter.
Consensus(voters) ==
    /\ Call
    /\ Len(voters) >= 2 /\ SX!Range(voters) \subseteq registered
    /\ UNCHANGED <<registered, rely, vclock>>
    /\ caughtUp' = {}
    /\ belief' = [a \in Agents |->
                     [k \in Subjects |-> IF a \in SX!Range(voters) /\ Disputed(voters, k)
                                         THEN Winner(voters, k) ELSE belief[a][k]]]

\* The orders in which agents can be named.
Lists == UNION {SX!SetToSeqs(S) : S \in SUBSET Agents}

Next ==
    \/ \E a \in Agents, r \in 0..MaxRely : Register(a, r)
    \/ \E a \in Agents, e \in Entries : e.source \in {a, Nobody} /\ Push(a, e)
    \/ \E a \in Agents, sources \in Lists, since \in 1..MaxMade :
          sources # << >> /\ a \notin SX!Range(sources) /\ Pull(a, sources, since)
    \/ \E a, b \in Agents : Merge(a, b)
    \/ \E voters \in Lists : Consensus(voters)

Spec == Init /\ [][Next]_svars

-----------------------------------------------------------------------------
(* Properties *)

\* Every variable keeps its type.
TypeOK ==
    /\ registered \subseteq Agents /\ caughtUp \subseteq registered
    /\ rely \in [Agents -> 0..MaxRely]
    /\ belief \in [Agents -> [Subjects -> Entries \cup {Nobody}]]
    /\ \A a \in Agents, k \in Subjects : vclock[a][k] \in Nat

Made(a, k) == IF Holds(a, k) THEN belief[a][k].made ELSE 0

\* Whoever has pulled from all others since the last change has the newest
\* belief about everything, in whatever order agents pulled from each other.
PullsCatchUp == \A a \in caughtUp, b \in registered, k \in Subjects : Made(a, k) >= Made(b, k)

\* After a merge of agents that are not equally reliable both hold what the
\* more reliable one held (core/belief_sync.py:228-231).
MergePrefersReliable ==
    [][\A a, b \in Agents :
          rely[a] > rely[b] /\ Merge(a, b) =>
              \A k \in Subjects : Holds(a, k) /\ Holds(b, k) =>
                  {belief'[a][k].value, belief'[b][k].value} = {belief[a][k].value}]_svars

\* After a vote the voters agree wherever they disputed, and on a value nobody
\* outvoted (core/belief_sync.py:299-302).
VotersAgree ==
    [][calls' # calls /\ UNCHANGED vclock =>
          \A voters \in Lists :
              Consensus(voters) =>
                  \A k \in Subjects : Disputed(voters, k) =>
                      \E v \in Views :
                          /\ \A a \in SX!Range(voters) : belief'[a][k].value = v
                          /\ \A w \in Views : Votes(voters, k, v) >= Votes(voters, k, w)]_svars

\* After a merge the two agents agree: it is called a full reconciliation
\* (core/belief_sync.py:228-231).
MergeReconciles ==
    [][\A a, b \in Agents :
          Merge(a, b) => \A k \in Subjects :
              belief'[a][k] # Nobody /\ belief'[b][k] # Nobody => belief'[a][k].value = belief'[b][k].value]_svars
=============================================================================
