--------------------------- MODULE Derived_proofs ---------------------------
(***************************************************************************)
(* Proofs about what is kept of a memory beside its row, for any number of *)
(* processes, keys, rows and steps: the entity index is right where        *)
(* writers exclude each other, the graph of a process is whole, the two    *)
(* full-text indexes hold what the rows say, a resumed thread goes on from *)
(* the last checkpoint it was told is saved, and a value that a purge      *)
(* reports gone is gone, however its steps interleave.                     *)
(*                                                                         *)
(* Each part has an invariant with three lemmas: it holds at the start, is *)
(* kept by every step of the part, and stands while another part steps.    *)
(***************************************************************************)
EXTENDS MCDerived, FiniteSetTheorems, TLAPS

-----------------------------------------------------------------------------
(* The entity index *)

\* What a job may be.
JobStages == {"idle", "clear", "claims", "touch", "unlink", "entity", "mention", "prune"}

Job == [at : JobStages, key : Keys \cup {Absent}, row : EI!Row \cup {Absent}, todo : SUBSET (Claims \cup Entities),
        now : Entities \cup {Absent}, touched : SUBSET Entities, stamped : SUBSET Entities]

\* A running job has a key and a row, and does what its stage is for.
JobFits(j) ==
    /\ j.at = "idle" => j = EI!NoJob
    /\ j.at # "idle" => j.key \in Keys /\ j.row \in EI!Row
    /\ j.at \in {"clear", "claims"} => j.todo \subseteq j.row.claims
    /\ j.at \in {"entity", "mention"} => j.todo \subseteq EI!NamesOf(j.row)
    /\ j.at = "mention" => j.now \in j.todo

EntityTypes ==
    /\ rows \in [Keys -> EI!Row \cup {Absent}]
    /\ claims \in [Keys -> [Claims -> {"none", "active", "inactive"}]]
    /\ mentioned \in [Keys -> SUBSET Entities]
    /\ entities \subseteq Entities /\ fresh \subseteq Entities
    /\ job \in [Procs -> Job] /\ \A p \in Procs : JobFits(job[p])
    /\ Serialized => \A p, q \in Procs : job[p].at # "idle" /\ job[q].at # "idle" => p = q

LEMMA NamesAreEntities == ASSUME NEW r \in EI!Row PROVE EI!NamesOf(r) \subseteq Entities
BY DEF EI!NamesOf, EI!Row

LEMMA NoJobIsIdle == EI!NoJob \in Job /\ JobFits(EI!NoJob) /\ EI!NoJob.at = "idle" /\ EI!NoJob.stamped = {} /\ EI!NoJob.todo = {}
                     /\ EI!NoJob.key = Absent
BY DEF EI!NoJob, Job, JobStages, JobFits

LEMMA EntityTypesStart == ASSUME EI!Init PROVE EntityTypes
BY NoJobIsIdle DEF EI!Init, EntityTypes

LEMMA EntityTypesStand == ASSUME EntityTypes, UNCHANGED evars PROVE EntityTypes'
<1>1. UNCHANGED <<rows, claims, mentioned, entities, fresh, job>>
  BY DEF evars
<1>. QED  BY <1>1 DEF EntityTypes

\* A job that goes on keeps the types, if there is one at a time where there has to be.
LEMMA JobGoesOn ==
    ASSUME EntityTypes, NEW p \in Procs, NEW j \in Job, JobFits(j), job' = [job EXCEPT ![p] = j],
           j.at = "idle" \/ job[p].at # "idle" \/ EI!MayStart(p)
    PROVE  /\ job' \in [Procs -> Job] /\ \A q \in Procs : JobFits(job'[q])
           /\ Serialized => \A a, b \in Procs : job'[a].at # "idle" /\ job'[b].at # "idle" => a = b
<1>1. job \in [Procs -> Job] /\ \A q \in Procs : JobFits(job[q])
  BY DEF EntityTypes
<1>2. job'[p] = j /\ \A q \in Procs \ {p} : job'[q] = job[q]
  BY <1>1
<1>3. job' \in [Procs -> Job] /\ \A q \in Procs : JobFits(job'[q])
  BY <1>1, <1>2
<1>4. ASSUME Serialized, NEW a \in Procs, NEW b \in Procs, job'[a].at # "idle", job'[b].at # "idle", a # b  PROVE FALSE
  <2>1. CASE a # p /\ b # p
    BY <1>2, <1>4, <2>1 DEF EntityTypes
  <2>2. ASSUME NEW q \in Procs \ {p}, job[q].at # "idle", j.at # "idle"  PROVE FALSE
    BY <1>4, <2>2 DEF EntityTypes, EI!MayStart, EI!AllIdle, EI!At
  <2>. QED  BY <1>2, <1>4, <2>1, <2>2
<1>. QED  BY <1>3, <1>4

\* A step of one job, or of none.
EntityStep(p) ==
    \/ \E k \in Keys, r \in Rows : EI!Save(p, k, r) \/ EI!Restore(p, k, r)
    \/ \E k \in Keys : EI!Forget(p, k) \/ EI!Promote(p, k)
    \/ EI!DeleteClaims(p) \/ EI!SaveClaim(p) \/ EI!Deactivate(p)
    \/ EI!Touch(p) \/ EI!Unlink(p) \/ EI!SaveEntity(p) \/ EI!SaveMention(p) \/ EI!Prune(p)
    \/ EI!ClaimsFail(p) \/ EI!EntitiesFail(p) \/ EI!Crash(p)

\* What a step makes of its job.
LEMMA JobStarts ==
    ASSUME EntityTypes, NEW p \in Procs, NEW k \in Keys, NEW r \in Rows, NEW at \in {"claims", "clear"}, EI!Store(p, k, r, at)
    PROVE  \E j \in Job : /\ job' = [job EXCEPT ![p] = j] /\ JobFits(j)
                          /\ j.at = at /\ j.key = k /\ j.row = r /\ j.todo = r.claims /\ j.touched = {} /\ j.stamped = {}
<1>1. r \in EI!Row
  BY RowsAssumption DEF EI!RowsFit
<1>2. PICK j : j = [EI!NoJob EXCEPT !.at = at, !.key = k, !.row = r, !.todo = r.claims]
  OBVIOUS
<1>3. j = [at |-> at, key |-> k, row |-> r, todo |-> r.claims, now |-> Absent, touched |-> {}, stamped |-> {}]
  BY <1>2 DEF EI!NoJob
<1>4. r.claims \subseteq Claims
  BY <1>1 DEF EI!Row
<1>5. j \in Job
  BY <1>1, <1>3, <1>4 DEF Job, JobStages
<1>6. j.at = at /\ j.key = k /\ j.row = r /\ j.todo = r.claims /\ j.touched = {} /\ j.stamped = {}
  BY <1>3
<1>7. JobFits(j)
  BY <1>1, <1>6 DEF JobFits
<1>8. job' = [job EXCEPT ![p] = j]
  BY <1>2 DEF EI!Store
<1>. QED  BY <1>5, <1>6, <1>7, <1>8

Goes(p, at, todo, now, touched, stamped) ==
    job' = [job EXCEPT ![p] = [at |-> at, key |-> job[p].key, row |-> job[p].row, todo |-> todo, now |-> now,
                               touched |-> touched, stamped |-> stamped]]

Ends(p) == job' = [job EXCEPT ![p] = EI!NoJob]

LEMMA JobMoves ==
    ASSUME EntityTypes, NEW p \in Procs
    PROVE  LET d == job[p] IN
           /\ EI!DeleteClaims(p) => Goes(p, "claims", d.todo, d.now, d.touched, d.stamped)
           /\ EI!SaveClaim(p) => \E c \in d.todo : /\ Goes(p, "claims", d.todo \ {c}, d.now, d.touched, d.stamped)
                                                   /\ claims' = [claims EXCEPT ![d.key][c] = "active"]
           /\ EI!Deactivate(p) \/ EI!ClaimsFail(p) => Goes(p, "touch", d.todo, d.now, d.touched, d.stamped)
           /\ EI!Touch(p) => Goes(p, "unlink", d.todo, d.now, mentioned[d.key], d.stamped)
           /\ EI!Unlink(p) => Goes(p, "entity", EI!NamesOf(d.row), d.now, d.touched, d.stamped \cup mentioned[d.key])
           /\ EI!SaveEntity(p) => \E e \in d.todo : /\ Goes(p, "mention", d.todo, e, d.touched, d.stamped \cup {e})
                                                    /\ entities' = entities \cup {e} /\ fresh' = fresh \cup {e}
           /\ EI!SaveMention(p) => Goes(p, "entity", d.todo \ {d.now}, Absent, d.touched, d.stamped)
           /\ EI!EntitiesFail(p) =>
                  IF d.at \in {"entity", "mention"} /\ d.todo # {} /\ d.touched # {}
                  THEN Goes(p, "prune", d.todo, d.now, d.touched, d.stamped) ELSE Ends(p)
           /\ EI!Prune(p) \/ EI!Crash(p) => Ends(p)
<1>1. PICK d : d = job[p]
  OBVIOUS
<1>2. /\ d = [at |-> d.at, key |-> d.key, row |-> d.row, todo |-> d.todo, now |-> d.now, touched |-> d.touched, stamped |-> d.stamped]
      /\ job \in [Procs -> Job]
  BY <1>1 DEF EntityTypes, Job
<1>3. ASSUME NEW j  PROVE [job EXCEPT ![p] = j][p] = j /\ \A q \in Procs \ {p} : [job EXCEPT ![p] = j][q] = job[q]
  BY <1>2
<1>4. \A at : [d EXCEPT !.at = at] = [at |-> at, key |-> d.key, row |-> d.row, todo |-> d.todo, now |-> d.now, touched |-> d.touched, stamped |-> d.stamped]
  BY <1>2
<1>5. \A todo : [d EXCEPT !.todo = todo] = [at |-> d.at, key |-> d.key, row |-> d.row, todo |-> todo, now |-> d.now, touched |-> d.touched, stamped |-> d.stamped]
  BY <1>2
<1>a. ASSUME NEW j, job' = [job EXCEPT ![p] = j], NEW at, NEW todo, NEW now, NEW touched, NEW stamped,
             j = [at |-> at, key |-> d.key, row |-> d.row, todo |-> todo, now |-> now, touched |-> touched, stamped |-> stamped]
      PROVE  Goes(p, at, todo, now, touched, stamped)
  BY <1>1, <1>a DEF Goes
<1>6. ASSUME NEW at, job' = [job EXCEPT ![p].at = at]  PROVE Goes(p, at, d.todo, d.now, d.touched, d.stamped)
  BY <1>1, <1>4, <1>6 DEF Goes
<1>7. EI!DeleteClaims(p) => Goes(p, "claims", d.todo, d.now, d.touched, d.stamped)
  BY <1>6 DEF EI!DeleteClaims
<1>8. ASSUME EI!SaveClaim(p)
      PROVE  \E c \in d.todo : /\ Goes(p, "claims", d.todo \ {c}, d.now, d.touched, d.stamped)
                               /\ claims' = [claims EXCEPT ![d.key][c] = "active"]
  <2>1. PICK c \in d.todo : /\ claims' = [claims EXCEPT ![d.key][c] = "active"]
                            /\ job' = [job EXCEPT ![p].todo = @ \ {c}]
    BY <1>1, <1>8 DEF EI!SaveClaim
  <2>2. job' = [job EXCEPT ![p] = [d EXCEPT !.todo = d.todo \ {c}]]
    BY <1>1, <2>1
  <2>3. d.at = "claims"
    BY <1>1, <1>8 DEF EI!SaveClaim, EI!At
  <2>4. Goes(p, "claims", d.todo \ {c}, d.now, d.touched, d.stamped)
    BY <1>5, <1>a, <2>2, <2>3
  <2>. QED  BY <2>1, <2>4
<1>9. EI!Deactivate(p) \/ EI!ClaimsFail(p) => Goes(p, "touch", d.todo, d.now, d.touched, d.stamped)
  BY <1>6 DEF EI!Deactivate, EI!ClaimsFail
<1>10. ASSUME EI!Touch(p)  PROVE Goes(p, "unlink", d.todo, d.now, mentioned[d.key], d.stamped)
  <2>1. job' = [job EXCEPT ![p] = [d EXCEPT !.at = "unlink", !.touched = mentioned[d.key]]]
    BY <1>1, <1>10 DEF EI!Touch
  <2>2. PICK j : j = [d EXCEPT !.at = "unlink", !.touched = mentioned[d.key]]
    OBVIOUS
  <2>3. j = [at |-> "unlink", key |-> d.key, row |-> d.row, todo |-> d.todo, now |-> d.now, touched |-> mentioned[d.key], stamped |-> d.stamped]
    BY <1>2, <2>2
  <2>. QED  BY <1>a, <2>1, <2>2, <2>3
<1>11. ASSUME EI!Unlink(p)  PROVE Goes(p, "entity", EI!NamesOf(d.row), d.now, d.touched, d.stamped \cup mentioned[d.key])
  <2>1. job' = [job EXCEPT ![p] = [d EXCEPT !.at = "entity", !.todo = EI!NamesOf(d.row), !.stamped = d.stamped \cup mentioned[d.key]]]
    BY <1>1, <1>11 DEF EI!Unlink
  <2>2. PICK j : j = [d EXCEPT !.at = "entity", !.todo = EI!NamesOf(d.row), !.stamped = d.stamped \cup mentioned[d.key]]
    OBVIOUS
  <2>3. j = [at |-> "entity", key |-> d.key, row |-> d.row, todo |-> EI!NamesOf(d.row), now |-> d.now, touched |-> d.touched,
             stamped |-> d.stamped \cup mentioned[d.key]]
    BY <1>2, <2>2
  <2>. QED  BY <1>a, <2>1, <2>2, <2>3
<1>12. ASSUME EI!SaveEntity(p)
       PROVE  \E e \in d.todo : /\ Goes(p, "mention", d.todo, e, d.touched, d.stamped \cup {e})
                                /\ entities' = entities \cup {e} /\ fresh' = fresh \cup {e}
  <2>1. PICK e \in d.todo : /\ entities' = entities \cup {e} /\ fresh' = fresh \cup {e}
                            /\ job' = [job EXCEPT ![p].at = "mention", ![p].now = e, ![p].stamped = @ \cup {e}]
    BY <1>1, <1>12 DEF EI!SaveEntity
  <2>a. job' = [job EXCEPT ![p] = [d EXCEPT !.at = "mention", !.now = e, !.stamped = d.stamped \cup {e}]]
    BY <1>1, <2>1
  <2>b. PICK j : j = [d EXCEPT !.at = "mention", !.now = e, !.stamped = d.stamped \cup {e}]
    OBVIOUS
  <2>c. j = [at |-> "mention", key |-> d.key, row |-> d.row, todo |-> d.todo, now |-> e, touched |-> d.touched, stamped |-> d.stamped \cup {e}]
    BY <1>2, <2>b
  <2>2. Goes(p, "mention", d.todo, e, d.touched, d.stamped \cup {e})
    BY <1>a, <2>a, <2>b, <2>c
  <2>. QED  BY <2>1, <2>2
<1>13. ASSUME EI!SaveMention(p)  PROVE Goes(p, "entity", d.todo \ {d.now}, Absent, d.touched, d.stamped)
  <2>1. job' = [job EXCEPT ![p] = [d EXCEPT !.at = "entity", !.now = Absent, !.todo = d.todo \ {d.now}]]
    BY <1>1, <1>13 DEF EI!SaveMention
  <2>2. PICK j : j = [d EXCEPT !.at = "entity", !.now = Absent, !.todo = d.todo \ {d.now}]
    OBVIOUS
  <2>3. j = [at |-> "entity", key |-> d.key, row |-> d.row, todo |-> d.todo \ {d.now}, now |-> Absent, touched |-> d.touched, stamped |-> d.stamped]
    BY <1>2, <2>2
  <2>. QED  BY <1>a, <2>1, <2>2, <2>3
<1>14. ASSUME EI!EntitiesFail(p)
       PROVE  IF d.at \in {"entity", "mention"} /\ d.todo # {} /\ d.touched # {}
              THEN Goes(p, "prune", d.todo, d.now, d.touched, d.stamped) ELSE Ends(p)
  <2>1. job' = [job EXCEPT ![p] = IF d.at \in {"entity", "mention"} /\ d.todo # {} /\ d.touched # {}
                                  THEN [d EXCEPT !.at = "prune"] ELSE EI!NoJob]
    BY <1>1, <1>14 DEF EI!EntitiesFail
  <2>. QED  BY <1>1, <1>4, <2>1 DEF Goes, Ends
<1>15. EI!Prune(p) \/ EI!Crash(p) => Ends(p)
  BY DEF EI!Prune, EI!Crash, Ends
<1>. QED  BY <1>1, <1>7, <1>8, <1>9, <1>10, <1>11, <1>12, <1>13, <1>14, <1>15

\* What becomes of a job, and of the others.
LEMMA JobWent ==
    ASSUME EntityTypes, NEW p \in Procs, NEW at, NEW todo, NEW now, NEW touched, NEW stamped, Goes(p, at, todo, now, touched, stamped)
    PROVE  /\ job'[p].at = at /\ job'[p].key = job[p].key /\ job'[p].row = job[p].row /\ job'[p].todo = todo
           /\ job'[p].now = now /\ job'[p].touched = touched /\ job'[p].stamped = stamped
           /\ \A q \in Procs \ {p} : job'[q] = job[q]
BY DEF EntityTypes, Goes

LEMMA JobEnded ==
    ASSUME EntityTypes, NEW p \in Procs, Ends(p)
    PROVE  job'[p] = EI!NoJob /\ \A q \in Procs \ {p} : job'[q] = job[q]
BY DEF EntityTypes, Ends

\* Every step of a job keeps the types.
LEMMA EntityStepTypes == ASSUME EntityTypes, NEW p \in Procs, EntityStep(p) PROVE EntityTypes'
<1>1. job \in [Procs -> Job] /\ JobFits(job[p])
  BY DEF EntityTypes
<1>2. PICK d : d = job[p]
  OBVIOUS
<1>3. d \in Job /\ JobFits(d)
  BY <1>1, <1>2
<1>4. ASSUME NEW at \in JobStages, NEW todo \in SUBSET (Claims \cup Entities), NEW now \in Entities \cup {Absent},
             NEW touched \in SUBSET Entities, NEW stamped \in SUBSET Entities,
             d.at # "idle", at # "idle", Goes(p, at, todo, now, touched, stamped),
             at \in {"clear", "claims"} => todo \subseteq d.row.claims,
             at \in {"entity", "mention"} => todo \subseteq EI!NamesOf(d.row),
             at = "mention" => now \in todo
      PROVE  /\ job' \in [Procs -> Job] /\ \A q \in Procs : JobFits(job'[q])
             /\ Serialized => \A a, b \in Procs : job'[a].at # "idle" /\ job'[b].at # "idle" => a = b
  <2>1. PICK j : j = [at |-> at, key |-> d.key, row |-> d.row, todo |-> todo, now |-> now, touched |-> touched, stamped |-> stamped]
    OBVIOUS
  <2>2. d.key \in Keys \cup {Absent} /\ d.row \in EI!Row \cup {Absent}
    BY <1>3 DEF Job
  <2>3. j \in Job
    BY <2>1, <2>2 DEF Job
  <2>4. j.at = at /\ j.key = d.key /\ j.row = d.row /\ j.todo = todo /\ j.now = now
    BY <2>1
  <2>5. JobFits(j)
    BY <1>3, <1>4, <2>4 DEF JobFits
  <2>6. job' = [job EXCEPT ![p] = j]
    BY <1>2, <1>4, <2>1 DEF Goes
  <2>. QED  BY <1>2, <1>4, <2>3, <2>5, <2>6, JobGoesOn
<1>5. ASSUME Ends(p)
      PROVE  /\ job' \in [Procs -> Job] /\ \A q \in Procs : JobFits(job'[q])
             /\ Serialized => \A a, b \in Procs : job'[a].at # "idle" /\ job'[b].at # "idle" => a = b
  BY <1>5, NoJobIsIdle, JobGoesOn DEF Ends
<1>6. d.at # "idle" => /\ d.key \in Keys /\ d.row \in EI!Row /\ d.row.claims \subseteq Claims /\ EI!NamesOf(d.row) \subseteq Entities
                       /\ d.todo \subseteq Claims \cup Entities /\ d.now \in Entities \cup {Absent}
                       /\ d.touched \subseteq Entities /\ d.stamped \subseteq Entities /\ mentioned[d.key] \subseteq Entities
  <2>1. d.at # "idle" => d.key \in Keys /\ d.row \in EI!Row
    BY <1>3 DEF JobFits
  <2>2. d.todo \subseteq Claims \cup Entities /\ d.now \in Entities \cup {Absent} /\ d.touched \subseteq Entities /\ d.stamped \subseteq Entities
    BY <1>3 DEF Job
  <2>3. d.at # "idle" => d.row.claims \subseteq Claims
    BY <2>1 DEF EI!Row
  <2>. QED  BY <2>1, <2>2, <2>3, NamesAreEntities DEF EntityTypes
<1>7. CASE \E k \in Keys, r \in Rows : EI!Save(p, k, r) \/ EI!Restore(p, k, r)
  <2>1. PICK k \in Keys, r \in Rows, at \in {"claims", "clear"} : EI!Store(p, k, r, at)
    BY <1>7 DEF EI!Save, EI!Restore
  <2>2. PICK j \in Job : job' = [job EXCEPT ![p] = j] /\ JobFits(j)
    BY <2>1, JobStarts
  <2>3. EI!MayStart(p)
    BY <2>1 DEF EI!Store
  <2>4. /\ job' \in [Procs -> Job] /\ \A q \in Procs : JobFits(job'[q])
        /\ Serialized => \A a, b \in Procs : job'[a].at # "idle" /\ job'[b].at # "idle" => a = b
    BY <2>2, <2>3, JobGoesOn
  <2>5. r \in EI!Row
    BY RowsAssumption DEF EI!RowsFit
  <2>6. rows' = [rows EXCEPT ![k] = r] /\ UNCHANGED <<claims, mentioned, entities, fresh>>
    BY <2>1 DEF EI!Store
  <2>. QED  BY <2>4, <2>5, <2>6 DEF EntityTypes
<1>8. ASSUME NEW k \in Keys, EI!Forget(p, k)  PROVE EntityTypes'
  <2>1. /\ rows' = [rows EXCEPT ![k] = Absent]
        /\ claims' = [claims EXCEPT ![k] = [c \in Claims |-> "none"]]
        /\ mentioned' = [mentioned EXCEPT ![k] = {}]
        /\ entities' \subseteq entities /\ UNCHANGED <<fresh, job>>
    BY <1>8 DEF EI!Forget
  <2>. QED  BY <2>1 DEF EntityTypes
<1>9. ASSUME NEW k \in Keys, EI!Promote(p, k)  PROVE EntityTypes'
  <2>1. rows[k] \in EI!Row /\ rows' = [rows EXCEPT ![k] = [rows[k] EXCEPT !.kind = "lasting"]] /\ UNCHANGED <<claims, mentioned, entities, fresh, job>>
    BY <1>9 DEF EI!Promote, EntityTypes
  <2>2. [rows[k] EXCEPT !.kind = "lasting"] \in EI!Row
    BY <2>1 DEF EI!Row
  <2>. QED  BY <2>1, <2>2 DEF EntityTypes
<1>10. CASE EI!DeleteClaims(p)
  <2>1. Goes(p, "claims", d.todo, d.now, d.touched, d.stamped) /\ d.at = "clear"
    BY <1>2, <1>10, JobMoves DEF EI!DeleteClaims, EI!At
  <2>2. "claims" \in JobStages /\ d.todo \subseteq d.row.claims
    BY <1>3, <2>1 DEF JobStages, JobFits
  <2>3. /\ job' \in [Procs -> Job] /\ \A q \in Procs : JobFits(job'[q])
        /\ Serialized => \A a, b \in Procs : job'[a].at # "idle" /\ job'[b].at # "idle" => a = b
    BY <1>4, <1>6, <2>1, <2>2
  <2>4. claims' = [claims EXCEPT ![d.key] = [c \in Claims |-> "none"]] /\ UNCHANGED <<rows, mentioned, entities, fresh>>
    BY <1>2, <1>10 DEF EI!DeleteClaims
  <2>. QED  BY <2>3, <2>4 DEF EntityTypes
<1>11. CASE EI!SaveClaim(p)
  <2>0. d.at = "claims" /\ UNCHANGED <<rows, mentioned, entities, fresh>>
    BY <1>2, <1>11 DEF EI!SaveClaim, EI!At
  <2>1. PICK c \in d.todo : Goes(p, "claims", d.todo \ {c}, d.now, d.touched, d.stamped) /\ claims' = [claims EXCEPT ![d.key][c] = "active"]
    BY <1>2, <1>11, JobMoves
  <2>2. "claims" \in JobStages /\ d.todo \ {c} \subseteq d.row.claims
    BY <1>3, <2>0 DEF JobStages, JobFits
  <2>3. /\ job' \in [Procs -> Job] /\ \A q \in Procs : JobFits(job'[q])
        /\ Serialized => \A a, b \in Procs : job'[a].at # "idle" /\ job'[b].at # "idle" => a = b
    BY <1>4, <1>6, <2>0, <2>1, <2>2
  <2>4. claims' \in [Keys -> [Claims -> {"none", "active", "inactive"}]]
    BY <1>6, <2>0, <2>1 DEF EntityTypes
  <2>. QED  BY <2>0, <2>3, <2>4 DEF EntityTypes
<1>12. CASE EI!Deactivate(p) \/ EI!ClaimsFail(p)
  <2>1. d.at = "claims" /\ Goes(p, "touch", d.todo, d.now, d.touched, d.stamped) /\ UNCHANGED <<rows, mentioned, entities, fresh>>
    BY <1>2, <1>12, JobMoves DEF EI!Deactivate, EI!ClaimsFail, EI!At
  <2>2. "touch" \in JobStages
    BY DEF JobStages
  <2>3. /\ job' \in [Procs -> Job] /\ \A q \in Procs : JobFits(job'[q])
        /\ Serialized => \A a, b \in Procs : job'[a].at # "idle" /\ job'[b].at # "idle" => a = b
    BY <1>4, <1>6, <2>1, <2>2
  <2>4. claims' \in [Keys -> [Claims -> {"none", "active", "inactive"}]]
    <3>1. CASE EI!ClaimsFail(p)
      BY <3>1 DEF EntityTypes, EI!ClaimsFail
    <3>2. CASE EI!Deactivate(p)
      <4>1. claims[d.key] \in [Claims -> {"none", "active", "inactive"}]
        BY <1>6, <2>1 DEF EntityTypes
      <4>2. [c \in Claims |-> IF claims[d.key][c] = "active" /\ c \notin d.row.claims THEN "inactive" ELSE claims[d.key][c]]
                \in [Claims -> {"none", "active", "inactive"}]
        BY <4>1
      <4>3. claims' = [claims EXCEPT ![d.key] = [c \in Claims |-> IF claims[d.key][c] = "active" /\ c \notin d.row.claims
                                                                 THEN "inactive" ELSE claims[d.key][c]]]
        BY <1>2, <3>2 DEF EI!Deactivate
      <4>. QED  BY <4>2, <4>3 DEF EntityTypes
    <3>. QED  BY <1>12, <3>1, <3>2
  <2>. QED  BY <2>1, <2>3, <2>4 DEF EntityTypes
<1>13. CASE EI!Touch(p)
  <2>1. d.at = "touch" /\ Goes(p, "unlink", d.todo, d.now, mentioned[d.key], d.stamped) /\ UNCHANGED <<rows, claims, mentioned, entities, fresh>>
    BY <1>2, <1>13, JobMoves DEF EI!Touch, EI!At
  <2>2. "unlink" \in JobStages
    BY DEF JobStages
  <2>3. /\ job' \in [Procs -> Job] /\ \A q \in Procs : JobFits(job'[q])
        /\ Serialized => \A a, b \in Procs : job'[a].at # "idle" /\ job'[b].at # "idle" => a = b
    BY <1>4, <1>6, <2>1, <2>2
  <2>. QED  BY <2>1, <2>3 DEF EntityTypes
<1>14. CASE EI!Unlink(p)
  <2>1. /\ d.at = "unlink" /\ Goes(p, "entity", EI!NamesOf(d.row), d.now, d.touched, d.stamped \cup mentioned[d.key])
        /\ UNCHANGED <<rows, claims, entities>>
        /\ mentioned' = [mentioned EXCEPT ![d.key] = {}] /\ fresh' = fresh \cup mentioned[d.key]
    BY <1>2, <1>14, JobMoves DEF EI!Unlink, EI!At
  <2>2. "entity" \in JobStages
    BY DEF JobStages
  <2>4. EI!NamesOf(d.row) \in SUBSET (Claims \cup Entities) /\ d.stamped \cup mentioned[d.key] \in SUBSET Entities
        /\ d.now \in Entities \cup {Absent} /\ d.touched \in SUBSET Entities
    BY <1>6, <2>1
  <2>3. /\ job' \in [Procs -> Job] /\ \A q \in Procs : JobFits(job'[q])
        /\ Serialized => \A a, b \in Procs : job'[a].at # "idle" /\ job'[b].at # "idle" => a = b
    BY <1>4, <2>1, <2>2, <2>4
  <2>. QED  BY <1>6, <2>1, <2>3 DEF EntityTypes
<1>15. CASE EI!SaveEntity(p)
  <2>0. d.at = "entity" /\ UNCHANGED <<rows, claims, mentioned>>
    BY <1>2, <1>15 DEF EI!SaveEntity, EI!At
  <2>1. PICK e \in d.todo : /\ Goes(p, "mention", d.todo, e, d.touched, d.stamped \cup {e})
                            /\ entities' = entities \cup {e} /\ fresh' = fresh \cup {e}
    BY <1>2, <1>15, JobMoves
  <2>2. "mention" \in JobStages /\ d.todo \subseteq EI!NamesOf(d.row) /\ e \in Entities
    BY <1>3, <1>6, <2>0 DEF JobStages, JobFits
  <2>3. /\ job' \in [Procs -> Job] /\ \A q \in Procs : JobFits(job'[q])
        /\ Serialized => \A a, b \in Procs : job'[a].at # "idle" /\ job'[b].at # "idle" => a = b
    BY <1>4, <1>6, <2>0, <2>1, <2>2
  <2>. QED  BY <2>0, <2>1, <2>2, <2>3 DEF EntityTypes
<1>16. CASE EI!SaveMention(p)
  <2>1. /\ d.at = "mention" /\ Goes(p, "entity", d.todo \ {d.now}, Absent, d.touched, d.stamped) /\ UNCHANGED <<rows, claims, entities, fresh>>
        /\ mentioned' = [mentioned EXCEPT ![d.key] = @ \cup {d.now}]
    BY <1>2, <1>16, JobMoves DEF EI!SaveMention, EI!At
  <2>2. "entity" \in JobStages /\ d.todo \subseteq EI!NamesOf(d.row) /\ d.now \in d.todo
    BY <1>3, <2>1 DEF JobStages, JobFits
  <2>3. d.now \in Entities
    BY <1>6, <2>1, <2>2
  <2>4. /\ job' \in [Procs -> Job] /\ \A q \in Procs : JobFits(job'[q])
        /\ Serialized => \A a, b \in Procs : job'[a].at # "idle" /\ job'[b].at # "idle" => a = b
    BY <1>4, <1>6, <2>1, <2>2
  <2>. QED  BY <2>1, <2>3, <2>4 DEF EntityTypes
<1>17. CASE EI!EntitiesFail(p)
  <2>1. /\ d.at # "idle" /\ UNCHANGED <<rows, claims, mentioned, entities, fresh>>
        /\ Goes(p, "prune", d.todo, d.now, d.touched, d.stamped) \/ Ends(p)
    BY <1>2, <1>17, JobMoves DEF EI!EntitiesFail
  <2>2. "prune" \in JobStages
    BY DEF JobStages
  <2>3. /\ job' \in [Procs -> Job] /\ \A q \in Procs : JobFits(job'[q])
        /\ Serialized => \A a, b \in Procs : job'[a].at # "idle" /\ job'[b].at # "idle" => a = b
    BY <1>4, <1>5, <1>6, <2>1, <2>2
  <2>. QED  BY <2>1, <2>3 DEF EntityTypes
<1>18. CASE EI!Prune(p) \/ EI!Crash(p)
  <2>1. UNCHANGED <<rows, claims, mentioned, fresh>> /\ entities' \subseteq entities
    BY <1>18 DEF EI!Prune, EI!Crash
  <2>. QED  BY <1>5, <1>18, <2>1, JobMoves DEF EntityTypes
<1>. QED  BY <1>7, <1>8, <1>9, <1>10, <1>11, <1>12, <1>13, <1>14, <1>15, <1>16, <1>17, <1>18 DEF EntityStep

\* Every step keeps the types.
LEMMA EntityTypesStay == ASSUME EntityTypes, EI!Next PROVE EntityTypes'
<1>1. CASE \E p \in Procs : EntityStep(p)
  BY <1>1, EntityStepTypes
<1>2. CASE EI!Sweep
  BY <1>2 DEF EI!Sweep, EntityTypes
<1>3. CASE \E e \in Entities : EI!Age(e)
  BY <1>3 DEF EI!Age, EntityTypes
<1>. QED  BY <1>1, <1>2, <1>3 DEF EI!Next, EntityStep

LEMMA EntityIsTyped == ASSUME EntityTypes PROVE EI!TypeOK
<1>1. \A p \in Procs : ~EI!At(p, "idle") => job[p].key \in Keys
  BY DEF EntityTypes, JobFits, EI!At
<1>2. ASSUME Serialized  PROVE EI!Cardinality({p \in Procs : ~EI!At(p, "idle")}) <= 1
  <2>1. PICK S : S = {p \in Procs : ~EI!At(p, "idle")}
    OBVIOUS
  <2>2. \A a, b \in S : a = b
    BY <1>2, <2>1 DEF EntityTypes, EI!At
  <2>3. S = {} \/ \E a : S = {a}
    BY <2>2
  <2>4. Cardinality(S) = 0 \/ Cardinality(S) = 1
    BY <2>3, FS_EmptySet, FS_Singleton, Zenon
  <2>5. EI!Cardinality(S) = Cardinality(S)
    BY DEF EI!Cardinality, Cardinality
  <2>. QED  BY <2>1, <2>4, <2>5
<1>. QED  BY <1>1, <1>2 DEF EntityTypes, EI!TypeOK

-----------------------------------------------------------------------------
(* The entity index of a hosted project, where writers exclude each other *)

ClaimsMatch(k) == <<k, "claims">> \in cut \/ {c \in Claims : claims[k][c] = "active"} = rows[k].claims

\* The index of a key says what its row says.
KeyMatches(k) ==
    IF rows[k] = Absent
    THEN mentioned[k] = {} /\ \A c \in Claims : claims[k][c] = "none"
    ELSE ClaimsMatch(k) /\ (<<k, "entities">> \in cut \/ k \in promoted \/ mentioned[k] = EI!NamesOf(rows[k]))

\* How far the index of its key is, at each stage of a job.
JobRight(j) ==
    /\ rows[j.key] = j.row
    /\ j.at \in {"clear", "claims", "touch"} => j.stamped = {}
    /\ j.at = "clear" => j.todo = j.row.claims
    /\ j.at = "claims" => \A c \in j.row.claims \ j.todo : claims[j.key][c] = "active"
    /\ j.at \notin {"clear", "claims"} => ClaimsMatch(j.key)
    /\ j.at = "unlink" => j.touched = mentioned[j.key] /\ j.stamped = {}
    /\ j.at \in {"entity", "mention"} => mentioned[j.key] = EI!NamesOf(j.row) \ j.todo
    /\ j.at = "entity" => j.stamped \subseteq j.touched \cup mentioned[j.key]
    /\ j.at = "mention" => j.stamped \subseteq j.touched \cup mentioned[j.key] \cup {j.now} /\ j.now \in entities \cap j.stamped
    /\ j.at = "prune" => <<j.key, "entities">> \in cut /\ \A e \in j.stamped \cap entities : e \in EI!Mentioned \cup leftover

MentionsStand == \A k \in Keys : mentioned[k] \subseteq entities

OrphansKnown(stamped) == \A e \in entities : e \in EI!Mentioned \/ e \in leftover \/ e \in stamped

\* The index is right but for what the job of one writer is about.
RightWith(p) ==
    /\ \A q \in Procs \ {p} : job[q] = EI!NoJob
    /\ MentionsStand
    /\ job[p].at # "idle" => JobRight(job[p])
    /\ job[p].stamped \subseteq fresh
    /\ \A k \in Keys : job[p].at = "idle" \/ job[p].key # k => KeyMatches(k)
    /\ OrphansKnown(job[p].stamped)

EntityRight ==
    /\ MentionsStand
    /\ \A p \in Procs : (job[p].at # "idle" => JobRight(job[p])) /\ job[p].stamped \subseteq fresh
    /\ \A k \in Keys : (\A p \in Procs : job[p].at # "idle" => job[p].key # k) => KeyMatches(k)
    /\ \A e \in entities : e \in EI!Mentioned \/ e \in leftover \/ \E p \in Procs : e \in job[p].stamped

LEMMA MentionedIs == \A e : e \in EI!Mentioned <=> \E k \in Keys : e \in mentioned[k]
BY DEF EI!Mentioned

LEMMA RightToWith ==
    ASSUME EntityTypes, EntityRight, Serialized, NEW p \in Procs, job[p].at # "idle" \/ EI!MayStart(p)
    PROVE  RightWith(p)
<1>1. \A q \in Procs \ {p} : job[q].at = "idle"
  BY DEF EntityTypes, EI!MayStart, EI!AllIdle, EI!At
<1>2. \A q \in Procs \ {p} : job[q] = EI!NoJob
  BY <1>1 DEF EntityTypes, JobFits
<1>3. \A q \in Procs \ {p} : job[q].stamped = {}
  BY <1>2, NoJobIsIdle
<1>4. OrphansKnown(job[p].stamped)
  BY <1>3 DEF EntityRight, OrphansKnown
<1>5. \A k \in Keys : job[p].at = "idle" \/ job[p].key # k => KeyMatches(k)
  BY <1>1 DEF EntityRight
<1>. QED  BY <1>2, <1>4, <1>5 DEF EntityRight, RightWith

LEMMA WithToRight == ASSUME NEW p \in Procs, RightWith(p)' PROVE EntityRight'
<1>1. \A q \in Procs \ {p} : job'[q].at = "idle" /\ job'[q].stamped = {}
  BY NoJobIsIdle DEF RightWith
<1>2. \A k \in Keys : (\A q \in Procs : job'[q].at # "idle" => job'[q].key # k) => KeyMatches(k)'
  BY DEF RightWith
<1>3. \A e \in entities' : e \in EI!Mentioned' \/ e \in leftover' \/ \E q \in Procs : e \in job'[q].stamped
  BY DEF RightWith, OrphansKnown
<1>. QED  BY <1>1, <1>2, <1>3 DEF EntityRight, RightWith

\* A key nobody touches matches as before.
LEMMA StillMatches ==
    ASSUME NEW k, KeyMatches(k), rows'[k] = rows[k], claims'[k] = claims[k], mentioned'[k] = mentioned[k],
           \A w \in {"claims", "entities"} : <<k, w>> \in cut => <<k, w>> \in cut', k \in promoted => k \in promoted'
    PROVE  KeyMatches(k)'
<1>1. ClaimsMatch(k) => ClaimsMatch(k)'
  BY DEF ClaimsMatch
<1>. QED  BY <1>1 DEF KeyMatches

\* A job that goes on.
LEMMA GoesOnRight ==
    ASSUME EntityTypes, NEW p \in Procs, RightWith(p), job[p].at # "idle",
           NEW at, at # "idle", NEW todo, NEW now, NEW touched, NEW stamped, Goes(p, at, todo, now, touched, stamped),
           UNCHANGED <<rows, promoted>>,
           \A k \in Keys \ {job[p].key} : /\ claims'[k] = claims[k] /\ mentioned'[k] = mentioned[k]
                                          /\ \A w \in {"claims", "entities"} : <<k, w>> \in cut => <<k, w>> \in cut',
           MentionsStand', JobRight(job[p])', stamped \subseteq fresh', OrphansKnown(stamped)'
    PROVE  RightWith(p)'
<1>1. /\ job'[p].at = at /\ job'[p].key = job[p].key /\ job'[p].stamped = stamped
      /\ \A q \in Procs \ {p} : job'[q] = job[q]
  BY JobWent
<1>2. ASSUME NEW k \in Keys, k # job[p].key  PROVE KeyMatches(k)'
  <2>1. KeyMatches(k)
    BY <1>2 DEF RightWith
  <2>. QED  BY <1>2, <2>1, StillMatches
<1>3. \A k \in Keys : job'[p].at = "idle" \/ job'[p].key # k => KeyMatches(k)'
  BY <1>1, <1>2
<1>. QED  BY <1>1, <1>3 DEF RightWith

\* A job that ends.
LEMMA EndsRight ==
    ASSUME EntityTypes, NEW p \in Procs, RightWith(p), Ends(p), UNCHANGED <<rows, claims, mentioned, promoted>>,
           NEW key, key = job[p].key,
           \A k \in Keys \ {key} : \A w \in {"claims", "entities"} : <<k, w>> \in cut => <<k, w>> \in cut',
           MentionsStand', KeyMatches(key)', OrphansKnown({})'
    PROVE  RightWith(p)'
<1>1. job'[p] = EI!NoJob /\ \A q \in Procs \ {p} : job'[q] = job[q]
  BY JobEnded
<1>2. job'[p].at = "idle" /\ job'[p].stamped = {}
  BY <1>1, NoJobIsIdle
<1>3. ASSUME NEW k \in Keys, k # job[p].key  PROVE KeyMatches(k)'
  <2>1. KeyMatches(k)
    BY <1>3 DEF RightWith
  <2>. QED  BY <1>3, <2>1, StillMatches
<1>4. OrphansKnown(job[p].stamped)'
  BY <1>2 DEF OrphansKnown
<1>. QED  BY <1>1, <1>2, <1>3, <1>4 DEF RightWith

\* A job that starts.
LEMMA StartsRight ==
    ASSUME EntityTypes, NEW p \in Procs, RightWith(p), NEW k \in Keys, NEW r \in Rows, NEW at \in {"claims", "clear"},
           EI!Store(p, k, r, at)
    PROVE  RightWith(p)'
<1>1. PICK j \in Job : /\ job' = [job EXCEPT ![p] = j] /\ JobFits(j)
                       /\ j.at = at /\ j.key = k /\ j.row = r /\ j.todo = r.claims /\ j.touched = {} /\ j.stamped = {}
  BY JobStarts
<1>2. /\ rows' = [rows EXCEPT ![k] = r] /\ promoted' = promoted \ {k}
      /\ UNCHANGED <<claims, mentioned, entities, fresh, cut, leftover>> /\ job[p].at = "idle"
  BY DEF EI!Store, EI!MayStart, EI!At
<1>3. job'[p] = j /\ \A q \in Procs \ {p} : job'[q] = job[q]
  BY <1>1 DEF EntityTypes
<1>4. rows'[k] = r /\ \A m \in Keys \ {k} : rows'[m] = rows[m]
  BY <1>2 DEF EntityTypes
<1>5. ASSUME NEW m \in Keys, m # k  PROVE KeyMatches(m)'
  <2>1. KeyMatches(m)
    BY <1>2 DEF RightWith
  <2>. QED  BY <1>2, <1>4, <1>5, <2>1, StillMatches
<1>6. JobRight(job[p])'
  BY <1>1, <1>3, <1>4 DEF JobRight
<1>7. job[p].stamped = {}
  BY <1>2, NoJobIsIdle DEF EntityTypes, JobFits
<1>8. OrphansKnown(job[p].stamped)' /\ MentionsStand'
  <2>1. EI!Mentioned' = EI!Mentioned
    BY <1>2 DEF EI!Mentioned
  <2>. QED  BY <1>2, <1>7, <2>1 DEF OrphansKnown, MentionsStand, RightWith
<1>9. job'[p].at # "idle" /\ job'[p].key = k /\ job'[p].stamped = {}
  BY <1>1, <1>3
<1>. QED  BY <1>3, <1>5, <1>6, <1>8, <1>9 DEF RightWith

\* Every step of a writer keeps the index right but for what its job is about.
LEMMA EntityStepRight == ASSUME EntityTypes, Serialized, NEW p \in Procs, RightWith(p), EntityStep(p) PROVE RightWith(p)'
<1>1. PICK d : d = job[p]
  OBVIOUS
<1>2. job \in [Procs -> Job] /\ d \in Job /\ JobFits(d)
  BY <1>1 DEF EntityTypes
<1>3. d.at # "idle" => d.key \in Keys /\ d.row \in EI!Row /\ JobRight(d)
  BY <1>1, <1>2 DEF JobFits, RightWith
<1>4. d.stamped \subseteq fresh /\ OrphansKnown(d.stamped) /\ MentionsStand
  BY <1>1 DEF RightWith
<1>5. UNCHANGED mentioned => EI!Mentioned' = EI!Mentioned
  BY DEF EI!Mentioned
<1>6. CASE \E k \in Keys, r \in Rows : EI!Save(p, k, r) \/ EI!Restore(p, k, r)
  BY <1>6, StartsRight DEF EI!Save, EI!Restore
<1>7. ASSUME NEW k \in Keys, EI!Forget(p, k)  PROVE RightWith(p)'
  <2>1. /\ rows' = [rows EXCEPT ![k] = Absent]
        /\ claims' = [claims EXCEPT ![k] = [c \in Claims |-> "none"]]
        /\ mentioned' = [mentioned EXCEPT ![k] = {}]
        /\ entities' = entities \ {e \in mentioned[k] : \A o \in Keys \ {k} : e \notin mentioned[o]}
        /\ cut' = cut \ ({k} \X {"claims", "entities"}) /\ promoted' = promoted \ {k}
        /\ UNCHANGED <<fresh, job, leftover>> /\ d.at = "idle"
    BY <1>1, <1>7 DEF EI!Forget, EI!MayStart, EI!At
  <2>2. ASSUME NEW m \in Keys, m # k  PROVE KeyMatches(m)'
    <3>1. KeyMatches(m)
      BY <1>1, <2>1 DEF RightWith
    <3>2. rows'[m] = rows[m] /\ claims'[m] = claims[m] /\ mentioned'[m] = mentioned[m] /\ (m \in promoted => m \in promoted')
      BY <2>1, <2>2 DEF EntityTypes
    <3>3. \A w \in {"claims", "entities"} : <<m, w>> \in cut => <<m, w>> \in cut'
      BY <2>1, <2>2
    <3>. QED  BY <3>1, <3>2, <3>3, StillMatches
  <2>3. KeyMatches(k)'
    <3>1. rows'[k] = Absent /\ mentioned'[k] = {} /\ claims'[k] = [c \in Claims |-> "none"]
      BY <2>1 DEF EntityTypes
    <3>. QED  BY <3>1 DEF KeyMatches
  <2>4. mentioned'[k] = {} /\ \A m \in Keys \ {k} : mentioned'[m] = mentioned[m]
    BY <2>1 DEF EntityTypes
  <2>5. MentionsStand'
    BY <1>4, <2>1, <2>4 DEF MentionsStand
  <2>6. OrphansKnown(job[p].stamped)'
    <3>1. SUFFICES ASSUME NEW e \in entities', e \notin leftover, e \notin d.stamped  PROVE e \in EI!Mentioned'
      BY <1>1, <2>1 DEF OrphansKnown
    <3>2. PICK m \in Keys : e \in mentioned[m]
      BY <1>4, <2>1, <3>1, MentionedIs DEF OrphansKnown
    <3>3. \E o \in Keys \ {k} : e \in mentioned[o]
      BY <2>1, <3>1, <3>2
    <3>4. \E o \in Keys : e \in mentioned'[o]
      BY <2>4, <3>3
    <3>. QED  BY <3>4 DEF EI!Mentioned
  <2>. QED  BY <1>1, <2>1, <2>2, <2>3, <2>5, <2>6 DEF RightWith
<1>8. ASSUME NEW k \in Keys, EI!Promote(p, k)  PROVE RightWith(p)'
  <2>1. /\ rows[k] \in EI!Row /\ rows[k] # Absent /\ rows' = [rows EXCEPT ![k] = [rows[k] EXCEPT !.kind = "lasting"]]
        /\ promoted' = promoted \cup {k} /\ UNCHANGED <<claims, mentioned, entities, fresh, job, cut, leftover>> /\ d.at = "idle"
    BY <1>1, <1>8 DEF EI!Promote, EI!MayStart, EI!At, EntityTypes
  <2>2. /\ \A m \in Keys \ {k} : rows'[m] = rows[m]
        /\ rows'[k] = [rows[k] EXCEPT !.kind = "lasting"]
    BY <2>1 DEF EntityTypes
  <2>3. rows'[k].claims = rows[k].claims /\ rows'[k] # Absent
    <3>1. rows'[k] \in EI!Row /\ rows'[k].claims = rows[k].claims
      BY <2>1, <2>2 DEF EI!Row
    <3>. QED  BY <3>1, RowsAssumption DEF EI!RowsFit
  <2>4. ASSUME NEW m \in Keys  PROVE KeyMatches(m)'
    <3>1. KeyMatches(m)
      BY <1>1, <2>1 DEF RightWith
    <3>2. CASE m # k
      BY <2>1, <2>2, <3>1, <3>2, StillMatches
    <3>3. CASE m = k
      BY <2>1, <2>3, <3>1, <3>3 DEF KeyMatches, ClaimsMatch
    <3>. QED  BY <3>2, <3>3
  <2>5. MentionsStand' /\ OrphansKnown(job[p].stamped)'
    BY <1>1, <1>4, <1>5, <2>1 DEF MentionsStand, OrphansKnown
  <2>. QED  BY <1>1, <2>1, <2>4, <2>5 DEF RightWith
<1>9. ASSUME NEW at, at # "idle", NEW todo, NEW now, NEW touched, NEW stamped, Goes(p, at, todo, now, touched, stamped)
      PROVE  /\ job'[p].at = at /\ job'[p].key = d.key /\ job'[p].row = d.row /\ job'[p].todo = todo
             /\ job'[p].now = now /\ job'[p].touched = touched /\ job'[p].stamped = stamped
  BY <1>1, <1>9, JobWent
<1>10. CASE EI!DeleteClaims(p)
  <2>1. /\ d.at = "clear" /\ Goes(p, "claims", d.todo, d.now, d.touched, d.stamped)
        /\ claims' = [claims EXCEPT ![d.key] = [c \in Claims |-> "none"]]
        /\ UNCHANGED <<rows, mentioned, entities, fresh, cut, promoted, leftover>>
    BY <1>1, <1>10, JobMoves DEF EI!DeleteClaims, EI!At
  <2>2. \A k \in Keys \ {d.key} : claims'[k] = claims[k]
    BY <2>1 DEF EntityTypes
  <2>3. JobRight(job[p])'
    <3>1. d.row.claims \ d.todo = {}
      BY <1>3, <2>1 DEF JobRight
    <3>. QED  BY <1>3, <1>9, <2>1, <3>1 DEF JobRight
  <2>4. MentionsStand' /\ OrphansKnown(d.stamped)'
    BY <1>4, <1>5, <2>1 DEF MentionsStand, OrphansKnown
  <2>. QED  BY <1>1, <1>4, <2>1, <2>2, <2>3, <2>4, GoesOnRight
<1>11. CASE EI!SaveClaim(p)
  <2>1. d.at = "claims" /\ UNCHANGED <<rows, mentioned, entities, fresh, cut, promoted, leftover>>
    BY <1>1, <1>11 DEF EI!SaveClaim, EI!At
  <2>2. PICK c \in d.todo : Goes(p, "claims", d.todo \ {c}, d.now, d.touched, d.stamped) /\ claims' = [claims EXCEPT ![d.key][c] = "active"]
    BY <1>1, <1>11, JobMoves
  <2>3. c \in Claims /\ d.key \in Keys /\ c \in d.row.claims
    BY <1>2, <1>3, <2>1 DEF JobFits, EI!Row
  <2>4. /\ \A k \in Keys \ {d.key} : claims'[k] = claims[k]
        /\ claims'[d.key][c] = "active" /\ \A x \in Claims \ {c} : claims'[d.key][x] = claims[d.key][x]
    BY <2>2, <2>3 DEF EntityTypes
  <2>5. JobRight(job[p])'
    <3>1. d.row.claims \subseteq Claims
      BY <1>3, <2>1 DEF EI!Row
    <3>2. \A x \in d.row.claims \ (d.todo \ {c}) : claims'[d.key][x] = "active"
      BY <1>3, <2>1, <2>4, <3>1 DEF JobRight
    <3>. QED  BY <1>3, <1>9, <2>1, <2>2, <3>2 DEF JobRight
  <2>6. MentionsStand' /\ OrphansKnown(d.stamped)'
    BY <1>4, <1>5, <2>1 DEF MentionsStand, OrphansKnown
  <2>. QED  BY <1>1, <1>4, <2>1, <2>2, <2>4, <2>5, <2>6, GoesOnRight
<1>12. CASE EI!Deactivate(p) \/ EI!ClaimsFail(p)
  <2>1. /\ d.at = "claims" /\ Goes(p, "touch", d.todo, d.now, d.touched, d.stamped)
        /\ UNCHANGED <<rows, mentioned, entities, fresh, promoted, leftover>>
    BY <1>1, <1>12, JobMoves DEF EI!Deactivate, EI!ClaimsFail, EI!At
  <2>2. /\ \A k \in Keys \ {d.key} : claims'[k] = claims[k]
        /\ \A k \in Keys \ {d.key} : \A w \in {"claims", "entities"} : <<k, w>> \in cut => <<k, w>> \in cut'
        /\ ClaimsMatch(d.key)'
    <3>1. CASE EI!ClaimsFail(p)
      <4>1. claims' = claims /\ cut' = cut \cup {<<d.key, "claims">>}
        BY <1>1, <3>1 DEF EI!ClaimsFail
      <4>. QED  BY <4>1 DEF ClaimsMatch
    <3>2. CASE EI!Deactivate(p)
      <4>1. /\ claims' = [claims EXCEPT ![d.key] = [c \in Claims |-> IF claims[d.key][c] = "active" /\ c \notin d.row.claims
                                                                    THEN "inactive" ELSE claims[d.key][c]]]
            /\ cut' = cut \ {<<d.key, "claims">>} /\ d.todo = {}
        BY <1>1, <3>2 DEF EI!Deactivate
      <4>2. d.key \in Keys /\ d.row.claims \subseteq Claims /\ rows'[d.key] = d.row
        BY <1>3, <2>1 DEF EI!Row, JobRight
      <4>3. claims'[d.key] = [c \in Claims |-> IF claims[d.key][c] = "active" /\ c \notin d.row.claims
                                               THEN "inactive" ELSE claims[d.key][c]]
        BY <4>1, <4>2 DEF EntityTypes
      <4>4. \A c \in d.row.claims : claims[d.key][c] = "active"
        BY <1>3, <2>1, <4>1 DEF JobRight
      <4>5. \A c \in Claims : claims'[d.key][c] = "active" <=> c \in d.row.claims
        BY <4>3, <4>4
      <4>6. {c \in Claims : claims'[d.key][c] = "active"} = d.row.claims
        BY <4>2, <4>5
      <4>7. \A k \in Keys \ {d.key} : claims'[k] = claims[k]
        BY <4>1 DEF EntityTypes
      <4>8. \A k \in Keys \ {d.key} : \A w \in {"claims", "entities"} : <<k, w>> \in cut => <<k, w>> \in cut'
        BY <4>1
      <4>. QED  BY <4>2, <4>6, <4>7, <4>8 DEF ClaimsMatch
    <3>. QED  BY <1>12, <3>1, <3>2
  <2>3. JobRight(job[p])'
    <3>1. job'[p].at = "touch" /\ job'[p].key = d.key /\ job'[p].row = d.row /\ job'[p].stamped = d.stamped
      BY <1>9, <2>1
    <3>2. d.stamped = {} /\ rows'[d.key] = d.row
      BY <1>3, <2>1 DEF JobRight
    <3>3. ClaimsMatch(job[p].key)'
      BY <2>2, <3>1 DEF ClaimsMatch
    <3>. QED  BY <3>1, <3>2, <3>3 DEF JobRight
  <2>4. MentionsStand' /\ OrphansKnown(d.stamped)'
    BY <1>4, <1>5, <2>1 DEF MentionsStand, OrphansKnown
  <2>. QED  BY <1>1, <1>4, <2>1, <2>2, <2>3, <2>4, GoesOnRight
<1>13. ASSUME d.at \notin {"idle", "clear", "claims"}, UNCHANGED <<rows, claims>>, cut \subseteq cut', job'[p].key = d.key
       PROVE  ClaimsMatch(job[p].key)' /\ rows'[job'[p].key] = d.row
  BY <1>3, <1>13 DEF JobRight, ClaimsMatch
<1>14. CASE EI!Touch(p)
  <2>1. /\ d.at = "touch" /\ Goes(p, "unlink", d.todo, d.now, mentioned[d.key], d.stamped)
        /\ UNCHANGED <<rows, claims, mentioned, entities, fresh, cut, promoted, leftover>>
    BY <1>1, <1>14, JobMoves DEF EI!Touch, EI!At
  <2>2. JobRight(job[p])'
    <3>1. /\ job'[p].at = "unlink" /\ job'[p].key = d.key /\ job'[p].row = d.row /\ job'[p].touched = mentioned[d.key]
          /\ job'[p].stamped = d.stamped
      BY <1>9, <2>1
    <3>2. d.stamped = {}
      BY <1>3, <2>1 DEF JobRight
    <3>. QED  BY <1>13, <2>1, <3>1, <3>2 DEF JobRight
  <2>3. MentionsStand' /\ OrphansKnown(d.stamped)'
    BY <1>4, <1>5, <2>1 DEF MentionsStand, OrphansKnown
  <2>. QED  BY <1>1, <1>4, <2>1, <2>2, <2>3, GoesOnRight
<1>15. CASE EI!Unlink(p)
  <2>1. /\ d.at = "unlink" /\ Goes(p, "entity", EI!NamesOf(d.row), d.now, d.touched, d.stamped \cup mentioned[d.key])
        /\ UNCHANGED <<rows, claims, entities, cut, promoted, leftover>>
        /\ mentioned' = [mentioned EXCEPT ![d.key] = {}] /\ fresh' = fresh \cup mentioned[d.key]
    BY <1>1, <1>15, JobMoves DEF EI!Unlink, EI!At
  <2>2. d.touched = mentioned[d.key] /\ d.stamped = {} /\ d.key \in Keys
    BY <1>3, <2>1 DEF JobRight
  <2>3. mentioned'[d.key] = {} /\ \A k \in Keys \ {d.key} : mentioned'[k] = mentioned[k]
    BY <2>1, <2>2 DEF EntityTypes
  <2>4. JobRight(job[p])'
    <3>1. /\ job'[p].at = "entity" /\ job'[p].key = d.key /\ job'[p].row = d.row /\ job'[p].todo = EI!NamesOf(d.row)
          /\ job'[p].touched = d.touched /\ job'[p].stamped = d.stamped \cup mentioned[d.key]
      BY <1>9, <2>1
    <3>. QED  BY <1>13, <2>1, <2>2, <2>3, <3>1 DEF JobRight
  <2>5. MentionsStand'
    BY <1>4, <2>1, <2>3 DEF MentionsStand
  <2>0. PICK stamped : stamped = d.stamped \cup mentioned[d.key]
    OBVIOUS
  <2>6. OrphansKnown(stamped)'
    <3>1. SUFFICES ASSUME NEW e \in entities, e \notin leftover, e \notin mentioned[d.key], e \notin d.stamped  PROVE e \in EI!Mentioned'
      BY <2>0, <2>1, <2>2 DEF OrphansKnown
    <3>2. PICK k \in Keys : e \in mentioned[k]
      BY <1>4, <3>1, MentionedIs DEF OrphansKnown
    <3>3. e \in mentioned'[k]
      BY <2>3, <3>1, <3>2
    <3>. QED  BY <3>3 DEF EI!Mentioned
  <2>7. stamped \subseteq fresh' /\ Goes(p, "entity", EI!NamesOf(d.row), d.now, d.touched, stamped)
    BY <1>4, <2>0, <2>1
  <2>. QED  BY <1>1, <2>1, <2>3, <2>4, <2>5, <2>6, <2>7, GoesOnRight
<1>16. CASE EI!SaveEntity(p)
  <2>1. d.at = "entity" /\ UNCHANGED <<rows, claims, mentioned, cut, promoted, leftover>>
    BY <1>1, <1>16 DEF EI!SaveEntity, EI!At
  <2>2. PICK e \in d.todo : /\ Goes(p, "mention", d.todo, e, d.touched, d.stamped \cup {e})
                            /\ entities' = entities \cup {e} /\ fresh' = fresh \cup {e}
    BY <1>1, <1>16, JobMoves
  <2>3. JobRight(job[p])'
    <3>1. /\ job'[p].at = "mention" /\ job'[p].key = d.key /\ job'[p].row = d.row /\ job'[p].todo = d.todo
          /\ job'[p].now = e /\ job'[p].touched = d.touched /\ job'[p].stamped = d.stamped \cup {e}
      BY <1>9, <2>2
    <3>2. mentioned[d.key] = EI!NamesOf(d.row) \ d.todo /\ d.stamped \subseteq d.touched \cup mentioned[d.key]
      BY <1>3, <2>1 DEF JobRight
    <3>. QED  BY <1>13, <2>1, <2>2, <3>1, <3>2 DEF JobRight
  <2>4. MentionsStand' /\ OrphansKnown(d.stamped \cup {e})'
    BY <1>4, <1>5, <2>1, <2>2 DEF MentionsStand, OrphansKnown
  <2>5. d.stamped \cup {e} \subseteq fresh'
    BY <1>4, <2>2
  <2>. QED  BY <1>1, <2>1, <2>2, <2>3, <2>4, <2>5, GoesOnRight
<1>17. CASE EI!SaveMention(p)
  <2>1. /\ d.at = "mention" /\ Goes(p, "entity", d.todo \ {d.now}, Absent, d.touched, d.stamped)
        /\ UNCHANGED <<rows, claims, entities, fresh, cut, promoted, leftover>>
        /\ mentioned' = [mentioned EXCEPT ![d.key] = @ \cup {d.now}]
    BY <1>1, <1>17, JobMoves DEF EI!SaveMention, EI!At
  <2>2. /\ mentioned[d.key] = EI!NamesOf(d.row) \ d.todo /\ d.now \in entities \cap d.stamped
        /\ d.stamped \subseteq d.touched \cup mentioned[d.key] \cup {d.now}
    BY <1>3, <2>1 DEF JobRight
  <2>3. d.now \in d.todo /\ d.todo \subseteq EI!NamesOf(d.row) /\ d.key \in Keys
    BY <1>2, <1>3, <2>1 DEF JobFits
  <2>4. mentioned'[d.key] = mentioned[d.key] \cup {d.now} /\ \A k \in Keys \ {d.key} : mentioned'[k] = mentioned[k]
    BY <2>1, <2>3 DEF EntityTypes
  <2>5. JobRight(job[p])'
    <3>1. /\ job'[p].at = "entity" /\ job'[p].key = d.key /\ job'[p].row = d.row /\ job'[p].todo = d.todo \ {d.now}
          /\ job'[p].touched = d.touched /\ job'[p].stamped = d.stamped
      BY <1>9, <2>1
    <3>2. mentioned'[d.key] = EI!NamesOf(d.row) \ (d.todo \ {d.now})
      BY <2>2, <2>3, <2>4
    <3>3. d.stamped \subseteq d.touched \cup mentioned'[d.key]
      BY <2>2, <2>4
    <3>. QED  BY <1>13, <2>1, <3>1, <3>2, <3>3 DEF JobRight
  <2>6. MentionsStand'
    BY <1>4, <2>1, <2>2, <2>4 DEF MentionsStand
  <2>7. OrphansKnown(d.stamped)'
    <3>1. \A e : e \in EI!Mentioned => e \in EI!Mentioned'
      <4>1. \A k \in Keys : mentioned[k] \subseteq mentioned'[k]
        BY <2>4
      <4>. QED  BY <4>1 DEF EI!Mentioned
    <3>. QED  BY <1>4, <2>1, <3>1 DEF OrphansKnown
  <2>. QED  BY <1>1, <1>4, <2>1, <2>4, <2>5, <2>6, <2>7, GoesOnRight
<1>18. CASE EI!EntitiesFail(p)
  <2>1. /\ d.at \in {"touch", "unlink", "entity", "mention", "prune"}
        /\ UNCHANGED <<rows, claims, mentioned, entities, fresh, promoted>> /\ leftover' = leftover \cup d.stamped
        /\ cut' = IF d.at = "prune" \/ (d.at = "entity" /\ d.todo = {}) THEN cut ELSE cut \cup {<<d.key, "entities">>}
        /\ IF d.at \in {"entity", "mention"} /\ d.todo # {} /\ d.touched # {}
           THEN Goes(p, "prune", d.todo, d.now, d.touched, d.stamped) ELSE Ends(p)
    BY <1>1, <1>18, JobMoves DEF EI!EntitiesFail, EI!At
  <2>2. /\ cut \subseteq cut'
        /\ \A k \in Keys \ {d.key} : \A w \in {"claims", "entities"} : <<k, w>> \in cut => <<k, w>> \in cut'
        /\ d.at # "idle"
    BY <2>1
  <2>3. MentionsStand' /\ OrphansKnown({})'
    BY <1>4, <1>5, <2>1 DEF MentionsStand, OrphansKnown
  <2>4. CASE d.at \in {"entity", "mention"} /\ d.todo # {} /\ d.touched # {}
    <3>1. Goes(p, "prune", d.todo, d.now, d.touched, d.stamped) /\ cut' = cut \cup {<<d.key, "entities">>}
      BY <2>1, <2>4
    <3>2. JobRight(job[p])'
      <4>1. job'[p].at = "prune" /\ job'[p].key = d.key /\ job'[p].row = d.row /\ job'[p].stamped = d.stamped
        BY <1>9, <3>1
      <4>2. <<d.key, "entities">> \in cut' /\ \A e \in d.stamped : e \in leftover'
        BY <2>1, <3>1
      <4>. QED  BY <1>13, <2>1, <2>2, <4>1, <4>2 DEF JobRight
    <3>3. OrphansKnown(d.stamped)'
      BY <2>3 DEF OrphansKnown
    <3>. QED  BY <1>1, <1>4, <2>1, <2>2, <2>3, <3>1, <3>2, <3>3, GoesOnRight
  <2>5. CASE ~(d.at \in {"entity", "mention"} /\ d.todo # {} /\ d.touched # {})
    <3>1. Ends(p)
      BY <2>1, <2>5
    <3>2. KeyMatches(d.key)'
      <4>1. rows[d.key] = d.row /\ ClaimsMatch(d.key) /\ d.row # Absent
        BY <1>3, <2>1, RowsAssumption DEF JobRight, EI!RowsFit
      <4>2. ClaimsMatch(d.key)'
        BY <2>1, <2>2, <4>1 DEF ClaimsMatch
      <4>3. d.at = "prune" => <<d.key, "entities">> \in cut
        BY <1>3 DEF JobRight
      <4>4. d.at = "entity" /\ d.todo = {} => mentioned[d.key] = EI!NamesOf(d.row)
        BY <1>3 DEF JobRight
      <4>. QED  BY <2>1, <4>1, <4>2, <4>3, <4>4 DEF KeyMatches
    <3>. QED  BY <1>1, <2>1, <2>2, <2>3, <3>1, <3>2, EndsRight
  <2>. QED  BY <2>4, <2>5
<1>19. CASE EI!Crash(p)
  <2>1. /\ d.at # "idle" /\ UNCHANGED <<rows, claims, mentioned, entities, fresh, promoted>> /\ leftover' = leftover \cup d.stamped
        /\ cut' = cut \cup ({d.key} \X (IF d.at \in {"clear", "claims"} THEN {"claims", "entities"} ELSE {"entities"}))
        /\ Ends(p)
    BY <1>1, <1>19, JobMoves DEF EI!Crash, EI!At, EI!Unfinished
  <2>2. /\ cut \subseteq cut' /\ <<d.key, "entities">> \in cut' /\ (d.at \in {"clear", "claims"} => <<d.key, "claims">> \in cut')
        /\ \A k \in Keys \ {d.key} : \A w \in {"claims", "entities"} : <<k, w>> \in cut => <<k, w>> \in cut'
    BY <2>1
  <2>3. MentionsStand' /\ OrphansKnown({})'
    BY <1>4, <1>5, <2>1 DEF MentionsStand, OrphansKnown
  <2>4. KeyMatches(d.key)'
    <3>1. rows[d.key] = d.row /\ d.row # Absent /\ (d.at \notin {"clear", "claims"} => ClaimsMatch(d.key))
      BY <1>3, <2>1, RowsAssumption DEF JobRight, EI!RowsFit
    <3>2. ClaimsMatch(d.key)'
      BY <2>1, <2>2, <3>1 DEF ClaimsMatch
    <3>. QED  BY <2>1, <2>2, <3>1, <3>2 DEF KeyMatches
  <2>. QED  BY <1>1, <2>1, <2>2, <2>3, <2>4, EndsRight
<1>20. CASE EI!Prune(p)
  <2>1. /\ d.at = "prune" \/ (d.at = "entity" /\ d.todo = {})
        /\ entities' = entities \ (d.touched \ EI!Mentioned)
        /\ cut' = IF d.at = "entity" THEN cut \ {<<d.key, "entities">>} ELSE cut
        /\ Ends(p) /\ UNCHANGED <<rows, claims, mentioned, fresh, promoted, leftover>>
    BY <1>1, <1>20, JobMoves DEF EI!Prune, EI!At
  <2>2. \A k \in Keys \ {d.key} : \A w \in {"claims", "entities"} : <<k, w>> \in cut => <<k, w>> \in cut'
    BY <2>1
  <2>3. MentionsStand'
    BY <1>4, <2>1, MentionedIs DEF MentionsStand
  <2>4. KeyMatches(d.key)'
    <3>1. rows[d.key] = d.row /\ d.row # Absent /\ ClaimsMatch(d.key)
      BY <1>3, <2>1, RowsAssumption DEF JobRight, EI!RowsFit
    <3>2. ClaimsMatch(d.key)'
      BY <2>1, <3>1 DEF ClaimsMatch
    <3>3. d.at = "prune" => <<d.key, "entities">> \in cut
      BY <1>3 DEF JobRight
    <3>4. d.at = "entity" => mentioned[d.key] = EI!NamesOf(d.row)
      BY <1>3, <2>1 DEF JobRight
    <3>. QED  BY <2>1, <3>1, <3>2, <3>3, <3>4 DEF KeyMatches
  <2>5. OrphansKnown({})'
    <3>1. SUFFICES ASSUME NEW e \in entities', e \notin leftover, e \notin EI!Mentioned  PROVE FALSE
      BY <1>5, <2>1 DEF OrphansKnown
    <3>2. e \in entities /\ e \notin d.touched /\ e \in d.stamped
      BY <1>4, <2>1, <3>1 DEF OrphansKnown
    <3>3. CASE d.at = "prune"
      BY <1>3, <3>1, <3>2, <3>3 DEF JobRight
    <3>4. CASE d.at = "entity"
      <4>1. d.stamped \subseteq d.touched \cup mentioned[d.key] /\ d.key \in Keys
        BY <1>3, <3>4 DEF JobRight
      <4>. QED  BY <3>1, <3>2, <4>1, MentionedIs
    <3>. QED  BY <2>1, <3>3, <3>4
  <2>. QED  BY <1>1, <2>1, <2>2, <2>3, <2>4, <2>5, EndsRight
<1>. QED  BY <1>6, <1>7, <1>8, <1>10, <1>11, <1>12, <1>14, <1>15, <1>16, <1>17, <1>18, <1>19, <1>20 DEF EntityStep

LEMMA EntityRightStart == ASSUME EI!Init PROVE EntityRight
<1>1. \A p \in Procs : job[p].at = "idle" /\ job[p].stamped = {}
  BY NoJobIsIdle DEF EI!Init
<1>2. \A k \in Keys : rows[k] = Absent /\ mentioned[k] = {} /\ \A c \in Claims : claims[k][c] = "none"
  BY DEF EI!Init
<1>3. entities = {}
  BY DEF EI!Init
<1>. QED  BY <1>1, <1>2, <1>3 DEF EntityRight, MentionsStand, KeyMatches

LEMMA EntityRightStands == ASSUME EntityRight, UNCHANGED evars PROVE EntityRight'
<1>1. UNCHANGED <<rows, claims, mentioned, entities, fresh, job, cut, promoted, leftover>>
  BY DEF evars
<1>. QED  BY <1>1 DEF EntityRight, MentionsStand, KeyMatches, ClaimsMatch, JobRight, EI!Mentioned

\* A sweep and the passing of time.
LEMMA SweepRight == ASSUME EntityRight, EI!Sweep PROVE EntityRight'
<1>1. /\ entities' = entities \cap (EI!Mentioned \cup fresh) /\ leftover' = leftover \cap entities'
      /\ UNCHANGED <<rows, claims, mentioned, fresh, job, cut, promoted>>
  BY DEF EI!Sweep
<1>2. EI!Mentioned' = EI!Mentioned
  BY <1>1 DEF EI!Mentioned
<1>3. MentionsStand'
  BY <1>1, MentionedIs DEF EntityRight, MentionsStand
<1>4. ASSUME NEW p \in Procs, job[p].at # "idle"  PROVE JobRight(job[p])'
  <2>1. PICK d : d = job[p]
    OBVIOUS
  <2>2. JobRight(d) /\ d.stamped \subseteq fresh /\ job'[p] = d
    BY <1>1, <1>4, <2>1 DEF EntityRight
  <2>3. d.at = "mention" => d.now \in entities' \cap d.stamped
    BY <1>1, <2>2 DEF JobRight
  <2>4. d.at = "prune" => \A e \in d.stamped \cap entities' : e \in EI!Mentioned' \cup leftover'
    BY <1>1, <1>2, <2>2 DEF JobRight
  <2>. QED  BY <1>1, <2>2, <2>3, <2>4 DEF JobRight, ClaimsMatch
<1>5. \A k \in Keys : KeyMatches(k) => KeyMatches(k)'
  BY <1>1, StillMatches
<1>6. \A e \in entities' : e \in EI!Mentioned' \/ e \in leftover' \/ \E p \in Procs : e \in job'[p].stamped
  BY <1>1, <1>2 DEF EntityRight
<1>. QED  BY <1>1, <1>3, <1>4, <1>5, <1>6 DEF EntityRight

LEMMA AgeRight == ASSUME EntityRight, NEW e \in Entities, EI!Age(e) PROVE EntityRight'
<1>1. /\ \A p \in Procs : e \notin job[p].stamped
      /\ fresh' = fresh \ {e} /\ UNCHANGED <<rows, claims, mentioned, entities, job, cut, promoted, leftover>>
  BY DEF EI!Age
<1>2. \A p \in Procs : job[p].stamped \subseteq fresh'
  BY <1>1 DEF EntityRight
<1>. QED  BY <1>1, <1>2 DEF EntityRight, MentionsStand, KeyMatches, ClaimsMatch, JobRight, EI!Mentioned

\* Who takes a step has a job or may start one.
LEMMA MayStep == ASSUME NEW p \in Procs, EntityStep(p) PROVE job[p].at # "idle" \/ EI!MayStart(p)
BY DEF EntityStep, EI!Save, EI!Restore, EI!Store, EI!Forget, EI!Promote, EI!DeleteClaims, EI!SaveClaim, EI!Deactivate,
       EI!Touch, EI!Unlink, EI!SaveEntity, EI!SaveMention, EI!Prune, EI!ClaimsFail, EI!EntitiesFail, EI!Crash, EI!At

\* Every step keeps the index right.
LEMMA EntityRightStays == ASSUME EntityTypes, EntityRight, Serialized, EI!Next PROVE EntityRight'
<1>1. ASSUME NEW p \in Procs, EntityStep(p)  PROVE EntityRight'
  <2>1. RightWith(p)
    BY <1>1, MayStep, RightToWith
  <2>2. RightWith(p)'
    BY <1>1, <2>1, EntityStepRight
  <2>. QED  BY <2>2, WithToRight
<1>2. CASE EI!Sweep
  BY <1>2, SweepRight
<1>3. CASE \E e \in Entities : EI!Age(e)
  BY <1>3, AgeRight
<1>. QED  BY <1>1, <1>2, <1>3 DEF EI!Next, EntityStep

LEMMA EntityIsRight == ASSUME EntityTypes, EntityRight PROVE EI!MentionsHaveEntity /\ EI!IndexMatchesRows /\ EI!NoOtherOrphans
<1>1. EI!MentionsHaveEntity
  BY MentionedIs DEF EntityRight, MentionsStand, EI!MentionsHaveEntity
<1>2. EI!IndexMatchesRows
  BY DEF EntityRight, KeyMatches, ClaimsMatch, EI!IndexMatchesRows, EI!AllIdle, EI!At
<1>3. ASSUME EI!AllIdle, NEW p \in Procs, EntityTypes  PROVE job[p].stamped = {}
  BY <1>3, NoJobIsIdle DEF EntityTypes, JobFits, EI!AllIdle, EI!At
<1>4. EI!NoOtherOrphans
  BY <1>3 DEF EntityRight, EI!NoOtherOrphans
<1>. QED  BY <1>1, <1>2, <1>4

\* No step takes an entity that a row still names.
LEMMA EntitiesOutlive ==
    ASSUME EntityTypes, EntityRight, Serialized, EI!Next,
           NEW e \in entities \ entities', NEW k \in Keys, rows'[k] # Absent, <<k, "entities">> \notin cut', k \notin promoted',
           e \in EI!NamesOf(rows'[k])
    PROVE  \E p \in Procs : job[p].key = k /\ e \notin mentioned[k] \cup job[p].stamped
<1>1. ASSUME rows'[k] = rows[k], <<k, "entities">> \notin cut, k \notin promoted, \A p \in Procs : job[p].at # "idle" => job[p].key # k
      PROVE  e \in mentioned[k]
  BY <1>1 DEF EntityRight, KeyMatches
<1>2. CASE EI!Sweep
  <2>1. e \notin EI!Mentioned /\ e \notin fresh /\ UNCHANGED <<rows, cut, promoted>>
    BY <1>2 DEF EI!Sweep
  <2>2. e \notin mentioned[k]
    BY <2>1, MentionedIs
  <2>3. PICK p \in Procs : job[p].key = k
    BY <1>1, <2>1, <2>2
  <2>4. e \notin job[p].stamped
    BY <2>1 DEF EntityRight
  <2>. QED  BY <2>2, <2>3, <2>4
<1>3. CASE \E x \in Entities : EI!Age(x)
  BY <1>3 DEF EI!Age
<1>4. ASSUME NEW p \in Procs, EI!Prune(p)  PROVE FALSE
  <2>1. PICK d : d = job[p]
    OBVIOUS
  <2>2. /\ d.at = "prune" \/ (d.at = "entity" /\ d.todo = {})
        /\ entities' = entities \ (d.touched \ EI!Mentioned)
        /\ cut' = IF d.at = "entity" THEN cut \ {<<d.key, "entities">>} ELSE cut
        /\ UNCHANGED <<rows, promoted>>
    BY <1>4, <2>1 DEF EI!Prune, EI!At
  <2>3. RightWith(p)
    BY <2>1, <2>2, RightToWith
  <2>4. JobRight(d)
    BY <2>1, <2>2, <2>3 DEF RightWith
  <2>5. e \notin mentioned[k]
    BY <2>2, MentionedIs
  <2>6. CASE d.key = k
    <3>1. d.at = "prune" => <<k, "entities">> \in cut
      BY <2>4, <2>6 DEF JobRight
    <3>2. d.at = "entity" => mentioned[k] = EI!NamesOf(rows[k]) \ d.todo
      BY <2>4, <2>6 DEF JobRight
    <3>. QED  BY <2>2, <2>5, <3>1, <3>2
  <2>7. CASE d.key # k
    <3>1. KeyMatches(k)
      BY <2>1, <2>3, <2>7 DEF RightWith
    <3>2. <<k, "entities">> \notin cut
      BY <2>2, <2>7
    <3>. QED  BY <2>2, <2>5, <3>1, <3>2 DEF KeyMatches
  <2>. QED  BY <2>6, <2>7
<1>5. ASSUME NEW p \in Procs, NEW m \in Keys, EI!Forget(p, m)  PROVE FALSE
  <2>1. /\ rows' = [rows EXCEPT ![m] = Absent]
        /\ entities' = entities \ {x \in mentioned[m] : \A o \in Keys \ {m} : x \notin mentioned[o]}
        /\ cut' = cut \ ({m} \X {"claims", "entities"}) /\ promoted' = promoted \ {m}
    BY <1>5 DEF EI!Forget
  <2>2. RightWith(p) /\ job[p].at = "idle"
    BY <1>5, RightToWith DEF EI!Forget, EI!MayStart, EI!At
  <2>3. k # m /\ rows'[k] = rows[k]
    BY <2>1 DEF EntityTypes
  <2>4. e \notin mentioned[k]
    BY <2>1, <2>3
  <2>5. KeyMatches(k) /\ <<k, "entities">> \notin cut /\ k \notin promoted
    BY <2>1, <2>2, <2>3 DEF RightWith
  <2>. QED  BY <2>3, <2>4, <2>5 DEF KeyMatches
<1>6. ASSUME NEW p \in Procs,
             \/ \E m \in Keys, r \in Rows : EI!Save(p, m, r) \/ EI!Restore(p, m, r)
             \/ \E m \in Keys : EI!Promote(p, m)
             \/ EI!DeleteClaims(p) \/ EI!SaveClaim(p) \/ EI!Deactivate(p) \/ EI!Touch(p) \/ EI!Unlink(p)
             \/ EI!SaveEntity(p) \/ EI!SaveMention(p) \/ EI!ClaimsFail(p) \/ EI!EntitiesFail(p) \/ EI!Crash(p)
      PROVE  FALSE
  <2>1. entities \subseteq entities'
    BY <1>6 DEF EI!Save, EI!Restore, EI!Store, EI!Promote, EI!DeleteClaims, EI!SaveClaim, EI!Deactivate,
       EI!Touch, EI!Unlink, EI!SaveEntity, EI!SaveMention, EI!ClaimsFail, EI!EntitiesFail, EI!Crash
  <2>. QED  BY <2>1
<1>. QED  BY <1>2, <1>3, <1>4, <1>5, <1>6 DEF EI!Next

-----------------------------------------------------------------------------
(* The graph *)

Kinds == {"related", "supports", "cross"}

GraphTyped(g) ==
    /\ g = [nodes |-> g.nodes, dated |-> g.dated, edges |-> g.edges, links |-> g.links, back |-> g.back, norm |-> g.norm]
    /\ g.nodes \subseteq KG!Nodes /\ g.dated \subseteq Memories /\ g.dated \subseteq g.nodes
    /\ g.edges \subseteq KG!Nodes \X KG!Nodes \X Kinds
    /\ g.links \in [Memories -> SUBSET Names]
    /\ g.back \in [KG!Nodes -> SUBSET Memories]
    /\ g.norm \in [KG!Nodes -> SUBSET Memories]

\* Links and their inverse say the same.
LinksAgree(g) == \A k \in Memories, n \in KG!Nodes : n \in g.links[k] <=> k \in g.back[n]

\* Edges join what is there, and stand for the links.
Joined(g) ==
    /\ \A e \in g.edges : e[1] \in g.dated /\ e[2] \in g.nodes /\ (e[3] = "cross" => e[2] \in g.dated)
    /\ \A k \in Memories : \A n \in g.links[k] : <<k, n, "related">> \in g.edges \/ <<k, n, "supports">> \in g.edges

\* What is no memory is named by one.
NoOrphans(g) == \A n \in g.nodes : n \notin g.dated => g.back[n] # {}

GraphRight(g) == GraphTyped(g) /\ LinksAgree(g) /\ g.norm = KG!Normalized(g.back) /\ Joined(g) /\ NoOrphans(g)

\* A text there is, and the names it has.
LEMMA NamesOfTexts == ASSUME NEW t \in Sayings PROVE KG!Named(t) \subseteq Names /\ KG!Named(t) = t.caps \cup t.facts
BY DerivedConstants DEF KG!ConstantsFit, KG!Named

LEMMA FoldsToNodes == ASSUME NEW n \in KG!Nodes PROVE Fold[n] \in KG!Nodes
BY DerivedConstants DEF KG!ConstantsFit

LEMMA NormalizedTyped ==
    ASSUME NEW b \in [KG!Nodes -> SUBSET Memories]
    PROVE  /\ KG!Normalized(b) \in [KG!Nodes -> SUBSET Memories]
           /\ \A n \in KG!Nodes : KG!Normalized(b)[n] = UNION {b[e] : e \in {x \in KG!Nodes : Fold[x] = n}}
<1>1. \A n \in KG!Nodes : UNION {b[e] : e \in {x \in KG!Nodes : Fold[x] = n}} \subseteq Memories
  OBVIOUS
<1>. QED  BY <1>1 DEF KG!Normalized

LEMMA NormalizedIs ==
    ASSUME NEW b \in [KG!Nodes -> SUBSET Memories], NEW n \in KG!Nodes, NEW m
    PROVE  m \in KG!Normalized(b)[n] <=> \E e \in KG!Nodes : Fold[e] = n /\ m \in b[e]
<1>. DEFINE F == {x \in KG!Nodes : Fold[x] = n}
<1>1. KG!Normalized(b)[n] = UNION {b[e] : e \in F}
  BY NormalizedTyped
<1>2. m \in UNION {b[e] : e \in F} <=> \E e \in F : m \in b[e]
  OBVIOUS
<1>. QED  BY <1>1, <1>2

\* Who is linked is a memory the graph was shown.
LEMMA LinkedAreDated ==
    ASSUME NEW g, GraphRight(g)
    PROVE  /\ \A k \in Memories : g.links[k] # {} => k \in g.dated
           /\ \A n \in KG!Nodes : g.back[n] \subseteq g.dated
           /\ \A k \in Memories : g.links[k] \subseteq g.nodes
<1>1. ASSUME NEW k \in Memories, NEW n \in g.links[k]  PROVE k \in g.dated /\ n \in g.nodes
  <2>1. <<k, n, "related">> \in g.edges \/ <<k, n, "supports">> \in g.edges
    BY DEF GraphRight, Joined
  <2>. QED  BY <2>1 DEF GraphRight, Joined
<1>2. ASSUME NEW n \in KG!Nodes, NEW k \in g.back[n]  PROVE k \in g.dated
  <2>1. k \in Memories
    BY DEF GraphRight, GraphTyped
  <2>2. n \in g.links[k]
    BY <2>1 DEF GraphRight, LinksAgree
  <2>. QED  BY <1>1, <2>1, <2>2
<1>. QED  BY <1>1, <1>2

\* The links to other memories lead to memories that were indexed.
LEMMA RelatedAreIndexed ==
    ASSUME NEW g, NEW k, NEW t \in Sayings, NEW o \in KG!Related(g, k, t)
    PROVE  \E n \in KG!Nodes : o \in g.back[n]
<1>1. PICK n \in KG!Named(t) : o \in KG!Smallest(g.back[n], PerEntity)
  BY DEF KG!Related, KG!Smallest
<1>. QED  BY <1>1, NamesOfTexts DEF KG!Smallest, KG!Nodes

-----------------------------------------------------------------------------
(* Showing texts *)

\* The keys of some texts, and what names them.
Texting == UNION {[S -> Sayings] : S \in SUBSET Memories}

Naming(texts, n) == {k \in DOMAIN texts : n \in KG!Named(texts[k])}

NamingAlike(texts, n) == UNION {Naming(texts, e) : e \in {x \in KG!Nodes : Fold[x] = n}}

NamedIn(texts) == UNION {KG!Named(texts[k]) : k \in DOMAIN texts}

EndsOf(relations) == UNION {{e[1], e[2]} : e \in relations}

LEMMA NamedInIs == ASSUME NEW texts, NEW n PROVE n \in NamedIn(texts) <=> \E k \in DOMAIN texts : n \in KG!Named(texts[k])
BY DEF NamedIn

LEMMA EndsOfAre ==
    ASSUME NEW relations
    PROVE  /\ \A e \in relations : e[1] \in EndsOf(relations) /\ e[2] \in EndsOf(relations)
           /\ \A n \in EndsOf(relations) : \E e \in relations : n = e[1] \/ n = e[2]
<1>1. ASSUME NEW e \in relations  PROVE e[1] \in EndsOf(relations) /\ e[2] \in EndsOf(relations)
  <2>1. {e[1], e[2]} \in {{x[1], x[2]} : x \in relations}
    OBVIOUS
  <2>. QED  BY <2>1 DEF EndsOf
<1>2. ASSUME NEW n \in EndsOf(relations)  PROVE \E e \in relations : n = e[1] \/ n = e[2]
  BY DEF EndsOf
<1>. QED  BY <1>1, <1>2

LEMMA AlikeIs ==
    ASSUME NEW texts, NEW n, NEW k PROVE k \in NamingAlike(texts, n) <=> \E e \in KG!Nodes : Fold[e] = n /\ k \in Naming(texts, e)
<1>. DEFINE F == {x \in KG!Nodes : Fold[x] = n}
<1>1. k \in UNION {Naming(texts, e) : e \in F} <=> \E e \in F : k \in Naming(texts, e)
  OBVIOUS
<1>. QED  BY <1>1 DEF NamingAlike

\* A relation of a text: with what it names, or with one of some memories.
IsRelation(e, k, t, others) ==
    \/ \E n \in KG!Named(t) : e \in {<<k, n, "related">>, <<k, n, "supports">>}
    \/ \E o \in others : e = <<k, o, "cross">>

\* The relations of texts, as many as the links need.
RelationsFit(g, texts, relations) ==
    /\ \A k \in DOMAIN texts : /\ \A n \in texts[k].caps : <<k, n, "related">> \in relations
                               /\ \A n \in texts[k].facts : <<k, n, "supports">> \in relations
    /\ \A e \in relations : \E k \in DOMAIN texts : IsRelation(e, k, texts[k], g.dated \cup DOMAIN texts)

\* What the graph is after some texts were shown.
IsShown(h, g, texts, relations) ==
    /\ h = [nodes |-> h.nodes, dated |-> h.dated, edges |-> h.edges, links |-> h.links, back |-> h.back, norm |-> h.norm]
    /\ h.nodes = g.nodes \cup DOMAIN texts \cup NamedIn(texts) \cup EndsOf(relations)
    /\ h.dated = g.dated \cup DOMAIN texts
    /\ h.edges = g.edges \cup relations
    /\ h.links = [k \in Memories |-> g.links[k] \cup IF k \in DOMAIN texts THEN KG!Named(texts[k]) ELSE {}]
    /\ h.back = [n \in KG!Nodes |-> g.back[n] \cup Naming(texts, n)]
    /\ h.norm = [n \in KG!Nodes |-> g.norm[n] \cup NamingAlike(texts, n)]

LEMMA ShownGraph ==
    ASSUME NEW g, GraphTyped(g), NEW texts \in Texting, NEW relations
    PROVE  IsShown(KG!Show(g, texts, relations), g, texts, relations)
<1>0. PICK h : h = KG!Show(g, texts, relations)
  OBVIOUS
<1>1. PICK new : new = DOMAIN texts \cup NamedIn(texts)
  OBVIOUS
<1>2. PICK g1 : g1 = [g EXCEPT !.nodes = g.nodes \cup new]
  OBVIOUS
<1>3. g1 = [nodes |-> g.nodes \cup new, dated |-> g.dated, edges |-> g.edges, links |-> g.links, back |-> g.back, norm |-> g.norm]
  BY <1>2 DEF GraphTyped
<1>4. PICK g2 : g2 = [g1 EXCEPT !.dated = g1.dated \cup DOMAIN texts]
  OBVIOUS
<1>5. g2 = [nodes |-> g.nodes \cup new, dated |-> g.dated \cup DOMAIN texts, edges |-> g.edges,
            links |-> g.links, back |-> g.back, norm |-> g.norm]
  BY <1>3, <1>4
<1>6. PICK ends : ends = EndsOf(relations)
  OBVIOUS
<1>7. PICK g3 : g3 = KG!AddRelations(g2, relations)
  OBVIOUS
<1>8. g3 = [[g2 EXCEPT !.nodes = g2.nodes \cup ends] EXCEPT !.edges = [g2 EXCEPT !.nodes = g2.nodes \cup ends].edges \cup relations]
  BY <1>6, <1>7 DEF KG!AddRelations, KG!AddNodes, EndsOf
<1>9. g3 = [nodes |-> g.nodes \cup new \cup ends, dated |-> g.dated \cup DOMAIN texts, edges |-> g.edges \cup relations,
            links |-> g.links, back |-> g.back, norm |-> g.norm]
  BY <1>5, <1>8
<1>10. h = KG!IndexNames(g3, texts)
  BY <1>0, <1>1, <1>2, <1>4, <1>7 DEF KG!Show, KG!AddNodes, NamedIn
<1>11. PICK l : l = [k \in Memories |-> g.links[k] \cup IF k \in DOMAIN texts THEN KG!Named(texts[k]) ELSE {}]
  OBVIOUS
<1>12. PICK b : b = [n \in KG!Nodes |-> g.back[n] \cup Naming(texts, n)]
  OBVIOUS
<1>13. PICK m : m = [n \in KG!Nodes |-> g.norm[n] \cup NamingAlike(texts, n)]
  OBVIOUS
<1>14. h = [g3 EXCEPT !.links = [k \in Memories |-> g3.links[k] \cup IF k \in DOMAIN texts THEN KG!Named(texts[k]) ELSE {}],
                      !.back = [n \in KG!Nodes |-> g3.back[n] \cup Naming(texts, n)],
                      !.norm = [n \in KG!Nodes |-> g3.norm[n] \cup NamingAlike(texts, n)]]
  BY <1>10, Zenon DEF KG!IndexNames, Naming, NamingAlike
<1>15. g3.links = g.links /\ g3.back = g.back /\ g3.norm = g.norm
  BY <1>9
<1>16. h = [g3 EXCEPT !.links = l, !.back = b, !.norm = m]
  BY <1>11, <1>12, <1>13, <1>14, <1>15, Zenon
<1>17. h = [nodes |-> g.nodes \cup new \cup ends, dated |-> g.dated \cup DOMAIN texts, edges |-> g.edges \cup relations,
            links |-> l, back |-> b, norm |-> m]
  BY <1>9, <1>16
<1>18. /\ h = [nodes |-> h.nodes, dated |-> h.dated, edges |-> h.edges, links |-> h.links, back |-> h.back, norm |-> h.norm]
       /\ h.nodes = g.nodes \cup new \cup ends /\ h.dated = g.dated \cup DOMAIN texts /\ h.edges = g.edges \cup relations
       /\ h.links = l /\ h.back = b /\ h.norm = m
  BY <1>17
<1>19. g.nodes \cup new \cup ends = g.nodes \cup DOMAIN texts \cup NamedIn(texts) \cup EndsOf(relations)
  BY <1>1, <1>6
<1>20. IsShown(h, g, texts, relations)
  BY <1>11, <1>12, <1>13, <1>18, <1>19, Zenon DEF IsShown
<1>. QED  BY <1>0, <1>20

\* A graph that is right stays so when texts are shown.
LEMMA ShowKeepsRight ==
    ASSUME NEW g, GraphRight(g), NEW texts \in Texting, NEW relations, RelationsFit(g, texts, relations)
    PROVE  GraphRight(KG!Show(g, texts, relations))
<1>1. PICK h : h = KG!Show(g, texts, relations)
  OBVIOUS
<1>. DEFINE T == DOMAIN texts
<1>2. /\ h = [nodes |-> h.nodes, dated |-> h.dated, edges |-> h.edges, links |-> h.links, back |-> h.back, norm |-> h.norm]
      /\ h.nodes = g.nodes \cup T \cup NamedIn(texts) \cup EndsOf(relations)
      /\ h.dated = g.dated \cup T
      /\ h.edges = g.edges \cup relations
      /\ h.links = [k \in Memories |-> g.links[k] \cup IF k \in T THEN KG!Named(texts[k]) ELSE {}]
      /\ h.back = [n \in KG!Nodes |-> g.back[n] \cup Naming(texts, n)]
      /\ h.norm = [n \in KG!Nodes |-> g.norm[n] \cup NamingAlike(texts, n)]
  <2>1. GraphTyped(g)
    BY DEF GraphRight
  <2>2. IsShown(h, g, texts, relations)
    BY <1>1, <2>1, ShownGraph
  <2>. QED  BY <2>2, Zenon DEF IsShown
<1>3. T \subseteq Memories /\ \A k \in T : texts[k] \in Sayings
  BY DEF Texting
<1>4. \A k \in T : KG!Named(texts[k]) \subseteq Names /\ KG!Named(texts[k]) = texts[k].caps \cup texts[k].facts
  BY <1>3, NamesOfTexts
<1>5. Memories \subseteq KG!Nodes /\ Names \subseteq KG!Nodes
  BY DEF KG!Nodes
<1>6. ASSUME NEW e \in relations
      PROVE  /\ e \in KG!Nodes \X KG!Nodes \X Kinds
             /\ e[1] \in T /\ e[2] \in h.nodes
             /\ e[3] = "cross" => e[2] \in h.dated
             /\ e[2] \in g.dated \/ e[2] \in T \/ e[2] \in NamedIn(texts)
  <2>0. PICK k \in T : IsRelation(e, k, texts[k], g.dated \cup T)
    BY DEF RelationsFit
  <2>1. \/ \E n \in KG!Named(texts[k]) : e \in {<<k, n, "related">>, <<k, n, "supports">>}
        \/ \E o \in g.dated \cup T : e = <<k, o, "cross">>
    BY <2>0 DEF IsRelation
  <2>2. ASSUME NEW n \in KG!Named(texts[k]), e \in {<<k, n, "related">>, <<k, n, "supports">>}
        PROVE  /\ e \in KG!Nodes \X KG!Nodes \X Kinds /\ e[1] = k /\ e[2] = n /\ e[3] # "cross"
    BY <1>3, <1>4, <1>5, <2>2 DEF Kinds
  <2>3. ASSUME NEW o \in g.dated \cup T, e = <<k, o, "cross">>
        PROVE  /\ e \in KG!Nodes \X KG!Nodes \X Kinds /\ e[1] = k /\ e[2] = o
    <3>1. o \in KG!Nodes
      BY <1>3, <1>5 DEF GraphRight, GraphTyped
    <3>. QED  BY <1>3, <1>5, <2>3, <3>1 DEF Kinds
  <2>4. e[2] \in h.nodes
    BY <1>2, EndsOfAre
  <2>5. \A n \in KG!Named(texts[k]) : n \in NamedIn(texts)
    BY NamedInIs
  <2>6. h.dated = g.dated \cup T
    BY <1>2
  <2>. QED  BY <2>1, <2>2, <2>3, <2>4, <2>5, <2>6
<1>7. GraphTyped(h)
  <2>1. h.nodes \subseteq KG!Nodes
    <3>1. EndsOf(relations) \subseteq KG!Nodes
      <4>1. \A e \in relations : e[1] \in KG!Nodes /\ e[2] \in KG!Nodes
        BY <1>6
      <4>. QED  BY <4>1, EndsOfAre
    <3>2. NamedIn(texts) \subseteq KG!Nodes
      BY <1>4, <1>5, NamedInIs
    <3>3. g.nodes \subseteq KG!Nodes
      BY DEF GraphRight, GraphTyped
    <3>4. h.nodes = g.nodes \cup T \cup NamedIn(texts) \cup EndsOf(relations)
      BY <1>2
    <3>5. T \subseteq KG!Nodes
      BY <1>3, <1>5
    <3>. HIDE DEF T
    <3>. QED  BY <3>1, <3>2, <3>3, <3>4, <3>5
  <2>2. h.dated \subseteq Memories /\ h.dated \subseteq h.nodes
    BY <1>2, <1>3 DEF GraphRight, GraphTyped
  <2>3. h.edges \subseteq KG!Nodes \X KG!Nodes \X Kinds
    BY <1>2, <1>6 DEF GraphRight, GraphTyped
  <2>4. h.links \in [Memories -> SUBSET Names]
    BY <1>2, <1>4 DEF GraphRight, GraphTyped
  <2>5. h.back \in [KG!Nodes -> SUBSET Memories]
    BY <1>2, <1>3 DEF GraphRight, GraphTyped, Naming
  <2>6. h.norm \in [KG!Nodes -> SUBSET Memories]
    <3>1. ASSUME NEW n \in KG!Nodes
          PROVE  NamingAlike(texts, n) \subseteq Memories
      BY <1>3, AlikeIs DEF Naming
    <3>. QED  BY <1>2, <3>1 DEF GraphRight, GraphTyped
  <2>. QED  BY <1>2, <2>1, <2>2, <2>3, <2>4, <2>5, <2>6 DEF GraphTyped
<1>8. LinksAgree(h)
  <2>1. SUFFICES ASSUME NEW k \in Memories, NEW n \in KG!Nodes  PROVE n \in h.links[k] <=> k \in h.back[n]
    BY DEF LinksAgree
  <2>2. n \in g.links[k] <=> k \in g.back[n]
    BY DEF GraphRight, LinksAgree
  <2>3. h.links[k] = g.links[k] \cup (IF k \in T THEN KG!Named(texts[k]) ELSE {})
    BY <1>2
  <2>4. h.back[n] = g.back[n] \cup Naming(texts, n)
    BY <1>2
  <2>. QED  BY <2>2, <2>3, <2>4 DEF Naming
<1>9. h.norm = KG!Normalized(h.back)
  <2>1. ASSUME NEW n \in KG!Nodes  PROVE h.norm[n] = KG!Normalized(h.back)[n]
    <3>1. g.back \in [KG!Nodes -> SUBSET Memories] /\ h.back \in [KG!Nodes -> SUBSET Memories] /\ g.norm = KG!Normalized(g.back)
      BY <1>7 DEF GraphRight, GraphTyped
    <3>2. \A m : m \in g.norm[n] <=> \E e \in KG!Nodes : Fold[e] = n /\ m \in g.back[e]
      BY <3>1, NormalizedIs
    <3>3. \A m : m \in KG!Normalized(h.back)[n] <=> \E e \in KG!Nodes : Fold[e] = n /\ m \in h.back[e]
      BY <3>1, NormalizedIs
    <3>4. h.norm[n] = g.norm[n] \cup NamingAlike(texts, n)
      BY <1>2
    <3>5. \A e \in KG!Nodes : h.back[e] = g.back[e] \cup Naming(texts, e)
      BY <1>2
    <3>6. \A m : m \in NamingAlike(texts, n) <=> \E e \in KG!Nodes : Fold[e] = n /\ m \in Naming(texts, e)
      BY AlikeIs
    <3>. QED  BY <3>2, <3>3, <3>4, <3>5, <3>6
  <2>2. h.norm \in [KG!Nodes -> SUBSET Memories] /\ KG!Normalized(h.back) \in [KG!Nodes -> SUBSET Memories]
    BY <1>7, NormalizedTyped DEF GraphTyped
  <2>. QED  BY <2>1, <2>2
<1>10. Joined(h)
  <2>1. ASSUME NEW e \in h.edges  PROVE e[1] \in h.dated /\ e[2] \in h.nodes /\ (e[3] = "cross" => e[2] \in h.dated)
    <3>1. CASE e \in g.edges
      BY <1>2, <3>1 DEF GraphRight, Joined
    <3>2. CASE e \in relations
      BY <1>2, <1>6, <3>2
    <3>. QED  BY <1>2, <3>1, <3>2
  <2>2. ASSUME NEW k \in Memories, NEW n \in h.links[k]
        PROVE  <<k, n, "related">> \in h.edges \/ <<k, n, "supports">> \in h.edges
    <3>1. CASE n \in g.links[k]
      BY <1>2, <3>1 DEF GraphRight, Joined
    <3>2. CASE k \in T /\ n \in KG!Named(texts[k])
      <4>1. n \in texts[k].caps \/ n \in texts[k].facts
        BY <1>4, <3>2
      <4>. QED  BY <1>2, <3>2, <4>1 DEF RelationsFit
    <3>. QED  BY <1>2, <2>2, <3>1, <3>2
  <2>. QED  BY <2>1, <2>2 DEF Joined
<1>11. NoOrphans(h)
  <2>1. SUFFICES ASSUME NEW n \in h.nodes, n \notin h.dated  PROVE h.back[n] # {}
    BY DEF NoOrphans
  <2>2. n \in KG!Nodes
    BY <1>7 DEF GraphTyped
  <2>3. h.back[n] = g.back[n] \cup Naming(texts, n)
    BY <1>2, <2>2
  <2>4. CASE n \in g.nodes
    BY <1>2, <2>1, <2>3, <2>4 DEF GraphRight, NoOrphans
  <2>5. ASSUME NEW k \in T, n \in KG!Named(texts[k])  PROVE h.back[n] # {}
    BY <2>3, <2>5 DEF Naming
  <2>6. n \notin T /\ n \notin g.dated
    BY <1>2, <2>1
  <2>7. n \in g.nodes \/ n \in T \/ n \in NamedIn(texts) \/ n \in EndsOf(relations)
    BY <1>2, <2>1
  <2>8. n \in EndsOf(relations) => n \in NamedIn(texts)
    <3>1. ASSUME NEW e \in relations, n = e[1] \/ n = e[2]  PROVE n \in NamedIn(texts)
      BY <1>6, <2>6, <3>1
    <3>. QED  BY <3>1, EndsOfAre
  <2>9. n \in NamedIn(texts) => \E k \in T : n \in KG!Named(texts[k])
    BY NamedInIs
  <2>. HIDE DEF T
  <2>. QED  BY <2>4, <2>5, <2>6, <2>7, <2>8, <2>9
<1>. QED  BY <1>1, <1>7, <1>8, <1>9, <1>10, <1>11 DEF GraphRight

\* The relations of one text.
LEMMA RelationsOfText ==
    ASSUME NEW g, NEW S, \A n \in KG!Nodes : g.back[n] \subseteq S, NEW k, NEW t \in Sayings,
           NEW r, r = KG!Relations(g, k, t)
    PROVE  /\ \A n \in t.caps : <<k, n, "related">> \in r
           /\ \A n \in t.facts : <<k, n, "supports">> \in r
           /\ \A e \in r : IsRelation(e, k, t, S)
<1>1. \A o \in KG!Related(g, k, t) : o \in S
  BY RelatedAreIndexed
<1>2. ASSUME NEW e \in r  PROVE IsRelation(e, k, t, S)
  <2>1. \/ \E n \in t.caps : e = <<k, n, "related">>
        \/ \E n \in t.facts : e = <<k, n, "supports">>
        \/ \E o \in KG!Related(g, k, t) : e = <<k, o, "cross">>
    BY DEF KG!Relations
  <2>. QED  BY <1>1, <2>1, NamesOfTexts DEF IsRelation
<1>3. /\ \A n \in t.caps : <<k, n, "related">> \in r
      /\ \A n \in t.facts : <<k, n, "supports">> \in r
  BY DEF KG!Relations
<1>. QED  BY <1>2, <1>3

\* What a graph is after it was shown a text.
LEMMA IngestKeepsRight ==
    ASSUME NEW g, GraphRight(g), NEW k \in Memories, NEW t \in Sayings
    PROVE  LET h == KG!Ingest(g, k, t) IN
           /\ GraphRight(h)
           /\ h.dated \subseteq g.dated \cup {k}
           /\ \A m \in Memories : h.links[m] = g.links[m] \cup
                  IF m = k /\ t.kind # "working" THEN KG!Named(t) ELSE {}
<1>1. CASE t.kind = "working"
  BY <1>1 DEF KG!Ingest
<1>2. CASE t.kind # "working"
  <2>1. PICK texts : texts = [m \in {k} |-> t]
    OBVIOUS
  <2>2. PICK relations : relations = KG!Relations(g, k, t)
    OBVIOUS
  <2>3. texts \in Texting /\ DOMAIN texts = {k} /\ texts[k] = t
    BY <2>1 DEF Texting
  <2>4. RelationsFit(g, texts, relations)
    <3>1. \A n \in KG!Nodes : g.back[n] \subseteq g.dated
      BY LinkedAreDated
    <3>2. /\ \A n \in t.caps : <<k, n, "related">> \in relations
          /\ \A n \in t.facts : <<k, n, "supports">> \in relations
          /\ \A e \in relations : IsRelation(e, k, t, g.dated \cup DOMAIN texts)
      <4>1. PICK S : S = g.dated \cup DOMAIN texts
        OBVIOUS
      <4>2. \A n \in KG!Nodes : g.back[n] \subseteq S
        BY <3>1, <4>1
      <4>3. /\ \A n \in t.caps : <<k, n, "related">> \in relations
            /\ \A n \in t.facts : <<k, n, "supports">> \in relations
            /\ \A e \in relations : IsRelation(e, k, t, S)
        BY <2>2, <4>2, RelationsOfText
      <4>. QED  BY <4>1, <4>3
    <3>3. \A e \in relations : \E m \in DOMAIN texts : IsRelation(e, m, texts[m], g.dated \cup DOMAIN texts)
      BY <2>3, <3>2
    <3>4. \A m \in DOMAIN texts : m = k /\ texts[m] = t
      BY <2>3
    <3>. QED  BY <3>2, <3>3, <3>4 DEF RelationsFit
  <2>5. KG!Ingest(g, k, t) = KG!Show(g, texts, relations)
    BY <1>2, <2>1, <2>2 DEF KG!Ingest
  <2>6. PICK h : h = KG!Ingest(g, k, t)
    OBVIOUS
  <2>7. /\ h.dated = g.dated \cup DOMAIN texts
        /\ h.links = [m \in Memories |-> g.links[m] \cup IF m \in DOMAIN texts THEN KG!Named(texts[m]) ELSE {}]
    <3>1. GraphTyped(g) /\ h = KG!Show(g, texts, relations)
      BY <2>5, <2>6 DEF GraphRight
    <3>2. IsShown(h, g, texts, relations)
      BY <2>3, <3>1, ShownGraph
    <3>. QED  BY <3>2, Zenon DEF IsShown
  <2>8. GraphRight(h)
    BY <2>3, <2>4, <2>5, <2>6, ShowKeepsRight
  <2>9. \A m \in Memories : h.links[m] = g.links[m] \cup IF m = k /\ t.kind # "working" THEN KG!Named(t) ELSE {}
    BY <1>2, <2>3, <2>7
  <2>. QED  BY <2>3, <2>6, <2>7, <2>8, <2>9
<1>. QED  BY <1>1, <1>2

-----------------------------------------------------------------------------
(* Taking nodes out *)

\* A graph that may list a memory that is going stays right when the memory and what
\* only it named are taken out.
LEMMA RemoveKeepsRight ==
    ASSUME NEW g, GraphTyped(g), LinksAgree(g), NEW dropped \in SUBSET KG!Nodes,
           \A e \in g.edges : e[1] \in g.dated /\ e[2] \in g.nodes /\ (e[3] = "cross" => e[2] \in g.dated),
           \A k \in Memories : \A n \in g.links[k] :
              k \notin dropped /\ (<<k, n, "related">> \in g.edges \/ <<k, n, "supports">> \in g.edges),
           \A n \in g.nodes \ dropped : n \notin g.dated => g.back[n] # {}
    PROVE  LET h == KG!RemoveNodes(g, dropped) IN
           /\ GraphRight(h)
           /\ h.dated = g.dated \ dropped
           /\ \A m \in Memories : h.links[m] = g.links[m] \ {n \in dropped : m \in g.back[n]}
<1>1. PICK h : h = KG!RemoveNodes(g, dropped)
  OBVIOUS
<1>2. PICK newBack : newBack = [n \in KG!Nodes |-> IF n \in dropped THEN {} ELSE g.back[n]]
  OBVIOUS
<1>3. h = [nodes |-> g.nodes \ dropped, dated |-> g.dated \ dropped,
           edges |-> {e \in g.edges : e[1] \notin dropped /\ e[2] \notin dropped},
           links |-> [m \in Memories |-> g.links[m] \ {n \in dropped : m \in g.back[n]}],
           back |-> newBack, norm |-> KG!Normalized(newBack)]
  BY <1>1, <1>2 DEF KG!RemoveNodes
<1>4. newBack \in [KG!Nodes -> SUBSET Memories]
  BY <1>2 DEF GraphTyped
<1>5. /\ h = [nodes |-> h.nodes, dated |-> h.dated, edges |-> h.edges, links |-> h.links, back |-> h.back, norm |-> h.norm]
      /\ h.nodes = g.nodes \ dropped /\ h.dated = g.dated \ dropped
      /\ h.edges = {e \in g.edges : e[1] \notin dropped /\ e[2] \notin dropped}
      /\ h.links = [m \in Memories |-> g.links[m] \ {n \in dropped : m \in g.back[n]}]
      /\ h.back = newBack /\ h.norm = KG!Normalized(h.back)
  BY <1>3
<1>6. GraphTyped(h)
  <2>1. h.links \in [Memories -> SUBSET Names]
    BY <1>5 DEF GraphTyped
  <2>2. h.norm \in [KG!Nodes -> SUBSET Memories]
    BY <1>4, <1>5, NormalizedTyped
  <2>. QED  BY <1>4, <1>5, <2>1, <2>2 DEF GraphTyped
<1>7. LinksAgree(h)
  <2>1. SUFFICES ASSUME NEW k \in Memories, NEW n \in KG!Nodes  PROVE n \in h.links[k] <=> k \in newBack[n]
    BY <1>5 DEF LinksAgree
  <2>2. n \in g.links[k] <=> k \in g.back[n]
    BY DEF LinksAgree
  <2>3. h.links[k] = g.links[k] \ {x \in dropped : k \in g.back[x]}
    BY <1>5
  <2>. QED  BY <1>2, <2>2, <2>3
<1>8. Joined(h)
  <2>1. ASSUME NEW e \in h.edges  PROVE e[1] \in h.dated /\ e[2] \in h.nodes /\ (e[3] = "cross" => e[2] \in h.dated)
    BY <1>5
  <2>2. ASSUME NEW k \in Memories, NEW n \in h.links[k]
        PROVE  <<k, n, "related">> \in h.edges \/ <<k, n, "supports">> \in h.edges
    <3>1. n \in g.links[k] /\ ~(n \in dropped /\ k \in g.back[n])
      BY <1>5
    <3>2. n \in KG!Nodes
      BY <3>1 DEF GraphTyped, KG!Nodes
    <3>3. n \notin dropped /\ k \notin dropped
      BY <3>1, <3>2 DEF LinksAgree
    <3>4. <<k, n, "related">> \in g.edges \/ <<k, n, "supports">> \in g.edges
      BY <3>1
    <3>. QED  BY <1>5, <3>3, <3>4
  <2>. QED  BY <2>1, <2>2 DEF Joined
<1>9. NoOrphans(h)
  BY <1>2, <1>5 DEF NoOrphans, GraphTyped
<1>10. \A m \in Memories : h.links[m] = g.links[m] \ {n \in dropped : m \in g.back[n]}
  BY <1>5
<1>. QED  BY <1>1, <1>5, <1>6, <1>7, <1>8, <1>9, <1>10 DEF GraphRight

\* What a graph is after it forgot a memory: nothing of it is left, and other memories
\* keep their links but to it.
LEMMA ForgetKeepsRight ==
    ASSUME NEW g, GraphRight(g), NEW k \in Memories
    PROVE  LET h == KG!ForgetMemory(g, k) IN
           /\ GraphRight(h)
           /\ h.dated = g.dated \ {k} /\ h.links[k] = {}
           /\ \A m \in Memories \ {k} : h.links[m] \subseteq g.links[m] /\ g.links[m] \ {k} \subseteq h.links[m]
<1>1. PICK u : u = [g EXCEPT !.links[k] = {},
                             !.back = [n \in KG!Nodes |-> IF n \in g.links[k] THEN g.back[n] \ {k} ELSE g.back[n]]]
  OBVIOUS
<1>2. g = [nodes |-> g.nodes, dated |-> g.dated, edges |-> g.edges, links |-> g.links, back |-> g.back, norm |-> g.norm]
  BY DEF GraphRight, GraphTyped
<1>3. /\ u = [nodes |-> u.nodes, dated |-> u.dated, edges |-> u.edges, links |-> u.links, back |-> u.back, norm |-> u.norm]
      /\ u.nodes = g.nodes /\ u.dated = g.dated /\ u.edges = g.edges /\ u.norm = g.norm
      /\ u.links = [g.links EXCEPT ![k] = {}]
      /\ u.back = [n \in KG!Nodes |-> IF n \in g.links[k] THEN g.back[n] \ {k} ELSE g.back[n]]
  BY <1>1, <1>2
<1>4. u.links[k] = {} /\ \A m \in Memories \ {k} : u.links[m] = g.links[m]
  BY <1>3 DEF GraphRight, GraphTyped
<1>5. \A n \in KG!Nodes : u.back[n] = g.back[n] \ {k}
  BY <1>3 DEF GraphRight, LinksAgree
<1>6. GraphTyped(u)
  <2>1. u.links \in [Memories -> SUBSET Names]
    BY <1>3 DEF GraphRight, GraphTyped
  <2>2. u.back \in [KG!Nodes -> SUBSET Memories]
    BY <1>3 DEF GraphRight, GraphTyped
  <2>. QED  BY <1>3, <2>1, <2>2 DEF GraphRight, GraphTyped
<1>7. LinksAgree(u)
  BY <1>4, <1>5 DEF GraphRight, LinksAgree
<1>. DEFINE orphaned == {n \in g.links[k] : u.back[n] = {}}
            doomed == ({k} \cup (orphaned \ g.dated)) \cap g.nodes
<1>8. KG!ForgetMemory(g, k) = IF doomed # {} THEN KG!RemoveNodes(u, doomed)
                              ELSE IF g.links[k] # {} THEN [u EXCEPT !.norm = KG!Normalized(u.back)]
                              ELSE u
  BY <1>1 DEF KG!ForgetMemory
<1>9. CASE k \in g.nodes
  <2>1. k \in doomed /\ doomed \in SUBSET KG!Nodes
    BY <1>9 DEF GraphRight, GraphTyped
  <2>2. \A m \in Memories : g.links[m] # {} => m \in g.dated
    BY LinkedAreDated
  <2>3. ASSUME NEW m \in Memories, NEW n \in u.links[m]
        PROVE  m \notin doomed /\ (<<m, n, "related">> \in u.edges \/ <<m, n, "supports">> \in u.edges)
    <3>1. m # k /\ n \in g.links[m]
      BY <1>4
    <3>. QED  BY <1>3, <2>2, <3>1 DEF GraphRight, Joined
  <2>4. ASSUME NEW n \in u.nodes \ doomed, n \notin u.dated  PROVE u.back[n] # {}
    <3>1. n \in KG!Nodes /\ g.back[n] # {} /\ n \in g.nodes
      BY <1>3, <2>4 DEF GraphRight, GraphTyped, NoOrphans
    <3>2. ASSUME u.back[n] = {}  PROVE FALSE
      <4>1. g.back[n] = {k}
        BY <1>5, <3>1, <3>2
      <4>2. n \in g.links[k]
        BY <3>1, <4>1 DEF GraphRight, LinksAgree
      <4>. QED  BY <1>3, <2>4, <3>1, <3>2, <4>2
    <3>. QED  BY <3>2
  <2>5. \A e \in u.edges : e[1] \in u.dated /\ e[2] \in u.nodes /\ (e[3] = "cross" => e[2] \in u.dated)
    BY <1>3 DEF GraphRight, Joined
  <2>6. doomed \cap g.dated \subseteq {k}
    OBVIOUS
  <2>7. ASSUME NEW n \in doomed, n # k  PROVE u.back[n] = {}
    BY <2>7
  <2>8. PICK dropped : dropped = doomed
    OBVIOUS
  <2>. HIDE DEF doomed, orphaned
  <2>9. PICK h : h = KG!RemoveNodes(u, dropped)
    OBVIOUS
  <2>10. /\ GraphRight(h)
         /\ h.dated = u.dated \ dropped
         /\ \A m \in Memories : h.links[m] = u.links[m] \ {n \in dropped : m \in u.back[n]}
    BY <1>6, <1>7, <2>1, <2>3, <2>4, <2>5, <2>8, <2>9, RemoveKeepsRight
  <2>11. h.dated = g.dated \ {k}
    BY <1>3, <2>1, <2>6, <2>8, <2>10
  <2>12. ASSUME NEW m \in Memories \ {k}
         PROVE  h.links[m] \subseteq g.links[m] /\ g.links[m] \ {k} \subseteq h.links[m]
    BY <1>4, <2>7, <2>8, <2>10
  <2>13. h.links[k] = {}
    BY <1>4, <2>10
  <2>14. h = KG!ForgetMemory(g, k)
    BY <1>8, <2>1, <2>8, <2>9
  <2>. QED  BY <2>10, <2>11, <2>12, <2>13, <2>14
<1>10. CASE k \notin g.nodes
  <2>1. k \notin g.dated /\ g.links[k] = {}
    BY <1>10, LinkedAreDated DEF GraphRight, GraphTyped
  <2>2. u.links = g.links
    BY <1>3, <2>1 DEF GraphRight, GraphTyped
  <2>3. u.back = g.back
    BY <1>3, <2>1 DEF GraphRight, GraphTyped
  <2>4. u = g
    BY <1>2, <1>3, <2>2, <2>3
  <2>5. doomed = {}
    BY <1>10, <2>1
  <2>6. KG!ForgetMemory(g, k) = g
    BY <1>8, <2>1, <2>4, <2>5
  <2>. QED  BY <2>1, <2>6
<1>. QED  BY <1>9, <1>10

-----------------------------------------------------------------------------
(* The graph of a plane *)

\* What the graph says of a memory whose text it was shown.
CoversText(k) ==
    LET named == IF stored[k].kind = "working" THEN {} ELSE KG!Named(stored[k]) \ Memories
    IN  /\ named \subseteq links[k]
        /\ k \notin stale => links[k] \ Memories = named

GraphInv ==
    /\ stored \in [Memories -> Sayings \cup {None}]
    /\ GraphRight(KG!Graph)
    /\ shown \subseteq {k \in Memories : stored[k] # None} /\ stale \subseteq Memories
    /\ dated \subseteq shown \cup stale
    /\ \A k \in shown : CoversText(k)

\* The variables after a step are the graph it makes.
LEMMA BecomesGraph ==
    ASSUME NEW h, GraphTyped(h), KG!Becomes(h)
    PROVE  KG!Graph' = h /\ nodes' = h.nodes /\ dated' = h.dated /\ edges' = h.edges
           /\ links' = h.links /\ back' = h.back /\ norm' = h.norm
BY DEF KG!Becomes, KG!Graph, GraphTyped

LEMMA EmptyGraph == GraphRight(KG!Empty) /\ KG!Empty.dated = {} /\ \A k \in Memories : KG!Empty.links[k] = {}
<1>1. KG!Empty = [nodes |-> {}, dated |-> {}, edges |-> {}, links |-> [k \in Memories |-> {}],
                  back |-> [n \in KG!Nodes |-> {}], norm |-> [n \in KG!Nodes |-> {}]]
  BY DEF KG!Empty
<1>2. KG!Normalized([n \in KG!Nodes |-> {}]) = [n \in KG!Nodes |-> {}]
  <2>1. \A n \in KG!Nodes : UNION {[x \in KG!Nodes |-> {}][e] : e \in {x \in KG!Nodes : Fold[x] = n}} = {}
    OBVIOUS
  <2>. QED  BY <2>1 DEF KG!Normalized
<1>. QED  BY <1>1, <1>2 DEF GraphRight, GraphTyped, LinksAgree, Joined, NoOrphans

LEMMA GraphStarts == ASSUME KG!Init PROVE GraphInv
<1>1. KG!Graph = KG!Empty
  BY DEF KG!Init, KG!Graph, KG!Empty
<1>2. stored \in [Memories -> Sayings \cup {None}] /\ shown = {} /\ stale = {} /\ dated = {}
  BY EmptyGraph DEF KG!Init
<1>. QED  BY <1>1, <1>2, EmptyGraph DEF GraphInv

LEMMA GraphStands == ASSUME GraphInv, UNCHANGED gvars PROVE GraphInv'
<1>1. KG!Graph' = KG!Graph /\ UNCHANGED <<stored, dated, links, shown, stale>>
  BY DEF gvars, KG!Graph
<1>. QED  BY <1>1 DEF GraphInv, CoversText

LEMMA GraphFields ==
    /\ KG!Graph.nodes = nodes /\ KG!Graph.dated = dated /\ KG!Graph.edges = edges
    /\ KG!Graph.links = links /\ KG!Graph.back = back /\ KG!Graph.norm = norm
BY DEF KG!Graph

\* A commit: the text is shown on top of what there was.
LEMMA CommitKeeps ==
    ASSUME GraphInv, NEW k \in Memories, NEW t \in Sayings, KG!Commit(k, t)
    PROVE  GraphInv'
<1>1. PICK h : h = KG!Ingest(KG!Graph, k, t)
  OBVIOUS
<1>2. /\ GraphRight(h)
      /\ h.dated \subseteq dated \cup {k}
      /\ \A m \in Memories : h.links[m] = links[m] \cup IF m = k /\ t.kind # "working" THEN KG!Named(t) ELSE {}
  BY <1>1, IngestKeepsRight, GraphFields DEF GraphInv
<1>3. KG!Graph' = h /\ dated' = h.dated /\ links' = h.links
  BY <1>1, <1>2, BecomesGraph DEF KG!Commit, GraphRight
<1>4. /\ stored' = [stored EXCEPT ![k] = t] /\ shown' = shown \cup {k}
      /\ stale' = IF stored[k] = None THEN stale ELSE stale \cup {k}
  BY DEF KG!Commit
<1>5. t # None
  BY DerivedConstants DEF KG!ConstantsFit
<1>6. stored'[k] = t /\ \A m \in Memories \ {k} : stored'[m] = stored[m]
  BY <1>4 DEF GraphInv
<1>7. stored' \in [Memories -> Sayings \cup {None}]
  BY <1>4 DEF GraphInv
<1>8. shown' \subseteq {m \in Memories : stored'[m] # None} /\ stale' \subseteq Memories
  BY <1>4, <1>5, <1>6 DEF GraphInv
<1>9. dated' \subseteq shown' \cup stale'
  BY <1>2, <1>3, <1>4, GraphFields DEF GraphInv
<1>10. ASSUME NEW m \in shown'  PROVE CoversText(m)'
  <2>1. m \in Memories
    BY <1>8
  <2>2. CASE m = k
    <3>1. links'[k] = links[k] \cup IF t.kind # "working" THEN KG!Named(t) ELSE {}
      BY <1>2, <1>3, <2>2
    <3>2. k \notin stale' => links[k] = {}
      <4>1. SUFFICES ASSUME stored[k] = None, k \notin stale  PROVE links[k] = {}
        BY <1>4
      <4>2. k \notin dated
        BY <4>1 DEF GraphInv
      <4>. QED  BY <4>2, LinkedAreDated, GraphFields DEF GraphInv
    <3>3. CASE t.kind = "working"
      BY <1>6, <2>2, <3>1, <3>2, <3>3 DEF CoversText
    <3>4. CASE t.kind # "working"
      BY <1>6, <2>2, <3>1, <3>2, <3>4 DEF CoversText
    <3>. QED  BY <3>3, <3>4
  <2>3. CASE m # k
    <3>1. links'[m] = links[m] /\ stored'[m] = stored[m] /\ m \in shown /\ (m \notin stale' => m \notin stale)
      BY <1>2, <1>3, <1>4, <1>6, <2>1, <2>3
    <3>. QED  BY <3>1 DEF GraphInv, CoversText
  <2>. QED  BY <2>2, <2>3
<1>. QED  BY <1>2, <1>3, <1>7, <1>8, <1>9, <1>10 DEF GraphInv

\* A revision: what there was is forgotten first.
LEMMA ReviseKeeps ==
    ASSUME GraphInv, NEW k \in Memories, NEW t \in Sayings, KG!Revise(k, t)
    PROVE  GraphInv'
<1>1. PICK f : f = KG!ForgetMemory(KG!Graph, k)
  OBVIOUS
<1>2. /\ GraphRight(f)
      /\ f.dated = dated \ {k} /\ f.links[k] = {}
      /\ \A m \in Memories \ {k} : f.links[m] \subseteq links[m] /\ links[m] \ {k} \subseteq f.links[m]
  BY <1>1, ForgetKeepsRight, GraphFields DEF GraphInv
<1>3. PICK h : h = KG!Ingest(f, k, t)
  OBVIOUS
<1>4. /\ GraphRight(h)
      /\ h.dated \subseteq f.dated \cup {k}
      /\ \A m \in Memories : h.links[m] = f.links[m] \cup IF m = k /\ t.kind # "working" THEN KG!Named(t) ELSE {}
  BY <1>2, <1>3, IngestKeepsRight
<1>5. KG!Graph' = h /\ dated' = h.dated /\ links' = h.links
  BY <1>1, <1>3, <1>4, BecomesGraph DEF KG!Revise, GraphRight
<1>6. stored' = [stored EXCEPT ![k] = t] /\ shown' = shown \cup {k} /\ stale' = stale \ {k}
  BY DEF KG!Revise
<1>7. t # None
  BY DerivedConstants DEF KG!ConstantsFit
<1>8. stored'[k] = t /\ \A m \in Memories \ {k} : stored'[m] = stored[m]
  BY <1>6 DEF GraphInv
<1>9. stored' \in [Memories -> Sayings \cup {None}]
  BY <1>6 DEF GraphInv
<1>10. shown' \subseteq {m \in Memories : stored'[m] # None} /\ stale' \subseteq Memories
  BY <1>6, <1>7, <1>8 DEF GraphInv
<1>11. dated' \subseteq shown' \cup stale'
  BY <1>2, <1>4, <1>5, <1>6 DEF GraphInv
<1>12. ASSUME NEW m \in shown'  PROVE CoversText(m)'
  <2>1. m \in Memories
    BY <1>10
  <2>2. CASE m = k
    <3>1. links'[k] = IF t.kind # "working" THEN KG!Named(t) ELSE {}
      <4>1. h.links[k] = f.links[k] \cup IF k = k /\ t.kind # "working" THEN KG!Named(t) ELSE {}
        BY <1>4
      <4>2. f.links[k] = {} /\ links' = h.links
        BY <1>2, <1>5
      <4>. QED  BY <4>1, <4>2
    <3>. QED  BY <1>8, <2>2, <3>1 DEF CoversText
  <2>3. CASE m # k
    <3>1. links'[m] \subseteq links[m] /\ links[m] \ {k} \subseteq links'[m]
      BY <1>2, <1>4, <1>5, <2>1, <2>3
    <3>2. stored'[m] = stored[m] /\ m \in shown /\ (m \notin stale' => m \notin stale)
      BY <1>6, <1>8, <2>1, <2>3
    <3>. QED  BY <3>1, <3>2 DEF GraphInv, CoversText
  <2>. QED  BY <2>2, <2>3
<1>. QED  BY <1>4, <1>5, <1>9, <1>10, <1>11, <1>12 DEF GraphInv

\* A memory that is forgotten.
LEMMA ForgettingKeeps == ASSUME GraphInv, NEW k \in Memories, KG!Forget(k) PROVE GraphInv'
<1>1. PICK h : h = KG!ForgetMemory(KG!Graph, k)
  OBVIOUS
<1>2. /\ GraphRight(h)
      /\ h.dated = dated \ {k}
      /\ \A m \in Memories \ {k} : h.links[m] \subseteq links[m] /\ links[m] \ {k} \subseteq h.links[m]
  BY <1>1, ForgetKeepsRight, GraphFields DEF GraphInv
<1>3. KG!Graph' = h /\ dated' = h.dated /\ links' = h.links
  BY <1>1, <1>2, BecomesGraph DEF KG!Forget, GraphRight
<1>4. stored' = [stored EXCEPT ![k] = None] /\ shown' = shown \ {k} /\ stale' = stale \ {k}
  BY DEF KG!Forget
<1>5. stored' \in [Memories -> Sayings \cup {None}] /\ \A m \in Memories \ {k} : stored'[m] = stored[m]
  BY <1>4 DEF GraphInv
<1>6. shown' \subseteq {m \in Memories : stored'[m] # None} /\ stale' \subseteq Memories
  BY <1>4, <1>5 DEF GraphInv
<1>7. dated' \subseteq shown' \cup stale'
  BY <1>2, <1>3, <1>4 DEF GraphInv
<1>8. ASSUME NEW m \in shown'  PROVE CoversText(m)'
  <2>1. m \in Memories /\ m # k /\ m \in shown /\ (m \notin stale' => m \notin stale)
    BY <1>4, <1>6
  <2>2. links'[m] \subseteq links[m] /\ links[m] \ {k} \subseteq links'[m] /\ stored'[m] = stored[m]
    BY <1>2, <1>3, <1>5, <2>1
  <2>. QED  BY <2>1, <2>2 DEF GraphInv, CoversText
<1>. QED  BY <1>2, <1>3, <1>5, <1>6, <1>7, <1>8 DEF GraphInv

\* Nodes without an edge are listed by nobody.
LEMMA MaintainKeeps == ASSUME GraphInv, KG!Maintain PROVE GraphInv'
<1>1. PICK lonely : lonely = {n \in nodes : \A e \in edges : n # e[1] /\ n # e[2]}
  OBVIOUS
<1>2. GraphRight(KG!Graph)
  BY DEF GraphInv
<1>3. lonely \in SUBSET KG!Nodes
  BY <1>1, <1>2, GraphFields DEF GraphRight, GraphTyped
<1>4. ASSUME NEW k \in Memories, NEW n \in links[k]
      PROVE  k \notin lonely /\ n \notin lonely /\ (<<k, n, "related">> \in edges \/ <<k, n, "supports">> \in edges)
  <2>1. <<k, n, "related">> \in edges \/ <<k, n, "supports">> \in edges
    BY <1>2, GraphFields DEF GraphRight, Joined
  <2>2. PICK e \in edges : e[1] = k /\ e[2] = n
    BY <2>1
  <2>. QED  BY <1>1, <2>1, <2>2
<1>5. PICK h : h = KG!RemoveNodes(KG!Graph, lonely)
  OBVIOUS
<1>6. /\ GraphRight(h)
      /\ h.dated = dated \ lonely
      /\ \A m \in Memories : h.links[m] = links[m] \ {n \in lonely : m \in back[n]}
  <2>1. GraphTyped(KG!Graph) /\ LinksAgree(KG!Graph)
    BY <1>2 DEF GraphRight
  <2>2. \A e \in edges : e[1] \in dated /\ e[2] \in nodes /\ (e[3] = "cross" => e[2] \in dated)
    BY <1>2, GraphFields DEF GraphRight, Joined
  <2>3. \A n \in nodes \ lonely : n \notin dated => back[n] # {}
    BY <1>2, GraphFields DEF GraphRight, NoOrphans
  <2>. QED  BY <1>3, <1>4, <1>5, <2>1, <2>2, <2>3, GraphFields, RemoveKeepsRight
<1>7. KG!Graph' = h /\ dated' = h.dated /\ links' = h.links /\ UNCHANGED <<stored, shown, stale>>
  BY <1>1, <1>5, <1>6, BecomesGraph DEF KG!Maintain, GraphRight
<1>8. \A m \in Memories : links'[m] = links[m]
  BY <1>4, <1>6, <1>7
<1>9. \A m \in shown : CoversText(m)'
  BY <1>7, <1>8 DEF GraphInv, CoversText
<1>. QED  BY <1>6, <1>7, <1>9 DEF GraphInv

\* The texts the graph was never shown, one after the other.
LEMMA BacklogKeeps == ASSUME GraphInv, KG!LinkBacklog PROVE GraphInv'
<1>. DEFINE unlinked == {k \in Memories : stored[k] # None /\ stored[k].kind = "semantic" /\ links[k] = {}}
            texts == [k \in unlinked |-> stored[k]]
            before(place, k) == [m \in {m \in unlinked : place[m] < place[k]} |-> stored[m]]
            all(place) == UNION {KG!Relations(KG!IndexNames(KG!Graph, before(place, k)), k, stored[k]) : k \in unlinked}
<1>1. PICK place \in KG!Injection(unlinked, 1..KG!Cardinality(unlinked)) :
          KG!Becomes(KG!Show(KG!Graph, texts, all(place)))
  BY DEF KG!LinkBacklog
<1>2. /\ shown' = shown \cup unlinked /\ UNCHANGED <<stored, stale>>
      /\ \A k \in unlinked : k \in Memories /\ stored[k] # None /\ stored[k].kind = "semantic" /\ links[k] = {}
  BY DEF KG!LinkBacklog
<1>3. texts = [k \in unlinked |-> stored[k]]
  OBVIOUS
<1>4. PICK relations : relations = all(place)
  OBVIOUS
<1>5. \A e : e \in relations <=> \E k \in unlinked : e \in KG!Relations(KG!IndexNames(KG!Graph, before(place, k)), k, stored[k])
  BY <1>4
<1>. HIDE DEF unlinked, texts, all
<1>6. PICK h : h = KG!Show(KG!Graph, texts, relations)
  OBVIOUS
<1>7. /\ unlinked \subseteq Memories /\ DOMAIN texts = unlinked /\ texts \in Texting
      /\ \A k \in unlinked : texts[k] = stored[k] /\ stored[k] \in Sayings /\ stored[k] # None
                             /\ stored[k].kind = "semantic" /\ links[k] = {}
  <2>1. \A k \in unlinked : stored[k] \in Sayings
    BY <1>2 DEF GraphInv
  <2>2. texts \in [unlinked -> Sayings] /\ unlinked \in SUBSET Memories
    BY <1>2, <1>3, <2>1
  <2>3. texts \in Texting
    BY <2>2 DEF Texting
  <2>. QED  BY <1>2, <1>3, <2>1, <2>2, <2>3
<1>8. \A n \in KG!Nodes : back[n] \subseteq dated
  BY LinkedAreDated, GraphFields DEF GraphInv
<1>9. RelationsFit(KG!Graph, texts, relations)
  <2>1. ASSUME NEW k \in unlinked, NEW n \in KG!Nodes
        PROVE  KG!IndexNames(KG!Graph, before(place, k)).back[n] \subseteq dated \cup unlinked
    <3>1. PICK some : some = before(place, k)
      OBVIOUS
    <3>2. KG!IndexNames(KG!Graph, some).back[n] = back[n] \cup {m \in DOMAIN some : n \in KG!Named(some[m])}
      BY GraphFields DEF KG!IndexNames, KG!Graph
    <3>3. DOMAIN some \subseteq unlinked
      BY <3>1
    <3>. QED  BY <1>8, <3>1, <3>2, <3>3
  <2>. HIDE DEF before
  <2>2. ASSUME NEW k \in unlinked, NEW r, r = KG!Relations(KG!IndexNames(KG!Graph, before(place, k)), k, stored[k])
        PROVE  /\ \A n \in stored[k].caps : <<k, n, "related">> \in r
               /\ \A n \in stored[k].facts : <<k, n, "supports">> \in r
               /\ \A e \in r : IsRelation(e, k, stored[k], dated \cup unlinked)
    <3>1. PICK b : b = KG!IndexNames(KG!Graph, before(place, k))
      OBVIOUS
    <3>2. \A n \in KG!Nodes : b.back[n] \subseteq dated \cup unlinked
      BY <2>1, <3>1
    <3>3. stored[k] \in Sayings /\ r = KG!Relations(b, k, stored[k])
      BY <1>7, <2>2, <3>1
    <3>. QED  BY <3>2, <3>3, RelationsOfText
  <2>3. ASSUME NEW k \in unlinked
        PROVE  /\ \A n \in stored[k].caps : <<k, n, "related">> \in relations
               /\ \A n \in stored[k].facts : <<k, n, "supports">> \in relations
    BY <1>5, <2>2
  <2>4. ASSUME NEW e \in relations
        PROVE  \E k \in unlinked : IsRelation(e, k, stored[k], dated \cup unlinked)
    BY <1>5, <2>2
  <2>. QED  BY <1>7, <2>3, <2>4, GraphFields DEF RelationsFit
<1>10. GraphRight(h)
  BY <1>6, <1>7, <1>9, ShowKeepsRight DEF GraphInv
<1>11. /\ h.dated = dated \cup unlinked
       /\ h.links = [k \in Memories |-> links[k] \cup IF k \in unlinked THEN KG!Named(texts[k]) ELSE {}]
  <2>1. GraphTyped(KG!Graph)
    BY DEF GraphInv, GraphRight
  <2>2. /\ h.dated = KG!Graph.dated \cup DOMAIN texts
        /\ h.links = [k \in Memories |-> KG!Graph.links[k] \cup IF k \in DOMAIN texts THEN KG!Named(texts[k]) ELSE {}]
    <3>1. IsShown(h, KG!Graph, texts, relations)
      BY <1>6, <1>7, <2>1, ShownGraph
    <3>. QED  BY <3>1, Zenon DEF IsShown
  <2>. QED  BY <1>7, <2>2, GraphFields
<1>12. KG!Graph' = h /\ dated' = h.dated /\ links' = h.links
  BY <1>1, <1>4, <1>6, <1>10, BecomesGraph DEF GraphRight
<1>13. shown' = shown \cup unlinked /\ UNCHANGED <<stored, stale>>
  BY <1>2
<1>14. ASSUME NEW m \in shown'  PROVE CoversText(m)'
  <2>1. m \in Memories
    BY <1>7, <1>13 DEF GraphInv
  <2>2. CASE m \in unlinked
    <3>1. links'[m] = KG!Named(stored[m]) /\ stored'[m] = stored[m] /\ stored[m].kind = "semantic"
      BY <1>7, <1>11, <1>12, <1>13, <2>1, <2>2
    <3>2. "semantic" # "working"
      OBVIOUS
    <3>. QED  BY <3>1, <3>2 DEF CoversText
  <2>3. CASE m \notin unlinked
    <3>1. links'[m] = links[m] /\ m \in shown
      BY <1>11, <1>12, <1>13, <2>1, <2>3
    <3>. QED  BY <1>13, <3>1 DEF GraphInv, CoversText
  <2>. QED  BY <2>2, <2>3
<1>. QED  BY <1>7, <1>10, <1>11, <1>12, <1>13, <1>14 DEF GraphInv

\* A row that changes unheard: what the graph says of it is no longer claimed.
LEMMA UnheardKeeps ==
    ASSUME GraphInv, NEW k \in Memories, NEW t \in Sayings \cup {None}, KG!Unheard(k, t)
    PROVE  GraphInv'
<1>1. /\ stored' = [stored EXCEPT ![k] = t] /\ shown' = shown \ {k} /\ stale' = stale \cup ({k} \cap shown)
      /\ UNCHANGED <<nodes, dated, edges, links, back, norm>>
  BY DEF KG!Unheard, KG!graph
<1>2. KG!Graph' = KG!Graph /\ dated' = dated /\ links' = links
  BY <1>1 DEF KG!Graph
<1>3. stored' \in [Memories -> Sayings \cup {None}] /\ \A m \in Memories \ {k} : stored'[m] = stored[m]
  BY <1>1 DEF GraphInv
<1>4. shown' \subseteq {m \in Memories : stored'[m] # None} /\ stale' \subseteq Memories
  BY <1>1, <1>3 DEF GraphInv
<1>5. dated' \subseteq shown' \cup stale'
  BY <1>1 DEF GraphInv
<1>6. ASSUME NEW m \in shown'  PROVE CoversText(m)'
  <2>1. m \in Memories /\ m # k /\ m \in shown /\ (m \notin stale' => m \notin stale)
    BY <1>1, <1>4
  <2>2. stored'[m] = stored[m] /\ links' = links
    BY <1>2, <1>3, <2>1
  <2>. QED  BY <2>1, <2>2 DEF GraphInv, CoversText
<1>. QED  BY <1>2, <1>3, <1>4, <1>5, <1>6 DEF GraphInv

\* Every step keeps the graph right.
LEMMA GraphStays == ASSUME GraphInv, KG!Next PROVE GraphInv'
<1>1. CASE \E k \in Memories, t \in Sayings : KG!Commit(k, t) \/ KG!Revise(k, t)
  BY <1>1, CommitKeeps, ReviseKeeps
<1>2. CASE \E k \in Memories : KG!Forget(k) \/ KG!Prune(k)
  BY <1>2, ForgettingKeeps, UnheardKeeps DEF KG!Prune
<1>3. CASE KG!Maintain
  BY <1>3, MaintainKeeps
<1>4. CASE KG!LinkBacklog
  BY <1>4, BacklogKeeps
<1>5. CASE KG!Restart
  <2>1. KG!Graph' = KG!Empty /\ dated' = {} /\ shown' = {} /\ stale' = {} /\ stored' = stored
    BY <1>5, EmptyGraph, BecomesGraph DEF KG!Restart, GraphRight
  <2>. QED  BY <2>1, EmptyGraph DEF GraphInv
<1>6. CASE \/ \E k \in Memories, t \in Sayings : KG!Promote(k, t)
           \/ \E k \in Memories, t \in Sayings \cup {None} : KG!RollBack(k, t)
  BY <1>6, UnheardKeeps DEF KG!Promote, KG!RollBack
<1>. QED  BY <1>1, <1>2, <1>3, <1>4, <1>5, <1>6 DEF KG!Next

LEMMA GraphIsRight ==
    ASSUME GraphInv
    PROVE  KG!TypeOK /\ KG!IndexesAgree /\ KG!GraphIsWhole /\ KG!ForgottenLeavesNoTrace /\ KG!LinksCoverText
<1>1. GraphRight(KG!Graph)
  BY DEF GraphInv
<1>2. KG!TypeOK
  BY <1>1, GraphFields DEF GraphInv, GraphRight, GraphTyped, KG!TypeOK, Kinds
<1>3. KG!IndexesAgree
  BY <1>1, GraphFields DEF GraphRight, LinksAgree, KG!IndexesAgree
<1>4. KG!GraphIsWhole
  BY <1>1, GraphFields DEF GraphRight, Joined, KG!GraphIsWhole
<1>5. KG!ForgottenLeavesNoTrace
  <2>1. ASSUME NEW k \in Memories \ stale, stored[k] = None
        PROVE  k \notin dated /\ links[k] = {} /\ \A e \in edges : e[1] # k
    <3>1. k \notin dated
      BY <2>1 DEF GraphInv
    <3>. QED  BY <1>1, <3>1, LinkedAreDated, GraphFields DEF GraphRight, Joined
  <2>2. \A n \in nodes \ dated : back[n] # {}
    BY <1>1, GraphFields DEF GraphRight, NoOrphans
  <2>. QED  BY <2>1, <2>2 DEF KG!ForgottenLeavesNoTrace
<1>6. KG!LinksCoverText
  BY DEF GraphInv, CoversText, KG!LinksCoverText
<1>. QED  BY <1>2, <1>3, <1>4, <1>5, <1>6

-----------------------------------------------------------------------------
(* The full-text index *)

\* Where in init a process can be.
OpeningPlaces == {"closed", "tables", "filling", "version", "record", "refused", "open"}

IndexTypes ==
    /\ mem \in FT!Contents /\ folded \in FT!Contents \cup {None} /\ versions \subseteq {1, 2}
    /\ writer \in Procs \cup {None}
    /\ opens \in [Procs -> OpeningPlaces]
    /\ knows \in [Procs -> FT!Contents]
    /\ target \in [Procs -> 0..2] /\ seen \in [Procs -> 0..2]

\* Who fills the index holds the write lock, and nobody writes meanwhile.
FillsExactly ==
    /\ writer # None => opens[writer] = "filling"
    /\ \A p \in Procs : opens[p] = "filling" => writer = p /\ knows[p] = mem

\* Version 2 is recorded, or about to be, only of a file that has the index.
VersionFollowsIndex ==
    /\ 2 \in versions => folded # None
    /\ \A p \in Procs : target[p] = 2 => folded # None

IndexInv == IndexTypes /\ FillsExactly /\ VersionFollowsIndex /\ (folded # None => folded = mem)

LEMMA IndexStarts == ASSUME FT!Init PROVE IndexInv
BY DerivedConstants DEF FT!ConstantsFit, FT!Init, FT!Nothing, FT!Contents, IndexInv, IndexTypes, FillsExactly,
    VersionFollowsIndex, OpeningPlaces

LEMMA IndexStands == ASSUME IndexInv, UNCHANGED ftvars PROVE IndexInv'
BY DEF ftvars, IndexInv, IndexTypes, FillsExactly, VersionFollowsIndex, FT!Contents

\* Every step keeps the index right.
LEMMA IndexStays == ASSUME IndexInv, FT!Next PROVE IndexInv'
<1>. USE DerivedConstants DEF FT!ConstantsFit, IndexInv, FT!Goes
<1>1. FT!Nothing \in FT!Contents
  BY DEF FT!Nothing, FT!Contents
<1>2. PICK p \in Procs :
        \/ FT!Open(p) \/ FT!Fill(p) \/ FT!Built(p) \/ FT!NotBuilt(p) \/ FT!ReadVersion(p) \/ FT!Record(p) \/ FT!Close(p)
        \/ \E k \in Keys, t \in Texts \cup {None} : FT!Write(p, k, t)
  BY DEF FT!Next
<1>3. CASE FT!Open(p)
  <2>1. IndexTypes'
    BY <1>3 DEF FT!Open, IndexTypes, OpeningPlaces, FT!Contents
  <2>2. FillsExactly'
    BY <1>3 DEF FT!Open, IndexTypes, FillsExactly
  <2>. QED  BY <1>3, <2>1, <2>2 DEF FT!Open, VersionFollowsIndex
<1>4. CASE FT!Fill(p)
  <2>1. IndexTypes'
    BY <1>4 DEF FT!Fill, FT!Held, IndexTypes, OpeningPlaces, FT!Contents
  <2>2. FillsExactly'
    BY <1>4 DEF FT!Fill, FT!Held, IndexTypes, FillsExactly
  <2>. QED  BY <1>4, <2>1, <2>2 DEF FT!Fill, VersionFollowsIndex
<1>5. CASE FT!Built(p)
  <2>1. knows[p] = mem
    BY <1>5 DEF FT!Built, FillsExactly
  <2>2. folded' = mem /\ mem' = mem /\ folded' # None
    BY <1>5, <2>1 DEF FT!Built, FT!Has, IndexTypes
  <2>3. IndexTypes'
    BY <1>1, <1>5, <2>2 DEF FT!Built, FT!Has, FT!Target, IndexTypes, OpeningPlaces, FT!Contents
  <2>4. FillsExactly'
    BY <1>5 DEF FT!Built, FT!Has, IndexTypes, FillsExactly
  <2>. QED  BY <2>2, <2>3, <2>4 DEF VersionFollowsIndex
<1>6. CASE FT!NotBuilt(p)
  <2>1. FT!Has(p, FALSE) /\ folded' = folded
    BY <1>6 DEF FT!NotBuilt
  <2>2. writer' \in {writer, None}
    BY <1>6 DEF FT!NotBuilt
  <2>3. IndexTypes'
    BY <1>1, <2>1, <2>2 DEF FT!Has, FT!Target, IndexTypes, OpeningPlaces, FT!Contents
  <2>4. FillsExactly'
    BY <1>6 DEF FT!NotBuilt, FT!Has, IndexTypes, FillsExactly
  <2>5. VersionFollowsIndex'
    BY <2>1 DEF FT!Has, FT!Target, IndexTypes, VersionFollowsIndex
  <2>. QED  BY <2>1, <2>3, <2>4, <2>5 DEF FT!Has
<1>7. CASE FT!ReadVersion(p)
  <2>1. IndexTypes'
    BY <1>7 DEF FT!ReadVersion, IndexTypes, OpeningPlaces, FT!Contents
  <2>2. FillsExactly'
    BY <1>7 DEF FT!ReadVersion, IndexTypes, FillsExactly
  <2>. QED  BY <1>7, <2>1, <2>2 DEF FT!ReadVersion, VersionFollowsIndex
<1>8. CASE FT!Record(p)
  <2>1. versions' = versions \/ (seen[p] < target[p] /\ versions' = versions \cup {target[p]})
    BY <1>8 DEF FT!Record
  <2>2. seen[p] < target[p] => target[p] \in {1, 2}
    BY DEF IndexTypes
  <2>3. IndexTypes'
    BY <1>8, <2>1, <2>2 DEF FT!Record, IndexTypes, OpeningPlaces, FT!Contents
  <2>4. FillsExactly'
    BY <1>8 DEF FT!Record, IndexTypes, FillsExactly
  <2>5. VersionFollowsIndex'
    BY <1>8, <2>1 DEF FT!Record, VersionFollowsIndex
  <2>. QED  BY <1>8, <2>3, <2>4, <2>5 DEF FT!Record
<1>9. CASE FT!Close(p)
  <2>1. IndexTypes'
    BY <1>1, <1>9 DEF FT!Close, IndexTypes, OpeningPlaces, FT!Contents
  <2>2. FillsExactly'
    BY <1>9 DEF FT!Close, IndexTypes, FillsExactly
  <2>3. VersionFollowsIndex'
    BY <1>9 DEF FT!Close, IndexTypes, VersionFollowsIndex
  <2>. QED  BY <1>9, <2>1, <2>2, <2>3 DEF FT!Close
<1>10. ASSUME NEW k \in Keys, NEW t \in Texts \cup {None}, FT!Write(p, k, t)  PROVE IndexInv'
  <2>1. mem' \in FT!Contents /\ folded' \in FT!Contents \cup {None}
    BY <1>10 DEF FT!Write, IndexTypes, FT!Contents
  <2>2. folded' # None => folded # None /\ folded' = mem'
    BY <1>10 DEF FT!Write
  <2>3. folded # None => folded' # None
    BY <1>10, <2>1 DEF FT!Write, IndexTypes, FT!Contents
  <2>4. IndexTypes'
    BY <1>10, <2>1 DEF FT!Write, IndexTypes, FT!Contents
  <2>5. FillsExactly'
    BY <1>10 DEF FT!Write, IndexTypes, FillsExactly, OpeningPlaces
  <2>6. VersionFollowsIndex'
    BY <1>10, <2>3 DEF FT!Write, VersionFollowsIndex
  <2>. QED  BY <2>2, <2>4, <2>5, <2>6
<1>. QED  BY <1>2, <1>3, <1>4, <1>5, <1>6, <1>7, <1>8, <1>9, <1>10

LEMMA IndexIsTyped == ASSUME IndexInv PROVE FT!TypeOK /\ FT!IndexFollowsRows /\ FT!VersionIsTrue
BY DEF IndexInv, IndexTypes, FillsExactly, VersionFollowsIndex, FT!TypeOK, FT!IndexFollowsRows, FT!VersionIsTrue

-----------------------------------------------------------------------------
(* The search column *)

Migrating == {"reset", "backfill", "record"}

Versioned == [text : Texts, upd : 1..MaxStamp]

ColumnTypes ==
    /\ saved \in [Keys -> Versioned \cup {None}]
    /\ col \in [Keys -> [text : Texts \cup {None}, folded : BOOLEAN, of : 0..MaxStamp]]
    /\ version \in {0, 2, 3}
    /\ migrator \in Procs \cup {None}
    /\ opening \in [Procs -> Migrating \cup {"closed", "open"}]
    /\ batch \in [Procs -> SUBSET (Keys \X Versioned)]
    /\ past \in [Keys -> SUBSET Versioned]
    /\ clock \in 1..MaxStamp

\* One process migrates at a time, and the version is recorded before any opens.
OneMigrates ==
    /\ \A p \in Procs : opening[p] \in Migrating <=> migrator = p
    /\ \A p \in Procs : opening[p] = "reset" => version = 2
    /\ \A p \in Procs : opening[p] = "open" => version = 3
    /\ \A p \in Procs : batch[p] # {} => opening[p] = "backfill"

\* A stamp was given once, to the row it is on.
StampsSettled ==
    \A k \in Keys :
        /\ saved[k] # None => saved[k] \in past[k]
        /\ \A r \in past[k] : r.upd <= clock
        /\ \A r, s \in past[k] : r.upd = s.upd => r = s

\* What is read back is a row there was, once for each key.
BatchesArePast ==
    \A p \in Procs :
        /\ \A b \in batch[p] : b[2] \in past[b[1]]
        /\ \A b, c \in batch[p] : b[1] = c[1] => b = c

\* Version 2 and its unfolded vectors are behind.
Settled == version # 2 \/ \E p \in Procs : opening[p] \in {"backfill", "record"}

\* A vector that may count as current is that of a row there was, and folded, as
\* long as no runtime of version 2 saves its own beside a later one.
VectorsArePast ==
    \A k \in Keys : col[k].of # 0 =>
        /\ \E r \in past[k] : r.upd = col[k].of /\ r.text = col[k].text
        /\ Settled /\ ~OlderFills => col[k].folded

ColumnInv ==
    ColumnTypes /\ OneMigrates /\ StampsSettled /\ BatchesArePast /\ VectorsArePast /\ SC!OpenMeansSearchable

LEMMA ColumnStarts == ASSUME SC!Init PROVE ColumnInv
<1>. USE DEF ColumnInv
<1>1. \A k \in Keys : /\ saved[k] = None \/ (saved[k] \in Versioned /\ saved[k].upd = 1)
                      /\ past[k] = {saved[k]} \ {None}
  BY DerivedConstants DEF SC!ConstantsFit, SC!Init, Versioned
<1>2. \A k \in Keys : /\ version = 2 /\ saved[k] # None => col[k] = [text |-> saved[k].text, folded |-> FALSE, of |-> 1]
                      /\ ~(version = 2 /\ saved[k] # None) => col[k] = [text |-> None, folded |-> FALSE, of |-> 0]
  BY DEF SC!Init, SC!Vector, SC!NoVector
<1>3. ColumnTypes
  <2>1. saved \in [Keys -> Versioned \cup {None}]
    BY DerivedConstants DEF SC!ConstantsFit, SC!Init, Versioned
  <2>2. col \in [Keys -> [text : Texts \cup {None}, folded : BOOLEAN, of : 0..MaxStamp]]
    <3>1. col = [k \in Keys |-> col[k]]
      BY DEF SC!Init
    <3>2. ASSUME NEW k \in Keys
          PROVE  col[k] \in [text : Texts \cup {None}, folded : BOOLEAN, of : 0..MaxStamp]
      <4>1. version = 2 /\ saved[k] # None => saved[k].text \in Texts
        BY <1>1 DEF Versioned
      <4>2. 0 \in 0..MaxStamp /\ 1 \in 0..MaxStamp
        BY DerivedConstants DEF SC!ConstantsFit
      <4>3. CASE version = 2 /\ saved[k] # None
        <5>1. col[k] = [text |-> saved[k].text, folded |-> FALSE, of |-> 1]
          BY <1>2, <4>3
        <5>. QED  BY <4>1, <4>2, <4>3, <5>1
      <4>4. CASE ~(version = 2 /\ saved[k] # None)
        <5>1. col[k] = [text |-> None, folded |-> FALSE, of |-> 0]
          BY <1>2, <4>4
        <5>. QED  BY <4>2, <5>1
      <4>. QED  BY <4>3, <4>4
    <3>. QED  BY <3>1, <3>2
  <2>3. past \in [Keys -> SUBSET Versioned]
    <3>1. past = [k \in Keys |-> past[k]]
      BY DEF SC!Init
    <3>. QED  BY <1>1, <3>1
  <2>. QED  BY <2>1, <2>2, <2>3, DerivedConstants DEF SC!ConstantsFit, SC!Init, ColumnTypes, Migrating
<1>4. OneMigrates /\ BatchesArePast /\ SC!OpenMeansSearchable
  BY DerivedConstants DEF SC!ConstantsFit, SC!Init, OneMigrates, BatchesArePast, SC!OpenMeansSearchable, Migrating
<1>5. StampsSettled
  BY <1>1 DEF SC!Init, StampsSettled
<1>6. VectorsArePast
  BY <1>1, <1>2 DEF SC!Init, VectorsArePast, Settled
<1>. QED  BY <1>3, <1>4, <1>5, <1>6 DEF ColumnInv

LEMMA ColumnStands == ASSUME ColumnInv, UNCHANGED scvars PROVE ColumnInv'
BY DEF scvars, ColumnInv, ColumnTypes, OneMigrates, StampsSettled, BatchesArePast, VectorsArePast, Settled,
    SC!OpenMeansSearchable, SC!Outdated

\* Opening changes no row, and a backfill writes only what is still stored.
LEMMA OpeningKeeps ==
    ASSUME ColumnInv, NEW p \in Procs,
           SC!Migrate(p) \/ SC!Reset(p) \/ SC!Fetch(p) \/ SC!Fill(p) \/ SC!Record(p) \/ SC!Close(p)
    PROVE  ColumnInv'
<1>. USE DerivedConstants DEF SC!ConstantsFit, ColumnInv, SC!Goes
<1>1. CASE SC!Migrate(p)
  <2>1. ColumnTypes'
    BY <1>1 DEF SC!Migrate, ColumnTypes, Migrating
  <2>2. OneMigrates'
    BY <1>1 DEF SC!Migrate, SC!Free, ColumnTypes, OneMigrates, Migrating
  <2>3. StampsSettled' /\ BatchesArePast'
    BY <1>1 DEF SC!Migrate, StampsSettled, BatchesArePast
  <2>4. Settled' => Settled
    BY <1>1 DEF SC!Migrate, SC!Free, ColumnTypes, OneMigrates, Migrating, Settled
  <2>5. VectorsArePast'
    BY <1>1, <2>4 DEF SC!Migrate, VectorsArePast
  <2>6. SC!OpenMeansSearchable'
    BY <1>1 DEF SC!Migrate, ColumnTypes, SC!OpenMeansSearchable, SC!Outdated
  <2>. QED  BY <2>1, <2>2, <2>3, <2>5, <2>6
<1>2. CASE SC!Reset(p)
  <2>1. \A k \in Keys : col'[k] = [col[k] EXCEPT !.of = 0]
    BY <1>2 DEF SC!Reset, SC!NotTrusted
  <2>2. ColumnTypes'
    <3>1. col' \in [Keys -> [text : Texts \cup {None}, folded : BOOLEAN, of : 0..MaxStamp]]
      BY <1>2 DEF SC!Reset, SC!NotTrusted, ColumnTypes
    <3>. QED  BY <1>2, <3>1 DEF SC!Reset, ColumnTypes, Migrating
  <2>3. OneMigrates'
    BY <1>2 DEF SC!Reset, ColumnTypes, OneMigrates, Migrating
  <2>4. StampsSettled' /\ BatchesArePast'
    BY <1>2 DEF SC!Reset, StampsSettled, BatchesArePast
  <2>5. VectorsArePast'
    <3>1. \A k \in Keys : col'[k].of = 0
      <4>1. \A k \in Keys : col[k] = [text |-> col[k].text, folded |-> col[k].folded, of |-> col[k].of]
        BY DEF ColumnTypes
      <4>. QED  BY <2>1, <4>1
    <3>. QED  BY <3>1 DEF VectorsArePast
  <2>6. ~\E q \in Procs : opening'[q] \in {"record", "open"}
    BY <1>2, <2>2, <2>3 DEF SC!Reset, OneMigrates, ColumnTypes, Migrating
  <2>. QED  BY <2>2, <2>3, <2>4, <2>5, <2>6 DEF SC!OpenMeansSearchable
<1>3. CASE SC!Fetch(p)
  <2>1. CASE batch' = batch
    <3>1. \A k \in Keys : ~SC!Outdated(k)
      <4>1. SUFFICES ASSUME {k \in Keys : SC!Outdated(k)} # {}  PROVE FALSE
        OBVIOUS
      <4>2. PICK some \in SUBSET {k \in Keys : SC!Outdated(k)} :
                some # {} /\ batch' = [batch EXCEPT ![p] = {<<k, saved[k]>> : k \in some}]
        BY <1>3, <4>1 DEF SC!Fetch
      <4>3. batch'[p] # {}
        <5>1. PICK k \in some : TRUE
          BY <4>2
        <5>2. <<k, saved[k]>> \in batch'[p]
          BY <4>2, <5>1 DEF ColumnTypes
        <5>. QED  BY <5>2
      <4>. QED  BY <1>3, <2>1, <4>3 DEF SC!Fetch
    <3>2. opening' \in {opening, [opening EXCEPT ![p] = "record"]}
      BY <1>3 DEF SC!Fetch
    <3>3. ColumnTypes'
      BY <1>3, <2>1, <3>2 DEF SC!Fetch, ColumnTypes, Migrating
    <3>4. OneMigrates'
      BY <1>3, <2>1, <3>2 DEF SC!Fetch, ColumnTypes, OneMigrates, Migrating
    <3>5. StampsSettled' /\ BatchesArePast'
      BY <1>3, <2>1 DEF SC!Fetch, StampsSettled, BatchesArePast
    <3>6. Settled' => Settled
      BY <1>3, <3>2 DEF SC!Fetch, ColumnTypes, Settled
    <3>7. VectorsArePast'
      BY <1>3, <3>6 DEF SC!Fetch, VectorsArePast
    <3>8. SC!OpenMeansSearchable'
      BY <1>3, <3>1 DEF SC!Fetch, SC!OpenMeansSearchable, SC!Outdated
    <3>. QED  BY <3>3, <3>4, <3>5, <3>7, <3>8
  <2>2. CASE batch' # batch
    <3>1. PICK some \in SUBSET {k \in Keys : SC!Outdated(k)} :
              batch' = [batch EXCEPT ![p] = {<<k, saved[k]>> : k \in some}]
      BY <1>3, <2>2 DEF SC!Fetch
    <3>2. opening' = opening /\ since' = since
      BY <1>3, <2>2 DEF SC!Fetch
    <3>3. \A k \in some : saved[k] \in past[k] /\ saved[k] \in Versioned
      BY DEF SC!Outdated, StampsSettled, ColumnTypes
    <3>4. batch' \in [Procs -> SUBSET (Keys \X Versioned)]
      BY <3>1, <3>3 DEF ColumnTypes
    <3>5. ColumnTypes'
      BY <1>3, <3>2, <3>4 DEF SC!Fetch, ColumnTypes
    <3>6. OneMigrates'
      BY <1>3, <3>1, <3>2 DEF SC!Fetch, ColumnTypes, OneMigrates
    <3>7. BatchesArePast'
      BY <1>3, <3>1, <3>3 DEF SC!Fetch, ColumnTypes, BatchesArePast
    <3>8. StampsSettled' /\ VectorsArePast' /\ SC!OpenMeansSearchable'
      BY <1>3, <3>2 DEF SC!Fetch, StampsSettled, VectorsArePast, Settled, SC!OpenMeansSearchable, SC!Outdated
    <3>. QED  BY <3>5, <3>6, <3>7, <3>8
  <2>. QED  BY <2>1, <2>2
<1>4. CASE SC!Fill(p)
  <2>1. ASSUME NEW k \in Keys
        PROVE  \/ col'[k] = col[k]
               \/ /\ saved[k] # None
                  /\ col'[k] = [text |-> saved[k].text, folded |-> TRUE, of |-> saved[k].upd]
    <3>1. CASE \E old \in {b[2] : b \in {b \in batch[p] : b[1] = k}} : SC!StillRead(k, old)
      <4>1. PICK b \in batch[p] : b[1] = k /\ SC!StillRead(k, b[2])
        BY <3>1
      <4>2. \A c \in batch[p] : c[1] = k => c = b
        BY <4>1 DEF BatchesArePast
      <4>3. (CHOOSE c \in batch[p] : c[1] = k) = b
        BY <4>1, <4>2
      <4>4. b[2] \in past[k] /\ saved[k] \in past[k] /\ b[2].upd = saved[k].upd /\ saved[k] # None
        BY <4>1 DEF SC!StillRead, BatchesArePast, StampsSettled
      <4>5. b[2] = saved[k]
        BY <4>4 DEF StampsSettled
      <4>6. col'[k] = SC!Vector(b[2].text, TRUE, b[2].upd)
        BY <1>4, <3>1, <4>3 DEF SC!Fill
      <4>. QED  BY <4>4, <4>5, <4>6 DEF SC!Vector
    <3>2. CASE ~\E old \in {b[2] : b \in {b \in batch[p] : b[1] = k}} : SC!StillRead(k, old)
      BY <1>4, <3>2 DEF SC!Fill
    <3>. QED  BY <3>1, <3>2
  <2>2. ASSUME NEW k \in Keys, saved[k] # None
        PROVE  saved[k] \in Versioned /\ saved[k] \in past[k] /\ saved[k].text # None
    BY <2>2 DEF ColumnTypes, StampsSettled, Versioned
  <2>3. col' \in [Keys -> [text : Texts \cup {None}, folded : BOOLEAN, of : 0..MaxStamp]]
    <3>1. col' = [k \in Keys |-> col'[k]]
      BY <1>4 DEF SC!Fill
    <3>2. ASSUME NEW k \in Keys
          PROVE  col'[k] \in [text : Texts \cup {None}, folded : BOOLEAN, of : 0..MaxStamp]
      <4>1. col[k] \in [text : Texts \cup {None}, folded : BOOLEAN, of : 0..MaxStamp]
        BY DEF ColumnTypes
      <4>2. ASSUME saved[k] # None  PROVE saved[k].text \in Texts /\ saved[k].upd \in 0..MaxStamp
        BY <2>2, <4>2 DEF Versioned
      <4>3. CASE col'[k] = col[k]
        BY <4>1, <4>3
      <4>4. CASE saved[k] # None /\ col'[k] = [text |-> saved[k].text, folded |-> TRUE, of |-> saved[k].upd]
        BY <4>2, <4>4
      <4>. QED  BY <2>1, <4>3, <4>4
    <3>. QED  BY <3>1, <3>2
  <2>4. ColumnTypes'
    BY <1>4, <2>3 DEF SC!Fill, ColumnTypes
  <2>5. OneMigrates'
    BY <1>4 DEF SC!Fill, ColumnTypes, OneMigrates
  <2>6. StampsSettled' /\ BatchesArePast'
    BY <1>4 DEF SC!Fill, ColumnTypes, StampsSettled, BatchesArePast
  <2>7. VectorsArePast'
    <3>1. Settled' = Settled /\ past' = past
      BY <1>4 DEF SC!Fill, Settled
    <3>2. SUFFICES ASSUME NEW k \in Keys, col'[k].of # 0
                   PROVE  /\ \E r \in past[k] : r.upd = col'[k].of /\ r.text = col'[k].text
                          /\ Settled /\ ~OlderFills => col'[k].folded
      BY <3>1 DEF VectorsArePast
    <3>3. CASE col'[k] = col[k]
      BY <3>2, <3>3 DEF VectorsArePast
    <3>4. CASE saved[k] # None /\ col'[k] = [text |-> saved[k].text, folded |-> TRUE, of |-> saved[k].upd]
      BY <2>2, <3>4
    <3>. QED  BY <2>1, <3>3, <3>4
  <2>8. ASSUME NEW k \in Keys, ~SC!Outdated(k)  PROVE ~SC!Outdated(k)'
    <3>1. saved' = saved
      BY <1>4 DEF SC!Fill
    <3>2. CASE col'[k] = col[k]
      BY <2>8, <3>1, <3>2 DEF SC!Outdated
    <3>3. CASE saved[k] # None /\ col'[k] = [text |-> saved[k].text, folded |-> TRUE, of |-> saved[k].upd]
      <4>1. col'[k].text # None /\ col'[k].of = saved[k].upd
        BY <2>2, <3>3
      <4>. QED  BY <3>1, <4>1 DEF SC!Outdated
    <3>. QED  BY <2>1, <3>2, <3>3
  <2>9. SC!OpenMeansSearchable'
    BY <1>4, <2>8 DEF SC!Fill, SC!OpenMeansSearchable
  <2>. QED  BY <2>4, <2>5, <2>6, <2>7, <2>9
<1>5. CASE SC!Record(p)
  <2>1. ColumnTypes'
    BY <1>5 DEF SC!Record, ColumnTypes
  <2>2. OneMigrates'
    BY <1>5 DEF SC!Record, ColumnTypes, OneMigrates, Migrating
  <2>3. StampsSettled' /\ BatchesArePast'
    BY <1>5 DEF SC!Record, StampsSettled, BatchesArePast
  <2>4. Settled
    BY <1>5 DEF SC!Record, Settled
  <2>5. VectorsArePast'
    BY <1>5, <2>4 DEF SC!Record, VectorsArePast
  <2>6. SC!OpenMeansSearchable'
    BY <1>5 DEF SC!Record, SC!OpenMeansSearchable, SC!Outdated
  <2>. QED  BY <2>1, <2>2, <2>3, <2>5, <2>6
<1>6. CASE SC!Close(p)
  <2>1. ColumnTypes'
    BY <1>6 DEF SC!Close, ColumnTypes
  <2>2. OneMigrates'
    BY <1>6 DEF SC!Close, ColumnTypes, OneMigrates, Migrating
  <2>3. StampsSettled' /\ BatchesArePast'
    BY <1>6 DEF SC!Close, ColumnTypes, StampsSettled, BatchesArePast
  <2>4. Settled' => Settled
    BY <1>6 DEF SC!Close, ColumnTypes, Settled
  <2>5. VectorsArePast'
    BY <1>6, <2>4 DEF SC!Close, VectorsArePast
  <2>6. SC!OpenMeansSearchable'
    BY <1>6 DEF SC!Close, ColumnTypes, SC!OpenMeansSearchable, SC!Outdated
  <2>. QED  BY <2>1, <2>2, <2>3, <2>5, <2>6
<1>. QED  BY <1>1, <1>2, <1>3, <1>4, <1>5, <1>6

\* A row with a vector of it, or with what was left of the vector before.
LEMMA StoringKeeps ==
    ASSUME ColumnInv, NEW k \in Keys, NEW r \in SC!Offers(k), NEW vector, SC!Stores(k, r, vector),
           \/ vector \in {SC!Vector(r.text, TRUE, r.upd), SC!NoVector, col[k]}
           \/ OlderFills /\ vector = SC!Vector(r.text, FALSE, r.upd),
           since' \subseteq Keys, since \subseteq since' \cup {k},
           k \notin since' => vector = SC!Vector(r.text, TRUE, r.upd)
    PROVE  ColumnInv'
<1>. USE DerivedConstants DEF SC!ConstantsFit, ColumnInv
<1>1. /\ r \in Versioned
      /\ r \in past[k] \/ r.upd = clock + 1
  <2>1. CASE r \in past[k]
    BY <2>1 DEF ColumnTypes
  <2>2. CASE clock < MaxStamp /\ r \in {[text |-> t, upd |-> clock + 1] : t \in Texts}
    BY <2>2 DEF ColumnTypes, Versioned
  <2>. QED  BY <2>1, <2>2 DEF SC!Offers
<1>2. /\ saved' = [saved EXCEPT ![k] = r] /\ col' = [col EXCEPT ![k] = vector]
      /\ past' = [past EXCEPT ![k] = past[k] \cup {r}]
      /\ UNCHANGED <<version, migrator, opening, batch>>
      /\ clock' = IF r.upd > clock THEN r.upd ELSE clock
  BY DEF SC!Stores
<1>3. clock' \in 1..MaxStamp /\ clock <= clock' /\ r.upd <= clock'
  BY <1>1, <1>2 DEF ColumnTypes, Versioned
<1>4. vector \in [text : Texts \cup {None}, folded : BOOLEAN, of : 0..MaxStamp]
  <2>1. r.text \in Texts /\ r.upd \in 0..MaxStamp /\ 0 \in 0..MaxStamp
    BY <1>1 DEF Versioned
  <2>2. col[k] \in [text : Texts \cup {None}, folded : BOOLEAN, of : 0..MaxStamp]
    BY DEF ColumnTypes
  <2>3. SC!Vector(r.text, TRUE, r.upd) \in [text : Texts \cup {None}, folded : BOOLEAN, of : 0..MaxStamp]
    BY <2>1 DEF SC!Vector
  <2>4. SC!NoVector \in [text : Texts \cup {None}, folded : BOOLEAN, of : 0..MaxStamp]
    BY <2>1 DEF SC!Vector, SC!NoVector
  <2>5. SC!Vector(r.text, FALSE, r.upd) \in [text : Texts \cup {None}, folded : BOOLEAN, of : 0..MaxStamp]
    BY <2>1 DEF SC!Vector
  <2>. QED  BY <2>2, <2>3, <2>4, <2>5
<1>5. past' \in [Keys -> SUBSET Versioned] /\ \A m \in Keys : past[m] \subseteq past'[m]
  BY <1>1, <1>2 DEF ColumnTypes
<1>6. ColumnTypes'
  <2>1. saved' \in [Keys -> Versioned \cup {None}]
    BY <1>1, <1>2 DEF ColumnTypes
  <2>2. col' \in [Keys -> [text : Texts \cup {None}, folded : BOOLEAN, of : 0..MaxStamp]]
    BY <1>2, <1>4 DEF ColumnTypes
  <2>. QED  BY <1>2, <1>3, <1>5, <2>1, <2>2 DEF ColumnTypes
<1>7. OneMigrates' /\ Settled' = Settled
  BY <1>2 DEF OneMigrates, Settled
<1>8. StampsSettled'
  <2>1. ASSUME NEW m \in Keys  PROVE saved'[m] # None => saved'[m] \in past'[m]
    BY <1>2, <1>5 DEF StampsSettled, ColumnTypes
  <2>2. ASSUME NEW m \in Keys, NEW a \in past'[m]  PROVE a.upd <= clock'
    <3>1. CASE a \in past[m]
      <4>1. a.upd <= clock /\ a \in Versioned
        BY <3>1 DEF StampsSettled, ColumnTypes
      <4>. QED  BY <1>3, <4>1 DEF Versioned, ColumnTypes
    <3>2. CASE a = r
      BY <1>3, <3>2
    <3>. QED  BY <1>2, <2>2, <3>1, <3>2 DEF ColumnTypes
  <2>3. ASSUME NEW m \in Keys, NEW a \in past'[m], NEW b \in past'[m], a.upd = b.upd  PROVE a = b
    <3>1. \A x \in past[k] : x \in Versioned /\ x.upd <= clock
      BY DEF StampsSettled, ColumnTypes
    <3>2. \A x \in past[k] : x.upd = r.upd => x = r
      BY <1>1, <3>1 DEF StampsSettled, ColumnTypes, Versioned
    <3>. QED  BY <1>2, <2>3, <3>2 DEF StampsSettled, ColumnTypes
  <2>. QED  BY <2>1, <2>2, <2>3 DEF StampsSettled
<1>9. BatchesArePast'
  BY <1>2, <1>5 DEF BatchesArePast, ColumnTypes
<1>10. VectorsArePast'
  <2>1. SUFFICES ASSUME NEW m \in Keys, col'[m].of # 0
                 PROVE  /\ \E x \in past'[m] : x.upd = col'[m].of /\ x.text = col'[m].text
                        /\ Settled /\ ~OlderFills => col'[m].folded
    BY <1>7 DEF VectorsArePast
  <2>2. CASE col'[m] = col[m]
    BY <1>5, <2>1, <2>2 DEF VectorsArePast
  <2>3. CASE m = k /\ vector = SC!Vector(r.text, TRUE, r.upd)
    BY <1>2, <2>3 DEF SC!Vector, ColumnTypes
  <2>4. CASE m = k /\ vector = SC!NoVector
    BY <1>2, <2>1, <2>4 DEF SC!NoVector, SC!Vector, ColumnTypes
  <2>5. CASE m = k /\ OlderFills /\ vector = SC!Vector(r.text, FALSE, r.upd)
    BY <1>2, <2>5 DEF SC!Vector, ColumnTypes
  <2>. QED  BY <1>2, <2>2, <2>3, <2>4, <2>5 DEF ColumnTypes
<1>11. SC!OpenMeansSearchable'
  <2>1. SUFFICES ASSUME NEW m \in Keys, m \notin since', \E p \in Procs : opening[p] \in {"record", "open"}
                 PROVE  ~SC!Outdated(m)'
    BY <1>2 DEF SC!OpenMeansSearchable
  <2>2. CASE m = k
    <3>1. saved'[k] = r /\ col'[k] = [text |-> r.text, folded |-> TRUE, of |-> r.upd]
      BY <1>2, <2>1, <2>2 DEF SC!Vector, ColumnTypes
    <3>2. r.text # None
      BY <1>1 DEF Versioned
    <3>. QED  BY <2>2, <3>1, <3>2 DEF SC!Outdated
  <2>3. CASE m # k
    <3>1. saved'[m] = saved[m] /\ col'[m] = col[m]
      BY <1>2, <2>3 DEF ColumnTypes
    <3>2. ~SC!Outdated(m)
      BY <2>1, <2>3 DEF SC!OpenMeansSearchable
    <3>. QED  BY <3>1, <3>2 DEF SC!Outdated
  <2>. QED  BY <2>2, <2>3
<1>. QED  BY <1>6, <1>7, <1>8, <1>9, <1>10, <1>11

\* Every step keeps the vectors right.
LEMMA ColumnStays == ASSUME ColumnInv, since \subseteq Keys, SC!Next PROVE ColumnInv' /\ since' \subseteq Keys
<1>1. CASE \E p \in Procs :
             SC!Migrate(p) \/ SC!Reset(p) \/ SC!Fetch(p) \/ SC!Fill(p) \/ SC!Record(p) \/ SC!Close(p)
  <2>1. ColumnInv'
    BY <1>1, OpeningKeeps
  <2>2. since' \in {since, {}}
    BY <1>1 DEF SC!Migrate, SC!Reset, SC!Fetch, SC!Fill, SC!Record, SC!Close
  <2>. QED  BY <2>1, <2>2
<1>2. ASSUME NEW k \in Keys, SC!Delete(k)  PROVE ColumnInv' /\ since' \subseteq Keys
  <2>. USE DerivedConstants DEF SC!ConstantsFit, ColumnInv
  <2>1. saved' = [saved EXCEPT ![k] = None] /\ col' = [col EXCEPT ![k] = SC!NoVector]
    BY <1>2 DEF SC!Delete
  <2>2. SC!NoVector \in [text : Texts \cup {None}, folded : BOOLEAN, of : 0..MaxStamp] /\ SC!NoVector.of = 0
    BY DEF SC!NoVector, SC!Vector
  <2>3. ColumnTypes'
    BY <1>2, <2>1, <2>2 DEF SC!Delete, ColumnTypes
  <2>4. OneMigrates' /\ BatchesArePast'
    BY <1>2 DEF SC!Delete, OneMigrates, BatchesArePast
  <2>5. StampsSettled'
    BY <1>2, <2>1 DEF SC!Delete, StampsSettled, ColumnTypes
  <2>6. VectorsArePast'
    BY <1>2, <2>1, <2>2 DEF SC!Delete, VectorsArePast, Settled, ColumnTypes
  <2>7. \A m \in Keys : ~SC!Outdated(m) => ~SC!Outdated(m)'
    BY <2>1 DEF SC!Outdated, ColumnTypes
  <2>8. SC!OpenMeansSearchable' /\ since' = since
    BY <1>2, <2>7 DEF SC!Delete, SC!OpenMeansSearchable
  <2>. QED  BY <2>3, <2>4, <2>5, <2>6, <2>8
<1>3. ASSUME NEW k \in Keys, NEW r \in SC!Offers(k), SC!Save(k, r)  PROVE ColumnInv' /\ since' \subseteq Keys
  <2>1. since' = since \ {k} /\ SC!Stores(k, r, SC!Vector(r.text, TRUE, r.upd))
    BY <1>3 DEF SC!Save
  <2>. QED  BY <2>1, StoringKeeps
<1>4. ASSUME NEW k \in Keys, NEW r \in SC!Offers(k), SC!OldSave(k, r)  PROVE ColumnInv' /\ since' \subseteq Keys
  <2>1. PICK vector :
          /\ SC!Stores(k, r, vector)
          /\ \/ vector \in {SC!Vector(r.text, TRUE, r.upd), SC!NoVector, col[k]}
             \/ OlderFills /\ vector = SC!Vector(r.text, FALSE, r.upd)
    BY <1>4 DEF SC!OldSave
  <2>2. since' = since \cup {k}
    BY <1>4 DEF SC!OldSave
  <2>. QED  BY <2>1, <2>2, StoringKeeps
<1>. QED  BY <1>1, <1>2, <1>3, <1>4 DEF SC!Next

LEMMA ColumnIsRight == ASSUME ColumnInv PROVE SC!TypeOK /\ (~OlderFills => SC!CurrentIsRight) /\ SC!OpenMeansSearchable
<1>. USE DerivedConstants DEF SC!ConstantsFit, ColumnInv
<1>1. SC!TypeOK
  BY DEF SC!TypeOK, ColumnTypes, OneMigrates, StampsSettled, Migrating
<1>2. ASSUME ~OlderFills, version = 3, NEW k \in Keys, saved[k] # None, ~SC!Outdated(k)
      PROVE  col[k].text = saved[k].text /\ col[k].folded
  <2>1. col[k].of = saved[k].upd /\ saved[k] \in Versioned /\ saved[k] \in past[k]
    BY <1>2 DEF SC!Outdated, ColumnTypes, StampsSettled
  <2>2. col[k].of # 0
    BY <2>1 DEF Versioned
  <2>3. PICK r \in past[k] : r.upd = col[k].of /\ r.text = col[k].text
    BY <2>2 DEF VectorsArePast
  <2>4. r = saved[k]
    BY <2>1, <2>3 DEF StampsSettled
  <2>. QED  BY <1>2, <2>2, <2>3, <2>4 DEF VectorsArePast, Settled
<1>. QED  BY <1>1, <1>2 DEF SC!CurrentIsRight

-----------------------------------------------------------------------------
(* Checkpoints *)

Checkpoint == [thread : Threads, space : Spaces, id : KP!Ids, stamp : 1..time]

CheckpointTypes ==
    /\ points \subseteq Checkpoint
    /\ time \in 0..MaxTime
    /\ owner = [i \in KP!Ids |-> owner[i]] /\ doing = [w \in Procs |-> doing[w]]
    /\ acked \in [Threads -> 0..time] /\ floor \in [Procs -> 0..time]

IsCall(d) == d = [op |-> d.op, thread |-> d.thread, space |-> d.space, id |-> d.id, stamp |-> d.stamp]

\* What a worker in a call knows.
CallFits(w) ==
    /\ IsCall(doing[w])
    /\ doing[w].op \in {"idle", "put", "load", "list"}
    /\ doing[w].op # "idle" => doing[w].thread \in Threads
    /\ doing[w].op = "put" =>
          /\ doing[w].space \in Spaces /\ doing[w].id \in KP!Ids /\ doing[w].stamp \in 0..time
          /\ owner[doing[w].id] = <<doing[w].thread, doing[w].space>>
    /\ doing[w].op \in {"load", "list"} => floor[w] <= acked[doing[w].thread]

\* One checkpoint is put by one worker at a time, and what it stamped is newer than
\* what is stored of it.
PutsTakeTurns ==
    /\ \A v, w \in Procs : doing[v].op = "put" /\ doing[w].op = "put" /\ doing[v].id = doing[w].id => v = w
    /\ \A w \in Procs : doing[w].op = "put" /\ doing[w].stamp > 0 =>
          \A c \in points : c.id = doing[w].id => c.stamp <= doing[w].stamp

\* What was acknowledged is stored, or something newer of the thread.
AckedIsStored ==
    \A t \in Threads : acked[t] > 0 => \E c \in points : c.thread = t /\ c.stamp >= acked[t]

CheckpointInv ==
    /\ CheckpointTypes /\ \A w \in Procs : CallFits(w)
    /\ PutsTakeTurns /\ AckedIsStored
    /\ \A c \in points : owner[c.id] = <<c.thread, c.space>>
    /\ KP!ResumesFromLast

LEMMA CallShapes ==
    /\ IsCall(KP!Idle) /\ KP!Idle.op = "idle"
    /\ \A op, t, s, i : LET d == KP!Call(op, t, s, i) IN
          IsCall(d) /\ d.op = op /\ d.thread = t /\ d.space = s /\ d.id = i /\ d.stamp = 0
    /\ \A d, op : LET n == [d EXCEPT !.op = op] IN
          IsCall(d) => /\ IsCall(n) /\ n.op = op
                       /\ n.thread = d.thread /\ n.space = d.space /\ n.id = d.id /\ n.stamp = d.stamp
    /\ \A d, x : LET n == [d EXCEPT !.stamp = x] IN
          IsCall(d) => /\ IsCall(n) /\ n.stamp = x
                       /\ n.thread = d.thread /\ n.space = d.space /\ n.id = d.id /\ n.op = d.op
<1>1. IsCall(KP!Idle) /\ KP!Idle.op = "idle"
  BY DEF IsCall, KP!Idle
<1>2. ASSUME NEW op, NEW t, NEW s, NEW i
      PROVE  LET d == KP!Call(op, t, s, i) IN
             IsCall(d) /\ d.op = op /\ d.thread = t /\ d.space = s /\ d.id = i /\ d.stamp = 0
  BY DEF IsCall, KP!Call
<1>3. ASSUME NEW d, NEW op, IsCall(d)
      PROVE  LET n == [d EXCEPT !.op = op] IN
             /\ IsCall(n) /\ n.op = op
             /\ n.thread = d.thread /\ n.space = d.space /\ n.id = d.id /\ n.stamp = d.stamp
  <2>1. PICK n : n = [d EXCEPT !.op = op]
    OBVIOUS
  <2>2. n = [op |-> op, thread |-> d.thread, space |-> d.space, id |-> d.id, stamp |-> d.stamp]
    BY <1>3, <2>1 DEF IsCall
  <2>3. /\ IsCall(n) /\ n.op = op
        /\ n.thread = d.thread /\ n.space = d.space /\ n.id = d.id /\ n.stamp = d.stamp
    BY <2>2 DEF IsCall
  <2>. QED  BY <2>1, <2>3
<1>4. ASSUME NEW d, NEW x, IsCall(d)
      PROVE  LET n == [d EXCEPT !.stamp = x] IN
             /\ IsCall(n) /\ n.stamp = x
             /\ n.thread = d.thread /\ n.space = d.space /\ n.id = d.id /\ n.op = d.op
  <2>1. PICK n : n = [d EXCEPT !.stamp = x]
    OBVIOUS
  <2>2. n = [op |-> d.op, thread |-> d.thread, space |-> d.space, id |-> d.id, stamp |-> x]
    BY <1>4, <2>1 DEF IsCall
  <2>3. /\ IsCall(n) /\ n.stamp = x
        /\ n.thread = d.thread /\ n.space = d.space /\ n.id = d.id /\ n.op = d.op
    BY <2>2 DEF IsCall
  <2>. QED  BY <2>1, <2>3
<1>. QED  BY <1>1, <1>2, <1>3, <1>4

LEMMA CheckpointsStart == ASSUME KP!Init PROVE CheckpointInv
<1>. USE DerivedConstants DEF KP!ConstantsFit, KP!Init
<1>1. \A w \in Procs : doing[w] = KP!Idle /\ doing[w].op = "idle" /\ IsCall(doing[w])
  BY CallShapes
<1>2. CheckpointTypes
  BY DEF CheckpointTypes, Checkpoint
<1>3. (\A w \in Procs : CallFits(w)) /\ PutsTakeTurns
  BY <1>1 DEF CallFits, PutsTakeTurns
<1>4. AckedIsStored /\ KP!ResumesFromLast
  BY DEF AckedIsStored, KP!ResumesFromLast
<1>. QED  BY <1>2, <1>3, <1>4 DEF CheckpointInv

LEMMA CheckpointsStand == ASSUME CheckpointInv, UNCHANGED kvars PROVE CheckpointInv'
BY DEF kvars, CheckpointInv, CheckpointTypes, CallFits, PutsTakeTurns, AckedIsStored, KP!ResumesFromLast, Checkpoint

\* A call begins, ends or goes on, and nothing is stored.
LEMMA CallsKeep ==
    ASSUME CheckpointInv, NEW w \in Procs, NEW new, doing' = [doing EXCEPT ![w] = new],
           UNCHANGED <<points, owner, time, acked>>,
           floor' \in [Procs -> 0..time], \A v \in Procs \ {w} : floor'[v] = floor[v],
           CallFits(w)', new.op = "put" => doing[w].op = "put" /\ new = doing[w],
           KP!ResumesFromLast'
    PROVE  CheckpointInv'
<1>. USE DEF CheckpointInv
<1>1. CheckpointTypes'
  BY DEF CheckpointTypes, Checkpoint
<1>2. doing'[w] = new /\ \A v \in Procs \ {w} : doing'[v] = doing[v]
  BY DEF CheckpointTypes
<1>3. ASSUME NEW v \in Procs  PROVE CallFits(v)'
  <2>1. CASE v # w
    BY <1>2, <2>1 DEF CallFits
  <2>. QED  BY <2>1
<1>4. \A v \in Procs : doing'[v].op = "put" => doing[v].op = "put" /\ doing'[v] = doing[v]
  BY <1>2
<1>5. PutsTakeTurns'
  BY <1>4 DEF PutsTakeTurns
<1>. QED  BY <1>1, <1>3, <1>5 DEF AckedIsStored

\* What is stored of a checkpoint is replaced by something newer.
LEMMA StoredIsNewer ==
    ASSUME CheckpointInv, NEW w \in Procs, doing[w].op = "put", doing[w].stamp > 0
    PROVE  LET new == KP!Stored(doing[w])  IN
           /\ new \subseteq Checkpoint
           /\ \A c \in new : owner[c.id] = <<c.thread, c.space>>
           /\ \A c \in points : \E d \in new : d.thread = c.thread /\ d.stamp >= c.stamp
           /\ \A c \in new : c \in points \/ c.id = doing[w].id
           /\ \E d \in new : d.thread = doing[w].thread /\ d.stamp = doing[w].stamp
<1>. DEFINE d == doing[w]
            c0 == [thread |-> d.thread, space |-> d.space, id |-> d.id, stamp |-> d.stamp]
            new == KP!Stored(doing[w])
<1>1. /\ d.thread \in Threads /\ d.space \in Spaces /\ d.id \in KP!Ids /\ d.stamp \in 1..time
      /\ owner[d.id] = <<d.thread, d.space>>
  BY DEF CheckpointInv, CallFits, CheckpointTypes
<1>2. c0 \in Checkpoint
  BY <1>1 DEF Checkpoint
<1>3. new = {o \in points : <<o.thread, o.space, o.id>> # <<d.thread, d.space, d.id>>} \cup {c0}
  BY DEF KP!Stored, KP!Checkpoint
<1>4. new \subseteq Checkpoint
  BY <1>2, <1>3 DEF CheckpointInv, CheckpointTypes
<1>5. ASSUME NEW c \in points  PROVE \E x \in new : x.thread = c.thread /\ x.stamp >= c.stamp
  <2>1. c.stamp \in Nat /\ d.stamp \in Nat
    BY <1>1 DEF CheckpointInv, CheckpointTypes, Checkpoint
  <2>2. CASE <<c.thread, c.space, c.id>> # <<d.thread, d.space, d.id>>
    BY <1>3, <2>1, <2>2
  <2>3. CASE <<c.thread, c.space, c.id>> = <<d.thread, d.space, d.id>>
    <3>1. c.stamp <= d.stamp
      BY <2>3 DEF CheckpointInv, PutsTakeTurns
    <3>2. c0 \in new /\ c0.thread = d.thread /\ c0.stamp = d.stamp
      BY <1>3
    <3>. QED  BY <2>1, <2>3, <3>1, <3>2
  <2>. QED  BY <2>2, <2>3
<1>6. \A c \in new : owner[c.id] = <<c.thread, c.space>>
  BY <1>1, <1>3 DEF CheckpointInv
<1>7. c0 \in new /\ c0.thread = d.thread /\ c0.stamp = d.stamp
  BY <1>3
<1>8. \A c \in new : c \in points \/ c.id = d.id
  BY <1>3
<1>. QED  BY <1>4, <1>5, <1>6, <1>7, <1>8

\* A put that ends having stored its checkpoint, acknowledged or not.
LEMMA StoringCheckpoints ==
    ASSUME CheckpointInv, NEW w \in Procs, doing[w].op = "put", doing[w].stamp > 0,
           points' = KP!Stored(doing[w]), doing' = [doing EXCEPT ![w] = KP!Idle],
           UNCHANGED <<owner, time, floor>>, answer' = None,
           \/ acked' = acked
           \/ LET t == doing[w].thread IN
              acked' = [acked EXCEPT ![t] = IF doing[w].stamp > @ THEN doing[w].stamp ELSE @]
    PROVE  CheckpointInv'
<1>1. PICK new : new = points'
  OBVIOUS
<1>2. /\ new \subseteq Checkpoint
      /\ \A c \in new : owner[c.id] = <<c.thread, c.space>>
      /\ \A c \in points : \E d \in new : d.thread = c.thread /\ d.stamp >= c.stamp
      /\ \A c \in new : c \in points \/ c.id = doing[w].id
      /\ \E d \in new : d.thread = doing[w].thread /\ d.stamp = doing[w].stamp
  BY <1>1, StoredIsNewer
<1>3. doing'[w] = KP!Idle /\ \A v \in Procs \ {w} : doing'[v] = doing[v]
  BY DEF CheckpointInv, CheckpointTypes
<1>4. KP!Idle.op = "idle"
  BY CallShapes
<1>5. doing[w].thread \in Threads /\ doing[w].stamp \in 0..time
  BY DEF CheckpointInv, CallFits
<1>6. acked' \in [Threads -> 0..time] /\ \A t \in Threads : acked[t] <= acked'[t]
  BY <1>5 DEF CheckpointInv, CheckpointTypes
<1>7. CheckpointTypes'
  <2>1. points' \subseteq Checkpoint' /\ time' = time
    BY <1>1, <1>2 DEF Checkpoint
  <2>. QED  BY <1>6, <2>1 DEF CheckpointInv, CheckpointTypes
<1>8. ASSUME NEW v \in Procs  PROVE CallFits(v)'
  <2>1. CASE v = w
    BY <1>3, <1>4, <2>1, CallShapes DEF CallFits
  <2>2. CASE v # w
    <3>1. CallFits(v) /\ doing'[v] = doing[v]
      BY <1>3, <2>2 DEF CheckpointInv
    <3>2. doing[v].op \in {"load", "list"} => floor[v] <= acked'[doing[v].thread]
      <4>1. SUFFICES ASSUME doing[v].op \in {"load", "list"}  PROVE floor[v] <= acked'[doing[v].thread]
        OBVIOUS
      <4>2. /\ doing[v].thread \in Threads
            /\ floor[v] \in 0..time /\ floor[v] <= acked[doing[v].thread]
        BY <3>1, <4>1 DEF CallFits, CheckpointInv, CheckpointTypes
      <4>3. /\ acked[doing[v].thread] <= acked'[doing[v].thread]
            /\ acked[doing[v].thread] \in Int /\ acked'[doing[v].thread] \in Int
        BY <1>6, <4>2 DEF CheckpointInv, CheckpointTypes
      <4>. QED  BY <4>2, <4>3
    <3>. QED  BY <3>1, <3>2 DEF CallFits
  <2>. QED  BY <2>1, <2>2
<1>9. PutsTakeTurns'
  <2>1. \A v \in Procs : doing'[v].op = "put" => v # w /\ doing[v].op = "put" /\ doing'[v] = doing[v]
    BY <1>3, <1>4
  <2>2. \A v \in Procs : doing'[v].op = "put" => doing[v].id # doing[w].id
    BY <2>1 DEF CheckpointInv, PutsTakeTurns
  <2>3. ASSUME NEW v \in Procs, doing'[v].op = "put" /\ doing'[v].stamp > 0, NEW c \in new, c.id = doing'[v].id
        PROVE  c.stamp <= doing'[v].stamp
    <3>1. c \in points
      BY <1>2, <2>1, <2>2, <2>3
    <3>. QED  BY <2>1, <2>3, <3>1 DEF CheckpointInv, PutsTakeTurns
  <2>4. \A u, v \in Procs : doing'[u].op = "put" /\ doing'[v].op = "put" /\ doing'[u].id = doing'[v].id => u = v
    BY <2>1 DEF CheckpointInv, PutsTakeTurns
  <2>. QED  BY <1>1, <2>3, <2>4 DEF PutsTakeTurns
<1>10. AckedIsStored'
  <2>1. ASSUME NEW t \in Threads, acked'[t] > 0  PROVE \E c \in new : c.thread = t /\ c.stamp >= acked'[t]
    <3>1. CASE acked'[t] = acked[t]
      <4>1. PICK c \in points : c.thread = t /\ c.stamp >= acked[t]
        BY <2>1, <3>1 DEF CheckpointInv, AckedIsStored
      <4>2. PICK d \in new : d.thread = c.thread /\ d.stamp >= c.stamp
        BY <1>2
      <4>3. d.stamp \in Int /\ c.stamp \in Int /\ acked[t] \in Int
        BY <1>2 DEF CheckpointInv, CheckpointTypes, Checkpoint
      <4>. QED  BY <3>1, <4>1, <4>2, <4>3
    <3>2. CASE acked'[t] # acked[t]
      <4>1. t = doing[w].thread /\ acked'[t] = doing[w].stamp
        BY <3>2 DEF CheckpointInv, CheckpointTypes
      <4>2. PICK d \in new : d.thread = doing[w].thread /\ d.stamp = doing[w].stamp
        BY <1>2
      <4>. QED  BY <1>5, <4>1, <4>2
    <3>. QED  BY <3>1, <3>2
  <2>. QED  BY <1>1, <2>1 DEF AckedIsStored
<1>. QED  BY <1>1, <1>2, <1>7, <1>8, <1>9, <1>10 DEF CheckpointInv, KP!ResumesFromLast

\* The newest of what is listed is no older than what was acknowledged.
LEMMA NewestIsNoOlder ==
    ASSUME CheckpointInv, NEW t \in Threads
    PROVE  /\ \A c \in KP!Newest(KP!Listed(t)) : c \in points /\ c.stamp >= acked[t]
           /\ KP!Listed(t) = {} => acked[t] = 0
<1>. USE DEF CheckpointInv
<1>1. KP!Listed(t) \subseteq points
  BY DEF KP!Listed, KP!Candidates
<1>2. acked[t] \in Nat /\ \A c \in points : c.stamp \in Nat
  BY DEF CheckpointTypes, Checkpoint
<1>3. ASSUME acked[t] > 0  PROVE \E c \in KP!Listed(t) : c.stamp >= acked[t]
  <2>1. PICK c \in points : c.thread = t /\ c.stamp >= acked[t]
    BY <1>3 DEF AckedIsStored
  <2>2. c \in KP!Listed(t)
    BY <2>1, DerivedConstants DEF KP!ConstantsFit, KP!Listed, KP!Candidates
  <2>. QED  BY <2>1, <2>2
<1>4. ASSUME NEW c \in KP!Newest(KP!Listed(t))  PROVE c \in points /\ c.stamp >= acked[t]
  <2>1. c \in points /\ \A o \in KP!Listed(t) : o.stamp <= c.stamp
    BY <1>1 DEF KP!Newest
  <2>2. CASE acked[t] > 0
    <3>1. PICK o \in KP!Listed(t) : o.stamp >= acked[t]
      BY <1>3, <2>2
    <3>2. o.stamp <= c.stamp /\ o.stamp \in Nat /\ c.stamp \in Nat
      BY <1>1, <1>2, <2>1
    <3>. QED  BY <1>2, <2>1, <3>1, <3>2
  <2>. QED  BY <1>2, <2>1, <2>2
<1>. QED  BY <1>2, <1>3, <1>4

\* An answer ends a call.
LEMMA AnswersFit ==
    ASSUME CheckpointInv, NEW w \in Procs, NEW c, NEW least, KP!Answers(w, c, least),
           \/ c \in points /\ least \in Nat /\ least <= c.stamp
           \/ c = None /\ least = 0
    PROVE  CheckpointInv'
<1>1. \A x \in points : x # None /\ x.id \in KP!Ids /\ x.stamp \in Nat
  BY DerivedConstants DEF KP!ConstantsFit, CheckpointInv, CheckpointTypes, Checkpoint
<1>2. answer'.row = c /\ answer'.floor = least
  BY DEF KP!Answers
<1>3. KP!ResumesFromLast'
  BY <1>1, <1>2 DEF KP!ResumesFromLast
<1>4. floor' \in [Procs -> 0..time] /\ \A v \in Procs \ {w} : floor'[v] = floor[v]
  BY DEF KP!Answers, CheckpointInv, CheckpointTypes
<1>5. KP!Idle.op = "idle" /\ doing' = [doing EXCEPT ![w] = KP!Idle]
  BY CallShapes DEF KP!Answers, KP!Does
<1>6. CallFits(w)'
  BY <1>5, CallShapes DEF CallFits, CheckpointInv, CheckpointTypes
<1>. QED  BY <1>3, <1>4, <1>5, <1>6, CallsKeep DEF KP!Answers

\* Every step keeps what checkpoints promise.
LEMMA CheckpointsStay == ASSUME CheckpointInv, KP!Next PROVE CheckpointInv'
<1>. USE DEF CheckpointInv
<1>0. PICK w \in Procs :
        \/ \E t \in Threads :
              \/ KP!PutWrites(w, t)
              \/ \E s \in Spaces :
                    \/ KP!History(w, t, s)
                    \/ \E i \in KP!Ids : KP!Put(w, t, s, i)
                    \/ \E i \in {0} \cup KP!Ids : KP!Get(w, t, s, i)
        \/ KP!Stamp(w) \/ KP!Store(w) \/ KP!PutRaises(w) \/ KP!Load(w) \/ KP!List(w)
  BY DEF KP!Next
<1>1. ASSUME NEW t \in Threads, KP!PutWrites(w, t)  PROVE CheckpointInv'
  <2>1. time' = time + 1 /\ time' <= MaxTime /\ UNCHANGED <<points, owner, doing, acked, floor>> /\ answer' = None
    BY <1>1, DerivedConstants DEF KP!ConstantsFit, KP!PutWrites, KP!Silent, CheckpointTypes
  <2>2. CheckpointTypes'
    <3>1. time \in Nat /\ 0..time \subseteq 0..time' /\ 1..time \subseteq 1..time' /\ time' \in 0..MaxTime
      BY <2>1 DEF CheckpointTypes
    <3>2. points \subseteq Checkpoint' /\ acked \in [Threads -> 0..time'] /\ floor \in [Procs -> 0..time']
      BY <3>1 DEF CheckpointTypes, Checkpoint
    <3>. QED  BY <2>1, <3>1, <3>2 DEF CheckpointTypes
  <2>3. ASSUME NEW v \in Procs  PROVE CallFits(v)'
    <3>1. 0..time \subseteq 0..time'
      BY <2>1 DEF CheckpointTypes
    <3>. QED  BY <2>1, <3>1 DEF CallFits
  <2>. QED  BY <2>1, <2>2, <2>3 DEF PutsTakeTurns, AckedIsStored, KP!ResumesFromLast
<1>2. ASSUME NEW t \in Threads, NEW s \in Spaces, KP!History(w, t, s)  PROVE CheckpointInv'
  <2>1. PICK c \in KP!Listed(t) : answer' = [row |-> c, config |-> KP!Config(t, s, c), floor |-> 0]
    BY <1>2 DEF KP!History
  <2>2. c \in points
    BY DEF KP!Listed, KP!Candidates
  <2>3. c.id \in KP!Ids /\ c.stamp \in Nat
    BY <2>2 DEF CheckpointTypes, Checkpoint
  <2>4. KP!ResumesFromLast'
    BY <2>1, <2>3 DEF KP!ResumesFromLast
  <2>. QED  BY <1>2, <2>4 DEF KP!History, CheckpointTypes, Checkpoint, CallFits, PutsTakeTurns, AckedIsStored
<1>3. ASSUME NEW t \in Threads, NEW s \in Spaces, NEW i \in KP!Ids, KP!Put(w, t, s, i)  PROVE CheckpointInv'
  <2>1. /\ owner' = [owner EXCEPT ![i] = <<t, s>>] /\ doing' = [doing EXCEPT ![w] = KP!Call("put", t, s, i)]
        /\ UNCHANGED <<points, time, acked, floor>> /\ answer' = None
    BY <1>3 DEF KP!Put, KP!Does, KP!Silent
  <2>2. owner[i] \in {None, <<t, s>>} /\ \A v \in Procs : ~(doing[v].op = "put" /\ doing[v].id = i)
    BY <1>3 DEF KP!Put, KP!Is
  <2>3. CheckpointTypes'
    BY <2>1 DEF CheckpointTypes, Checkpoint
  <2>4. /\ doing'[w] = [op |-> "put", thread |-> t, space |-> s, id |-> i, stamp |-> 0]
        /\ \A v \in Procs \ {w} : doing'[v] = doing[v]
    BY <2>1 DEF CheckpointTypes, KP!Call
  <2>10. IsCall(doing'[w])
    BY <2>4 DEF IsCall
  <2>5. owner'[i] = <<t, s>> /\ \A j \in KP!Ids \ {i} : owner'[j] = owner[j]
    BY <2>1 DEF CheckpointTypes
  <2>6. ASSUME NEW v \in Procs  PROVE CallFits(v)'
    <3>1. CASE v = w
      <4>1. 0 \in 0..time
        BY DEF CheckpointTypes
      <4>. QED  BY <2>1, <2>4, <2>5, <2>10, <3>1, <4>1 DEF CallFits
    <3>2. CASE v # w
      <4>1. doing'[v] = doing[v] /\ CallFits(v)
        BY <2>4, <3>2
      <4>2. doing[v].op = "put" => owner'[doing[v].id] = owner[doing[v].id]
        BY <2>2, <2>5, <4>1 DEF CallFits
      <4>. QED  BY <2>1, <4>1, <4>2 DEF CallFits
    <3>. QED  BY <3>1, <3>2
  <2>7. PutsTakeTurns'
    <3>1. \A u, v \in Procs : doing'[u].op = "put" /\ doing'[v].op = "put" /\ doing'[u].id = doing'[v].id => u = v
      BY <2>2, <2>4 DEF PutsTakeTurns
    <3>. QED  BY <2>1, <2>4, <3>1 DEF PutsTakeTurns
  <2>8. \A c \in points' : owner'[c.id] = <<c.thread, c.space>>
    <3>1. ASSUME NEW c \in points, c.id = i  PROVE <<t, s>> = <<c.thread, c.space>>
      <4>1. owner[i] = <<c.thread, c.space>> /\ c.thread \in Threads /\ c.space \in Spaces
        BY <3>1 DEF CheckpointTypes, Checkpoint
      <4>2. owner[i] # None
        BY <4>1, DerivedConstants DEF KP!ConstantsFit
      <4>. QED  BY <2>2, <4>1, <4>2
    <3>2. \A c \in points : c.id \in KP!Ids
      BY DEF CheckpointTypes, Checkpoint
    <3>. QED  BY <2>1, <2>5, <3>1, <3>2
  <2>9. AckedIsStored' /\ KP!ResumesFromLast'
    BY <2>1 DEF AckedIsStored, KP!ResumesFromLast
  <2>. QED  BY <2>3, <2>6, <2>7, <2>8, <2>9
<1>4. ASSUME NEW t \in Threads, NEW s \in Spaces, NEW i \in {0} \cup KP!Ids, KP!Get(w, t, s, i)  PROVE CheckpointInv'
  <2>. DEFINE new == KP!Call(IF i = 0 THEN "list" ELSE "load", t, s, i)
  <2>1. /\ doing' = [doing EXCEPT ![w] = new] /\ floor' = [floor EXCEPT ![w] = acked[t]]
        /\ UNCHANGED <<points, owner, time, acked>> /\ answer' = None
    BY <1>4 DEF KP!Get, KP!Does, KP!Silent
  <2>2. new.op \in {"list", "load"} /\ new.thread = t /\ IsCall(new)
    BY CallShapes
  <2>3. floor' \in [Procs -> 0..time] /\ floor'[w] = acked[t] /\ \A v \in Procs \ {w} : floor'[v] = floor[v]
    BY <2>1 DEF CheckpointTypes
  <2>4. doing'[w] = new
    BY <2>1 DEF CheckpointTypes
  <2>5. acked[t] \in Int /\ acked' = acked
    BY <2>1 DEF CheckpointTypes
  <2>. HIDE DEF new
  <2>6. CallFits(w)'
    BY <2>2, <2>3, <2>4, <2>5 DEF CallFits
  <2>7. KP!ResumesFromLast' /\ new.op # "put"
    BY <2>1, <2>2 DEF KP!ResumesFromLast
  <2>. QED  BY <2>1, <2>3, <2>6, <2>7, CallsKeep
<1>5. CASE KP!Stamp(w)
  <2>1. /\ doing[w].op = "put" /\ time' = time + 1 /\ time' <= MaxTime
        /\ doing' = [doing EXCEPT ![w].stamp = time + 1]
        /\ UNCHANGED <<points, owner, acked, floor>> /\ answer' = None
    BY <1>5, DerivedConstants DEF KP!ConstantsFit, KP!Stamp, KP!Is, KP!Silent, CheckpointTypes
  <2>2. PICK new : new = [doing[w] EXCEPT !.stamp = time + 1]
    OBVIOUS
  <2>3. /\ doing' = [doing EXCEPT ![w] = new]
        /\ doing'[w] = new /\ \A v \in Procs \ {w} : doing'[v] = doing[v]
    BY <2>1, <2>2 DEF CheckpointTypes
  <2>4. CheckpointTypes'
    <3>1. time \in Nat /\ 0..time \subseteq 0..time' /\ 1..time \subseteq 1..time' /\ time' \in 0..MaxTime
      BY <2>1 DEF CheckpointTypes
    <3>2. points \subseteq Checkpoint' /\ acked \in [Threads -> 0..time'] /\ floor \in [Procs -> 0..time']
      BY <3>1 DEF CheckpointTypes, Checkpoint
    <3>. QED  BY <2>1, <2>3, <3>1, <3>2 DEF CheckpointTypes
  <2>5. /\ IsCall(new) /\ new.op = "put" /\ new.thread = doing[w].thread /\ new.space = doing[w].space
        /\ new.id = doing[w].id /\ new.stamp = time + 1
    <3>1. IsCall(doing[w])
      BY DEF CallFits
    <3>. QED  BY <2>1, <2>2, <3>1, CallShapes
  <2>6. CallFits(w)'
    <3>1. time + 1 \in 0..time'
      BY <2>1 DEF CheckpointTypes
    <3>. QED  BY <2>1, <2>3, <2>5, <3>1 DEF CallFits
  <2>7. ASSUME NEW v \in Procs \ {w}  PROVE CallFits(v)'
    <3>1. 0..time \subseteq 0..time'
      BY <2>1 DEF CheckpointTypes
    <3>. QED  BY <2>1, <2>3, <3>1 DEF CallFits
  <2>8. PutsTakeTurns'
    <3>1. \A v \in Procs : doing'[v].op = "put" => doing[v].op = "put" /\ doing'[v].id = doing[v].id
      BY <2>1, <2>3, <2>5
    <3>2. \A u, v \in Procs : doing'[u].op = "put" /\ doing'[v].op = "put" /\ doing'[u].id = doing'[v].id => u = v
      BY <3>1 DEF PutsTakeTurns
    <3>3. \A c \in points : c.stamp <= time + 1
      BY DEF CheckpointTypes, Checkpoint
    <3>4. ASSUME NEW v \in Procs, doing'[v].op = "put" /\ doing'[v].stamp > 0, NEW c \in points, c.id = doing'[v].id
          PROVE  c.stamp <= doing'[v].stamp
      <4>1. CASE v = w
        BY <2>3, <2>5, <3>3, <4>1
      <4>2. CASE v # w
        BY <2>3, <3>4, <4>2 DEF PutsTakeTurns
      <4>. QED  BY <4>1, <4>2
    <3>. QED  BY <2>1, <3>2, <3>4 DEF PutsTakeTurns
  <2>. QED  BY <2>1, <2>4, <2>6, <2>7, <2>8 DEF AckedIsStored, KP!ResumesFromLast
<1>6. CASE KP!Store(w)
  BY <1>6, StoringCheckpoints DEF KP!Store, KP!Is, KP!Does, KP!Silent
<1>7. CASE KP!PutRaises(w)
  <2>1. CASE points' = points
    <3>1. KP!Idle.op = "idle" /\ doing' = [doing EXCEPT ![w] = KP!Idle]
      BY <1>7, CallShapes DEF KP!PutRaises, KP!Does
    <3>2. UNCHANGED <<owner, time, acked, floor>> /\ answer' = None
      BY <1>7 DEF KP!PutRaises, KP!Silent
    <3>3. CallFits(w)'
      BY <3>1, CallShapes DEF CallFits, CheckpointTypes
    <3>4. floor' \in [Procs -> 0..time]
      BY <3>2 DEF CheckpointTypes
    <3>. QED  BY <2>1, <3>1, <3>2, <3>3, <3>4, CallsKeep DEF KP!ResumesFromLast
  <2>2. CASE doing[w].stamp > 0 /\ points' = KP!Stored(doing[w])
    BY <1>7, <2>2, StoringCheckpoints DEF KP!PutRaises, KP!Is, KP!Does, KP!Silent
  <2>. QED  BY <1>7, <2>1, <2>2 DEF KP!PutRaises
<1>8. CASE KP!Load(w)
  <2>1. CASE \E c \in points : KP!Answers(w, c, 0)
    <3>1. \A c \in points : 0 <= c.stamp
      BY DEF CheckpointTypes, Checkpoint
    <3>. QED  BY <2>1, <3>1, AnswersFit
  <2>2. CASE doing' = [doing EXCEPT ![w].op = "list"] /\ KP!Silent /\ UNCHANGED <<points, tasks, owner, time, acked, floor>>
    <3>1. PICK new : new = [doing[w] EXCEPT !.op = "list"]
      OBVIOUS
    <3>2. IsCall(new) /\ new.op = "list" /\ new.thread = doing[w].thread
      <4>1. IsCall(doing[w])
        BY DEF CallFits
      <4>. QED  BY <3>1, <4>1, CallShapes
    <3>3. doing' = [doing EXCEPT ![w] = new] /\ doing'[w] = new
      BY <2>2, <3>1 DEF CheckpointTypes
    <3>4. CallFits(w)'
      <4>1. doing[w].op = "load"
        BY <1>8 DEF KP!Load, KP!Is
      <4>. QED  BY <2>2, <3>2, <3>3, <4>1 DEF CallFits
    <3>5. floor' \in [Procs -> 0..time] /\ answer' = None /\ new.op # "put"
      BY <2>2, <3>2 DEF CheckpointTypes, KP!Silent
    <3>. QED  BY <2>2, <3>3, <3>4, <3>5, CallsKeep DEF KP!ResumesFromLast
  <2>. QED  BY <1>8, <2>1, <2>2 DEF KP!Load
<1>9. CASE KP!List(w)
  <2>1. doing[w].op = "list" /\ doing[w].thread \in Threads /\ floor[w] <= acked[doing[w].thread]
    BY <1>9 DEF KP!List, KP!Is, CallFits
  <2>2. floor[w] \in Nat /\ acked[doing[w].thread] \in Nat /\ \A c \in points : c.stamp \in Nat
    BY <2>1 DEF CheckpointTypes, Checkpoint
  <2>3. ASSUME NEW c \in KP!Newest(KP!Listed(doing[w].thread)), KP!Answers(w, c, floor[w])  PROVE CheckpointInv'
    <3>1. c \in points /\ c.stamp >= acked[doing[w].thread]
      BY <2>1, NewestIsNoOlder
    <3>2. floor[w] <= c.stamp
      BY <2>1, <2>2, <3>1
    <3>. QED  BY <2>2, <2>3, <3>1, <3>2, AnswersFit
  <2>4. ASSUME KP!Listed(doing[w].thread) = {}, KP!Answers(w, None, floor[w])  PROVE CheckpointInv'
    <3>1. floor[w] = 0
      BY <2>1, <2>2, <2>4, NewestIsNoOlder
    <3>. QED  BY <2>4, <3>1, AnswersFit
  <2>. QED  BY <1>9, <2>3, <2>4 DEF KP!List
<1>. QED  BY <1>0, <1>1, <1>2, <1>3, <1>4, <1>5, <1>6, <1>7, <1>8, <1>9

LEMMA CheckpointsAreRight == ASSUME CheckpointInv PROVE KP!TypeOK /\ KP!ResumesFromLast
BY DEF CheckpointInv, CheckpointTypes, CallFits, KP!TypeOK, Checkpoint

-----------------------------------------------------------------------------
(* The purge of a key on a SQLite file, for any number of processes *)

\* Value v is not in the file.
NotInFile(v) == v \notin {RowVal} \cup Logged \cup payloads \cup mentions \cup words

\* What a purge reported gone is nowhere, and nobody holds it to write it again.
GoneForGood ==
    \A g \in gone :
        /\ NotInFile(g[2])
        /\ g[2] \notin {slot[g[1]], belief[g[1]]} \cup records[g[1]]
        /\ \A p \in Procs : g[2] \notin {slot[p], call[p].val, call[p].old}

\* A forget has removed value v from where it has been: each of its steps is one
\* place less for the value to be in.
RemovedSoFar(p, v) ==
    /\ call[p].at \notin {"idle", "save", "project", "event", "log"}
    /\ call[p].at # "load" => slot[p] = 0
    /\ call[p].at \notin {"load", "delete"} => RowVal # v /\ belief[p] = 0
    /\ call[p].at = "empty" => \A r \in log : v \in r.vals => r \in call[p].rows
    /\ call[p].at \in {"payloads", "mentions", "compact", "redact"} => v \notin Logged
    /\ call[p].at \in {"mentions", "compact", "redact"} => v \notin payloads
    /\ call[p].at \in {"compact", "redact"} => v \notin mentions
    /\ call[p].at = "redact" => v \notin words

\* A forget answers for values nobody else holds, and is as far as its step says.
ForgetsOnCourse ==
    \A p \in Procs : \A v \in call[p].seen : v \notin HeldByOthers(p) /\ RemovedSoFar(p, v)

\* While something is captured that has to be found, no purge is past the captures.
CapturesComeFirst ==
    captured /\ ~loose => \A p \in Procs : call[p].at \notin History \ {"captures"}

\* What is captured leaves a trace the gate sees, or is about to.
CapturesLeadBack ==
    captured /\ ~loose =>
        \/ row # None \/ log # {} \/ payloads # {}
        \/ \E p \in Procs : call[p].at = "log forget" /\ call[p].old # 0

IInv == TypeOK /\ GoneForGood /\ ForgetsOnCourse /\ CapturesComeFirst /\ CapturesLeadBack

-----------------------------------------------------------------------------
(* The steps of a purge, and types *)

\* The steps of a purge, and which follows which.
LEMMA PurgeSteps ==
    /\ History = {"captures", "select", "empty", "payloads", "mentions", "compact", "redact"}
    /\ PurgeOrder[1] = "captures"
    /\ NextStep("captures") = "select" /\ NextStep("select") = "empty"
    /\ NextStep("empty") = "payloads" /\ NextStep("payloads") = "mentions"
    /\ NextStep("mentions") = "compact" /\ NextStep("compact") = "redact"
<1>1. DOMAIN PurgeOrder = 1..7
  BY DEF PurgeOrder
<1>2. /\ PurgeOrder[1] = "captures" /\ PurgeOrder[2] = "select" /\ PurgeOrder[3] = "empty"
      /\ PurgeOrder[4] = "payloads" /\ PurgeOrder[5] = "mentions" /\ PurgeOrder[6] = "compact"
      /\ PurgeOrder[7] = "redact"
  BY DEF PurgeOrder
<1>3. 1..7 = {1, 2, 3, 4, 5, 6, 7}
  OBVIOUS
<1>4. History = {"captures", "select", "empty", "payloads", "mentions", "compact", "redact"}
  BY <1>1, <1>2, <1>3 DEF History
<1>5. ASSUME NEW n \in 1..6, NEW at, PurgeOrder[n] = at  PROVE NextStep(at) = PurgeOrder[1 + n]
  <2>1. \A i \in 1..7 : PurgeOrder[i] = at <=> i = n
    BY <1>2, <1>3, <1>5
  <2>2. (CHOOSE i \in DOMAIN PurgeOrder : PurgeOrder[i] = at) = n
    BY <1>1, <2>1
  <2>. QED  BY <2>2 DEF NextStep
<1>6. /\ NextStep("captures") = PurgeOrder[1 + 1] /\ NextStep("select") = PurgeOrder[1 + 2]
      /\ NextStep("empty") = PurgeOrder[1 + 3] /\ NextStep("payloads") = PurgeOrder[1 + 4]
      /\ NextStep("mentions") = PurgeOrder[1 + 5] /\ NextStep("compact") = PurgeOrder[1 + 6]
  BY <1>2, <1>5
<1>. QED  BY <1>2, <1>4, <1>6

\* What a step may read.
LEMMA Typed ==
    ASSUME TypeOK
    PROVE  /\ RowVal \in Values \cup {0} /\ (row = None <=> RowVal = 0)
           /\ Logged \subseteq Values
           /\ \A p \in Procs : call[p] \in Calls /\ slot[p] \in Values \cup {0} /\ belief[p] \in Values \cup {0}
           /\ writes \in Nat /\ 1..writes \subseteq Values
BY NoneAssumption, BoundAssumption DEF TypeOK, RowVal, Logged, Values

\* Who may be at which step.
Fits(c) ==
    /\ c.at \in History => c.purge
    /\ c.at \in {"save", "project", "event", "log"} => c.val # 0

\* Types hold at the start,
LEMMA InitTypeOK == Init => TypeOK
<1>. SUFFICES ASSUME Init  PROVE TypeOK
  OBVIOUS
<1>1. NoCall \in Calls /\ Fits(NoCall)
  BY PurgeSteps DEF NoCall, Calls, Stages, Fits
<1>2. call \in [Procs -> Calls] /\ \A p \in Procs : Fits(call[p])
  BY <1>1 DEF Init
<1>3. slot \in [Procs -> Values \cup {0}] /\ belief \in [Procs -> Values \cup {0}] /\ records \in [Procs -> SUBSET Values]
  BY DEF Init
<1>4. rowCount \in Nat /\ writes \in 0..MaxWrites /\ faults \in 0..MaxFaults
  BY BoundAssumption DEF Init
<1>. QED  BY <1>2, <1>3, <1>4 DEF Init, TypeOK, Fits

\* A call that goes on, with more writes or rows than before, keeps its type.
LEMMA CallsGrow ==
    ASSUME TypeOK, writes' \in Nat, writes <= writes', rowCount' \in Nat, rowCount <= rowCount'
    PROVE  /\ Calls \subseteq Calls'
           /\ log \subseteq [id : 1..rowCount', vals : SUBSET Values]
           /\ gone \subseteq Procs \X (1..writes')
<1>1. 1..writes \subseteq 1..writes' /\ 1..rowCount \subseteq 1..rowCount'
  BY DEF TypeOK
<1>2. [id : 1..rowCount, vals : SUBSET Values] \subseteq [id : 1..rowCount', vals : SUBSET Values]
  BY <1>1
<1>3. Calls \subseteq Calls'
  BY <1>1, <1>2 DEF Calls, Values, Stages, History, PurgeOrder
<1>. QED  BY <1>1, <1>2, <1>3 DEF TypeOK

\* An audit row keeps the log's type.
LEMMA AddRowType ==
    ASSUME TypeOK, NEW vals \in SUBSET (Values \cup {0}), AddRow(vals)
    PROVE  /\ rowCount' \in Nat /\ rowCount <= rowCount'
           /\ log' \subseteq [id : 1..rowCount', vals : SUBSET Values] /\ \A r \in log' : r.vals # {}
           /\ log \subseteq log'
           /\ \A r \in log' \ log : r.vals \subseteq vals
           /\ ~(vals \subseteq {0}) => log' # {}
<1>1. CASE vals \subseteq {0}
  BY <1>1 DEF AddRow, TypeOK
<1>2. CASE ~(vals \subseteq {0})
  <2> DEFINE new == [id |-> rowCount + 1, vals |-> vals \ {0}]
  <2>1. log' = log \cup {new} /\ rowCount' = rowCount + 1
    BY <1>2 DEF AddRow
  <2>2. vals \ {0} \subseteq Values /\ vals \ {0} # {}
    BY <1>2
  <2>3. rowCount' \in Nat /\ rowCount <= rowCount' /\ 1..rowCount \subseteq 1..rowCount' /\ rowCount + 1 \in 1..rowCount'
    BY <2>1 DEF TypeOK
  <2>4. new \in [id : 1..rowCount', vals : SUBSET Values]
    BY <2>2, <2>3
  <2>5. log \subseteq [id : 1..rowCount', vals : SUBSET Values]
    BY <2>3 DEF TypeOK
  <2>6. \A r \in log' \ log : r.vals = vals \ {0}
    BY <2>1
  <2>7. new.vals # {}
    BY <2>2
  <2>. HIDE DEF new
  <2>8. log' \subseteq [id : 1..rowCount', vals : SUBSET Values] /\ \A r \in log' : r.vals # {}
    BY <2>1, <2>4, <2>5, <2>7 DEF TypeOK
  <2>. QED  BY <2>1, <2>3, <2>6, <2>8
<1>. QED  BY <1>1, <1>2

\* A call that ends, or goes on to another step.
LEMMA CallOK ==
    /\ NoCall \in Calls /\ Fits(NoCall)
    /\ \A c \in Calls, at \in Stages :
          /\ [c EXCEPT !.at = at] \in Calls
          /\ /\ at \in History => c.purge
             /\ at \in {"save", "project", "event", "log"} => c.val # 0
             => Fits([c EXCEPT !.at = at])
<1>1. NoCall \in Calls /\ Fits(NoCall)
  BY PurgeSteps DEF NoCall, Calls, Stages, Fits
<1>2. ASSUME NEW c \in Calls, NEW at \in Stages
      PROVE  LET d == [c EXCEPT !.at = at]
             IN  d \in Calls /\ d.at = at /\ d.purge = c.purge /\ d.val = c.val
  BY DEF Calls
<1>. QED  BY <1>1, <1>2 DEF Fits

\* A step of a call keeps their types, if it does its own.
LEMMA CallTypes ==
    ASSUME TypeOK, NEW p \in Procs, NEW c \in Calls', Fits(c), Calls \subseteq Calls',
           call' = [call EXCEPT ![p] = c] \/ Reads(p, c)
    PROVE  call' \in [Procs -> Calls'] /\ \A q \in Procs : Fits(call'[q])
<1>1. \A q \in Procs : call[q] \in Calls' /\ Fits(call[q])
  BY DEF TypeOK, Fits
<1>2. CASE call' = [call EXCEPT ![p] = c]
  BY <1>1, <1>2 DEF TypeOK
<1>3. CASE Reads(p, c)
  <2>1. \A q \in Procs : [call[q] EXCEPT !.seen = @ \ {RowVal}] \in Calls' /\ Fits([call[q] EXCEPT !.seen = @ \ {RowVal}])
    BY <1>1 DEF Calls, Fits
  <2>. QED  BY <1>3, <2>1 DEF Reads
<1>. QED  BY <1>2, <1>3

\* and after every step.
LEMMA NextTypeOK == TypeOK /\ [Next]_pvars => TypeOK'
<1>. SUFFICES ASSUME TypeOK, [Next]_pvars  PROVE TypeOK'
  OBVIOUS
<1>. USE DEF file, memory
<1>0. CASE UNCHANGED pvars
  BY <1>0 DEF pvars, TypeOK, Calls
<1>1. ASSUME NEW p \in Procs, Write(p)  PROVE TypeOK'
  <2>1. writes' = writes + 1 /\ writes' \in 0..MaxWrites /\ writes' \in Values /\ rowCount' = rowCount
    BY <1>1, BoundAssumption DEF Write, TypeOK, Values
  <2>2. Calls \subseteq Calls' /\ gone \subseteq Procs \X (1..writes')
    BY <2>1, CallsGrow DEF TypeOK
  <2>3. PICK known \in {belief[p], RowVal}, wins \in BOOLEAN :
          /\ belief' = [belief EXCEPT ![p] = IF wins THEN writes + 1 ELSE known]
          /\ records' = [records EXCEPT ![p] = @ \cup (IF wins THEN {writes + 1} ELSE {})
                                              \cup (IF known # belief[p] THEN {belief[p]} \ {0} ELSE {})]
          /\ Reads(p, IF wins THEN [NoCall EXCEPT !.at = "save", !.val = writes + 1, !.old = RowVal]
                      ELSE NoCall)
    BY <1>1 DEF Write
  <2>4. known \in Values \cup {0} /\ RowVal \in Values \cup {0} /\ belief[p] \in Values \cup {0}
    BY Typed
  <2> DEFINE c == IF wins THEN [NoCall EXCEPT !.at = "save", !.val = writes + 1, !.old = RowVal] ELSE NoCall
  <2>5. c \in Calls /\ Fits(c)
    <3>1. CASE wins
      <4>1. c = [at |-> "save", val |-> writes + 1, old |-> RowVal, purge |-> FALSE, rows |-> {}, seen |-> {}]
        BY <3>1 DEF NoCall
      <4>. HIDE DEF c
      <4>. QED  BY <2>1, <2>4, <4>1, PurgeSteps DEF Calls, Stages, Fits, Values
    <3>. QED  BY <3>1, CallOK
  <2>. HIDE DEF c
  <2>6. call' \in [Procs -> Calls'] /\ \A q \in Procs : Fits(call'[q])
    BY <2>2, <2>3, <2>5, CallTypes DEF c
  <2>7. belief' \in [Procs -> Values \cup {0}] /\ records' \in [Procs -> SUBSET Values]
    BY <2>1, <2>3, <2>4 DEF TypeOK
  <2>. QED  BY <1>1, <2>1, <2>2, <2>6, <2>7 DEF Write, TypeOK, Fits
<1>2. ASSUME NEW p \in Procs, Save(p) \/ Project(p) \/ Event(p)  PROVE TypeOK'
  <2>1. call[p] \in Calls /\ call[p].val \in Values /\ Calls' = Calls
    BY <1>2, Typed DEF TypeOK, Save, Project, Event, Calls
  <2>2. PICK at \in {"project", "event", "log"} : call' = [call EXCEPT ![p].at = at]
    BY <1>2 DEF Save, Project, Event, To
  <2>3. [call[p] EXCEPT !.at = at] \in Calls /\ Fits([call[p] EXCEPT !.at = at])
    <3>1. at \in Stages /\ at \notin History
      BY PurgeSteps DEF Stages
    <3>2. call[p].val # 0
      BY <2>1 DEF Values
    <3>. QED  BY <2>1, <3>1, <3>2, CallOK
  <2>4. call' \in [Procs -> Calls'] /\ \A q \in Procs : Fits(call'[q])
    BY <2>1, <2>2, <2>3, CallTypes
  <2>5. CASE Save(p)
    BY <2>1, <2>4, <2>5 DEF Save, TypeOK, Fits
  <2>6. CASE Project(p)
    BY <2>1, <2>4, <2>6 DEF Project, TypeOK, Fits
  <2>7. CASE Event(p)
    BY <2>1, <2>4, <2>7 DEF Event, TypeOK, Fits
  <2>. QED  BY <1>2, <2>5, <2>6, <2>7
<1>3. ASSUME NEW p \in Procs, LogWrite(p) \/ ForgetLog(p)  PROVE TypeOK'
  <2>1. call[p] \in Calls /\ {call[p].old, call[p].val} \subseteq Values \cup {0} /\ writes' = writes
    BY <1>3, Typed DEF LogWrite, ForgetLog, Calls
  <2>2. PICK vals \in SUBSET (Values \cup {0}) : AddRow(vals)
    BY <1>3, <2>1 DEF LogWrite, ForgetLog
  <2>3. /\ rowCount' \in Nat /\ rowCount <= rowCount'
        /\ log' \subseteq [id : 1..rowCount', vals : SUBSET Values] /\ \A r \in log' : r.vals # {}
    BY <2>2, AddRowType
  <2>4. writes \in Nat /\ Calls \subseteq Calls'
    BY <2>1, <2>3, CallsGrow, Typed
  <2>5. PICK c \in {NoCall, [call[p] EXCEPT !.at = "event forget"]} : call' = [call EXCEPT ![p] = c]
    BY <1>3 DEF LogWrite, ForgetLog, To
  <2>6. c \in Calls /\ Fits(c)
    <3>1. "event forget" \in Stages /\ "event forget" \notin History
      BY PurgeSteps DEF Stages
    <3>. QED  BY <2>1, <2>5, <3>1, CallOK
  <2>7. call' \in [Procs -> Calls'] /\ \A q \in Procs : Fits(call'[q])
    BY <2>4, <2>5, <2>6, CallTypes
  <2>. QED  BY <1>3, <2>3, <2>7 DEF LogWrite, ForgetLog, TypeOK, Fits
<1>4. ASSUME NEW p \in Procs, Recall(p)  PROVE TypeOK'
  BY <1>4 DEF Recall, TypeOK, Calls
<1>5. ASSUME NEW p \in Procs, Consolidate(p)  PROVE TypeOK'
  <2>1. slot[p] \in Values /\ slot' = [slot EXCEPT ![p] = 0] /\ writes' = writes /\ call' = call
    BY <1>5, Typed DEF Consolidate
  <2>2. /\ rowCount' \in Nat /\ rowCount <= rowCount'
        /\ log' \subseteq [id : 1..rowCount', vals : SUBSET Values] /\ \A r \in log' : r.vals # {}
    <3>1. CASE AddRow({slot[p]})
      BY <2>1, <3>1, AddRowType
    <3>2. CASE log' = log /\ rowCount' = rowCount
      BY <3>2 DEF TypeOK
    <3>. QED  BY <1>5, <3>1, <3>2 DEF Consolidate
  <2>3. Calls \subseteq Calls'
    BY <2>1, <2>2, CallsGrow, Typed
  <2>4. row' \in [val : Values, lasting : BOOLEAN] \cup {None} /\ words' \subseteq Values
    <3>1. [val |-> slot[p], lasting |-> TRUE] \in [val : Values, lasting : BOOLEAN]
      BY <2>1
    <3>2. \/ row' = row /\ words' = words
          \/ row' = [val |-> slot[p], lasting |-> TRUE] /\ words' = words \cup {slot[p]}
      BY <1>5 DEF Consolidate
    <3>. QED  BY <2>1, <3>1, <3>2 DEF TypeOK
  <2>. QED  BY <1>5, <2>1, <2>2, <2>3, <2>4 DEF Consolidate, TypeOK
<1>6. ASSUME NEW p \in Procs, NEW purge \in BOOLEAN, Forget(p, purge)  PROVE TypeOK'
  <2>1. PICK start \in {"load", "captures"} :
          /\ start = IF Present(p) THEN "load" ELSE PurgeOrder[1]
          /\ start = "captures" => purge
    BY <1>6, PurgeSteps DEF Forget
  <2>2. PICK there \in SUBSET (1..writes), d \in Calls :
          \E c : /\ there = (1..writes) \ HeldByOthers(p) /\ d = NoCall
                 /\ c = [d EXCEPT !.at = start, !.purge = purge, !.seen = there]
    BY CallOK
  <2>a. PICK c : /\ there = (1..writes) \ HeldByOthers(p) /\ d = NoCall
                 /\ c = [d EXCEPT !.at = start, !.purge = purge, !.seen = there]
    BY <2>2
  <2>3. call' = [call EXCEPT ![p] = c] /\ Calls' = Calls
    BY <1>6, <2>1, <2>a DEF Forget, Calls
  <2>4. c \in Calls /\ Fits(c)
    <3>1. start \in Stages
      BY PurgeSteps DEF Stages
    <3>2. c \in Calls /\ c.at = start /\ (purge => c.purge)
      BY <2>a, <3>1 DEF Calls
    <3>. QED  BY <2>1, <3>2, PurgeSteps DEF Fits
  <2>5. call' \in [Procs -> Calls'] /\ \A q \in Procs : Fits(call'[q])
    BY <2>3, <2>4, CallTypes
  <2>. QED  BY <1>6, <2>3, <2>5 DEF Forget, TypeOK, Fits
<1>7. ASSUME NEW p \in Procs, ForgetLoad(p)  PROVE TypeOK'
  <2> DEFINE c == [call[p] EXCEPT !.at = "delete", !.old = RowVal]
  <2>1. c \in Calls /\ Fits(c)
    BY Typed, PurgeSteps DEF Calls, Stages, Fits
  <2>2. Reads(p, c) /\ Calls' = Calls
    BY <1>7 DEF ForgetLoad, Calls
  <2>. HIDE DEF c
  <2>3. call' \in [Procs -> Calls'] /\ \A q \in Procs : Fits(call'[q])
    BY <2>1, <2>2, CallTypes
  <2>. QED  BY <1>7, <2>2, <2>3 DEF ForgetLoad, TypeOK, Fits
<1>8. ASSUME NEW p \in Procs, ForgetDelete(p)  PROVE TypeOK'
  <2>1. call[p] \in Calls /\ Calls' = Calls /\ belief[p] \in Values \cup {0}
    BY <1>8, Typed DEF ForgetDelete, Calls
  <2>2. "log forget" \in Stages /\ "log forget" \notin History
    BY PurgeSteps DEF Stages
  <2>3. [call[p] EXCEPT !.at = "log forget"] \in Calls /\ Fits([call[p] EXCEPT !.at = "log forget"])
    BY <2>1, <2>2, CallOK
  <2>4. call' \in [Procs -> Calls'] /\ \A q \in Procs : Fits(call'[q])
    BY <1>8, <2>1, <2>3, CallTypes DEF ForgetDelete, To
  <2>5. records' \in [Procs -> SUBSET Values] /\ belief' \in [Procs -> Values \cup {0}]
    BY <1>8, <2>1 DEF ForgetDelete, TypeOK
  <2>. QED  BY <1>8, <2>1, <2>4, <2>5 DEF ForgetDelete, TypeOK, Fits
<1>9. ASSUME NEW p \in Procs, ForgetEvent(p)  PROVE TypeOK'
  <2>1. call[p] \in Calls /\ Calls' = Calls
    BY <1>9, Typed DEF ForgetEvent, Calls
  <2> DEFINE c == IF call[p].purge THEN [call[p] EXCEPT !.at = "captures"] ELSE NoCall
  <2>2. call' = [call EXCEPT ![p] = c]
    BY <1>9, PurgeSteps DEF ForgetEvent
  <2>3. c \in Calls /\ Fits(c)
    <3>1. "captures" \in Stages
      BY PurgeSteps DEF Stages
    <3>. QED  BY <2>1, <3>1, CallOK
  <2>. HIDE DEF c
  <2>4. call' \in [Procs -> Calls'] /\ \A q \in Procs : Fits(call'[q])
    BY <2>1, <2>2, <2>3, CallTypes
  <2>. QED  BY <1>9, <2>1, <2>4 DEF ForgetEvent, TypeOK, Fits
<1>10. ASSUME NEW p \in Procs,
              \/ PurgeCaptures(p) \/ PurgeEmpty(p) \/ PurgePayloads(p)
              \/ PurgeMentions(p) \/ PurgeCompact(p)
       PROVE  TypeOK'
  <2>1. call[p] \in Calls /\ Calls' = Calls /\ call[p].at \in History /\ call[p].purge
    BY <1>10, Typed, PurgeSteps DEF PurgeCaptures, PurgeEmpty, PurgePayloads, PurgeMentions, PurgeCompact, TypeOK, Calls
  <2>2. PICK at \in {"select", "payloads", "mentions", "compact", "redact"} : call' = [call EXCEPT ![p].at = at]
    BY <1>10, PurgeSteps DEF PurgeCaptures, PurgeEmpty, PurgePayloads, PurgeMentions, PurgeCompact, To
  <2>3. [call[p] EXCEPT !.at = at] \in Calls /\ Fits([call[p] EXCEPT !.at = at])
    <3>1. at \in Stages /\ at \notin {"save", "project", "event", "log"}
      BY <2>2, PurgeSteps DEF Stages
    <3>. QED  BY <2>1, <3>1, CallOK
  <2>4. call' \in [Procs -> Calls'] /\ \A q \in Procs : Fits(call'[q])
    BY <2>1, <2>2, <2>3, CallTypes
  <2>5. CASE PurgeCaptures(p)
    BY <2>1, <2>4, <2>5 DEF PurgeCaptures, TypeOK, Fits
  <2>6. CASE PurgeEmpty(p)
    BY <2>1, <2>4, <2>6 DEF PurgeEmpty, TypeOK, Fits
  <2>7. CASE PurgePayloads(p)
    BY <2>1, <2>4, <2>7 DEF PurgePayloads, TypeOK, Fits
  <2>8. CASE PurgeMentions(p)
    BY <2>1, <2>4, <2>8 DEF PurgeMentions, TypeOK, Fits
  <2>9. CASE PurgeCompact(p)
    BY <2>1, <2>4, <2>9 DEF PurgeCompact, TypeOK, Fits
  <2>. QED  BY <1>10, <2>5, <2>6, <2>7, <2>8, <2>9
<1>11. ASSUME NEW p \in Procs, PurgeSelect(p)  PROVE TypeOK'
  <2>1. call[p] \in Calls /\ Calls' = Calls /\ call[p].purge
    BY <1>11, Typed, PurgeSteps DEF PurgeSelect, TypeOK, Calls
  <2> DEFINE c == [call[p] EXCEPT !.at = "empty", !.rows = log]
  <2>2. call' = [call EXCEPT ![p] = c]
    BY <1>11, PurgeSteps DEF PurgeSelect
  <2>3. c \in Calls /\ Fits(c)
    BY <2>1, PurgeSteps DEF Calls, Stages, Fits, TypeOK
  <2>. HIDE DEF c
  <2>4. call' \in [Procs -> Calls'] /\ \A q \in Procs : Fits(call'[q])
    BY <2>1, <2>2, <2>3, CallTypes
  <2>. QED  BY <1>11, <2>1, <2>4 DEF PurgeSelect, TypeOK, Fits
<1>12. ASSUME NEW p \in Procs, PurgeRedact(p)  PROVE TypeOK'
  <2>1. call[p] \in Calls /\ Calls' = Calls
    BY <1>12, Typed DEF PurgeRedact, Calls
  <2>2. call' \in [Procs -> Calls'] /\ \A q \in Procs : Fits(call'[q])
    BY <1>12, <2>1, CallOK, CallTypes DEF PurgeRedact
  <2>3. gone' \subseteq Procs \X (1..writes)
    BY <1>12, <2>1 DEF PurgeRedact, Calls, TypeOK
  <2>. QED  BY <1>12, <2>1, <2>2, <2>3 DEF PurgeRedact, TypeOK, Fits
<1>13. ASSUME NEW p \in Procs, Swallowed(p)  PROVE TypeOK'
  <2>1. call[p] \in Calls /\ Calls' = Calls /\ Fits(call[p]) /\ faults' \in 0..MaxFaults
    BY <1>13, Typed, BoundAssumption DEF Swallowed, Calls, TypeOK, Fits
  <2> DEFINE c == IF call[p].at = "project" THEN [call[p] EXCEPT !.at = "event"]
                  ELSE IF call[p].at = "event" THEN [call[p] EXCEPT !.at = "log"]
                  ELSE IF call[p].purge THEN [call[p] EXCEPT !.at = "captures"] ELSE NoCall
  <2>2. call' = [call EXCEPT ![p] = c]
    BY <1>13, PurgeSteps DEF Swallowed
  <2>3. c \in Calls /\ Fits(c)
    <3>1. {"event", "log", "captures"} \subseteq Stages /\ "event" \notin History /\ "log" \notin History
      BY PurgeSteps DEF Stages
    <3>2. CASE call[p].at \in {"project", "event"}
      BY <2>1, <3>1, <3>2, CallOK DEF Fits
    <3>3. CASE call[p].at \notin {"project", "event"}
      BY <2>1, <3>1, <3>3, CallOK
    <3>. QED  BY <3>2, <3>3
  <2>. HIDE DEF c
  <2>4. call' \in [Procs -> Calls'] /\ \A q \in Procs : Fits(call'[q])
    BY <2>1, <2>2, <2>3, CallTypes
  <2>. QED  BY <1>13, <2>1, <2>4 DEF Swallowed, TypeOK, Fits
<1>14. ASSUME NEW p \in Procs, Raises(p)  PROVE TypeOK'
  <2>1. Calls' = Calls /\ faults' \in 0..MaxFaults
    BY <1>14, BoundAssumption DEF Raises, Calls, TypeOK
  <2>2. call' \in [Procs -> Calls'] /\ \A q \in Procs : Fits(call'[q])
    BY <1>14, <2>1, CallOK, CallTypes DEF Raises
  <2>3. owed' \subseteq Procs /\ loose' \in BOOLEAN
    BY <1>14 DEF Raises, TypeOK
  <2>. QED  BY <1>14, <2>1, <2>2, <2>3 DEF Raises, TypeOK, Fits
<1>15. ASSUME NEW p \in Procs, Restart(p)  PROVE TypeOK'
  <2>1. Calls' = Calls /\ faults' \in 0..MaxFaults
    BY <1>15, BoundAssumption DEF Restart, Calls, TypeOK
  <2>2. call' \in [Procs -> Calls'] /\ \A q \in Procs : Fits(call'[q])
    BY <1>15, <2>1, CallOK, CallTypes DEF Restart
  <2>3. belief' \in [Procs -> Values \cup {0}] /\ slot' \in [Procs -> Values \cup {0}] /\ records' \in [Procs -> SUBSET Values]
    BY <1>15, Typed DEF Restart, TypeOK
  <2>4. owed' \subseteq Procs /\ loose' \in BOOLEAN
    BY <1>15 DEF Restart, TypeOK
  <2>. QED  BY <1>15, <2>1, <2>2, <2>3, <2>4 DEF Restart, TypeOK, Fits
<1>. QED  BY <1>0, <1>1, <1>2, <1>3, <1>4, <1>5, <1>6, <1>7, <1>8, <1>9, <1>10, <1>11, <1>12, <1>13, <1>14, <1>15 DEF Next

-----------------------------------------------------------------------------
(* How values flow *)

\* A step of one process.
Step(p) ==
    \/ Write(p) \/ Save(p) \/ Project(p) \/ Event(p) \/ LogWrite(p)
    \/ Recall(p) \/ Consolidate(p)
    \/ \E purge \in BOOLEAN : Forget(p, purge)
    \/ ForgetLoad(p) \/ ForgetDelete(p) \/ ForgetLog(p) \/ ForgetEvent(p)
    \/ PurgeCaptures(p) \/ PurgeSelect(p) \/ PurgeEmpty(p) \/ PurgePayloads(p)
    \/ PurgeMentions(p) \/ PurgeCompact(p) \/ PurgeRedact(p)
    \/ Swallowed(p) \/ Raises(p) \/ Restart(p)

Holds(p) == {slot[p], call[p].val, call[p].old}

\* What another process does leaves memory and call of p alone, but that p may
\* answer for less.
Untouched(p) ==
    /\ slot'[p] = slot[p] /\ belief'[p] = belief[p] /\ records'[p] = records[p]
    /\ call'[p].at = call[p].at /\ call'[p].val = call[p].val /\ call'[p].old = call[p].old
    /\ call'[p].purge = call[p].purge /\ call'[p].rows = call[p].rows /\ call'[p].seen \subseteq call[p].seen

LEMMA OthersUntouched ==
    ASSUME TypeOK, NEW p \in Procs, Step(p), NEW q \in Procs, q # p
    PROVE  Untouched(q)
<1>. USE DEF file, memory
<1>1. CASE UNCHANGED slot /\ UNCHANGED belief /\ UNCHANGED records /\ call'[q] = call[q]
  BY <1>1 DEF Untouched
<1>2. ASSUME NEW c, Reads(p, c)
      PROVE  LET d == call'[q]
             IN  /\ d.at = call[q].at /\ d.val = call[q].val /\ d.old = call[q].old
                 /\ d.purge = call[q].purge /\ d.rows = call[q].rows /\ d.seen \subseteq call[q].seen
  <2>1. call'[q] = [call[q] EXCEPT !.seen = @ \ {RowVal}]
    BY <1>2 DEF Reads
  <2>. QED  BY <2>1, Typed DEF Calls
<1>3. CASE Write(p)
  BY <1>2, <1>3 DEF Write, Untouched, TypeOK
<1>4. CASE Consolidate(p)
  BY <1>4 DEF Consolidate, Untouched, TypeOK
<1>5. CASE ForgetLoad(p)
  BY <1>2, <1>5 DEF ForgetLoad, Untouched, TypeOK
<1>6. CASE ForgetDelete(p)
  BY <1>6 DEF ForgetDelete, To, Untouched, TypeOK
<1>7. CASE PurgeRedact(p)
  BY <1>7 DEF PurgeRedact, Untouched, TypeOK
<1>8. CASE Restart(p)
  BY <1>2, <1>8 DEF Restart, Untouched, TypeOK
<1>9. CASE \/ Save(p) \/ Project(p) \/ Event(p) \/ LogWrite(p) \/ Recall(p)
           \/ ForgetLog(p) \/ ForgetEvent(p) \/ PurgeCaptures(p) \/ PurgeSelect(p) \/ PurgeEmpty(p)
           \/ PurgePayloads(p) \/ PurgeMentions(p) \/ PurgeCompact(p) \/ Swallowed(p) \/ Raises(p)
           \/ \E purge \in BOOLEAN : Forget(p, purge)
  BY <1>1, <1>9 DEF Save, Project, Event, LogWrite, Recall, ForgetLog, ForgetEvent, PurgeCaptures, PurgeSelect,
       PurgeEmpty, PurgePayloads, PurgeMentions, PurgeCompact, Swallowed, Raises, Forget, To, TypeOK
<1>. QED  BY <1>3, <1>4, <1>5, <1>6, <1>7, <1>8, <1>9 DEF Step

\* A call that moves on, or ends, holds what it held, or nothing.
LEMMA Moves ==
    ASSUME TypeOK, NEW p \in Procs, NEW c, call' = [call EXCEPT ![p] = c],
           c = NoCall \/ \E at : c = [call[p] EXCEPT !.at = at]
    PROVE  /\ call'[p].val \in {0, call[p].val} /\ call'[p].old \in {0, call[p].old}
           /\ call'[p].seen \in {{}, call[p].seen}
<1>1. call'[p] = c /\ call[p] \in Calls
  BY Typed DEF TypeOK
<1>2. CASE c = NoCall
  BY <1>1, <1>2 DEF NoCall
<1>3. CASE \E at : c = [call[p] EXCEPT !.at = at]
  BY <1>1, <1>3 DEF Calls
<1>. QED  BY <1>2, <1>3

\* A value that a process does not hold is not written by it, and if it comes to
\* hold it, it has just read the row: nobody else answers for the value any more.
LEMMA ValueFlow ==
    ASSUME TypeOK, NEW p \in Procs, Step(p), NEW v \in 1..writes, v \notin Holds(p)
    PROVE  /\ RowVal' = v => RowVal = v
           /\ \A r \in log' : v \in r.vals => r \in log
           /\ v \in payloads' => v \in payloads
           /\ v \in mentions' => v \in mentions
           /\ v \in words' => v \in words
           /\ v \in Holds(p)' => /\ RowVal = v
                                /\ \A q \in Procs \ {p} : v \notin call'[q].seen
           /\ v \in records'[p] \cup {belief'[p]} => v \in records[p] \cup {belief[p], RowVal}
<1>. USE DEF file, memory, Holds
<1>0. v # 0 /\ v # writes + 1 /\ v \in Values /\ call[p] \in Calls
  BY Typed DEF Values
<1>1. ASSUME NEW c, Reads(p, c), NEW q \in Procs \ {p}
      PROVE  RowVal \notin call'[q].seen
  <2>1. call'[q] = [call[q] EXCEPT !.seen = @ \ {RowVal}]
    BY <1>1 DEF Reads
  <2>. QED  BY <2>1, Typed DEF Calls
<1>2. ASSUME NEW vals, AddRow(vals), v \notin vals
      PROVE  \A r \in log' : v \in r.vals => r \in log
  BY <1>2 DEF AddRow
<1>3. CASE Write(p)
  <2>1. /\ belief'[p] \in {writes + 1, belief[p], RowVal}
        /\ records'[p] \subseteq records[p] \cup {writes + 1, belief[p]}
    BY <1>3 DEF Write, TypeOK
  <2>2. PICK c : Reads(p, c) /\ c.val \in {0, writes + 1} /\ c.old \in {0, RowVal}
    <3>1. PICK wins \in BOOLEAN : Reads(p, IF wins THEN [NoCall EXCEPT !.at = "save", !.val = writes + 1, !.old = RowVal]
                                   ELSE NoCall)
      BY <1>3 DEF Write
    <3>2. CASE wins
      <4>1. ASSUME NEW d \in Calls
            PROVE  LET c == [d EXCEPT !.at = "save", !.val = writes + 1, !.old = RowVal]
                   IN  c.val = writes + 1 /\ c.old = RowVal
        BY DEF Calls
      <4>2. Reads(p, [NoCall EXCEPT !.at = "save", !.val = writes + 1, !.old = RowVal])
        BY <3>1, <3>2
      <4>. QED  BY <4>1, <4>2, CallOK
    <3>3. CASE ~wins
      <4>1. Reads(p, NoCall)
        BY <3>1, <3>3
      <4>. QED  BY <4>1 DEF NoCall
    <3>. QED  BY <3>2, <3>3
  <2>3. call'[p] = c /\ slot'[p] = slot[p]
    BY <1>3, <2>2 DEF Write, Reads
  <2>. QED  BY <1>0, <1>1, <1>3, <2>1, <2>2, <2>3 DEF Write, RowVal
<1>4. CASE Save(p) \/ Project(p) \/ Event(p)
  BY <1>0, <1>4 DEF Save, Project, Event, To, RowVal, TypeOK, Calls
<1>5. CASE LogWrite(p) \/ ForgetLog(p)
  <2>1. PICK vals : AddRow(vals) /\ v \notin vals
    BY <1>5 DEF LogWrite, ForgetLog
  <2>2. call'[p].val \in {0, call[p].val} /\ call'[p].old \in {0, call[p].old}
    <3>1. PICK c : /\ call' = [call EXCEPT ![p] = c]
                   /\ c = NoCall \/ \E at : c = [call[p] EXCEPT !.at = at]
      BY <1>5 DEF LogWrite, ForgetLog, To
    <3>. QED  BY <3>1, Moves
  <2>. QED  BY <1>0, <1>2, <1>5, <2>1, <2>2 DEF LogWrite, ForgetLog, RowVal
<1>6. CASE Recall(p)
  BY <1>6 DEF Recall, RowVal
<1>7. CASE Consolidate(p)
  <2>1. \A r \in log' : v \in r.vals => r \in log
    BY <1>2, <1>7 DEF Consolidate
  <2>. QED  BY <1>0, <1>7, <2>1 DEF Consolidate, RowVal, TypeOK
<1>8. CASE \E purge \in BOOLEAN : Forget(p, purge)
  <2>1. call'[p].val = 0 /\ call'[p].old = 0
    BY <1>8 DEF Forget, NoCall, TypeOK
  <2>. QED  BY <1>0, <1>8, <2>1 DEF Forget, RowVal
<1>9. CASE ForgetLoad(p)
  <2>1. PICK c : Reads(p, c) /\ c.val = call[p].val /\ c.old = RowVal
    <3>1. LET c == [call[p] EXCEPT !.at = "delete", !.old = RowVal] IN c.val = call[p].val /\ c.old = RowVal
      BY <1>0 DEF Calls
    <3>. QED  BY <1>9, <3>1 DEF ForgetLoad
  <2>2. call'[p] = c
    BY <2>1 DEF Reads
  <2>. QED  BY <1>0, <1>1, <1>9, <2>1, <2>2 DEF ForgetLoad, RowVal, TypeOK
<1>10. CASE ForgetDelete(p)
  BY <1>0, <1>10 DEF ForgetDelete, To, RowVal, TypeOK, Calls
<1>11. CASE \/ ForgetEvent(p) \/ PurgeCaptures(p) \/ PurgeSelect(p) \/ PurgeEmpty(p)
            \/ PurgePayloads(p) \/ PurgeMentions(p) \/ PurgeCompact(p) \/ Swallowed(p) \/ Raises(p)
  <2>1. call'[p].val \in {0, call[p].val} /\ call'[p].old \in {0, call[p].old}
    <3>1. CASE PurgeSelect(p)
      BY <1>0, <3>1 DEF PurgeSelect, TypeOK, Calls
    <3>2. CASE ~PurgeSelect(p)
      <4>1. PICK c : /\ call' = [call EXCEPT ![p] = c]
                     /\ c = NoCall \/ \E at : c = [call[p] EXCEPT !.at = at]
        BY <1>11, <3>2 DEF ForgetEvent, PurgeCaptures, PurgeEmpty, PurgePayloads, PurgeMentions,
           PurgeCompact, Swallowed, Raises, To
      <4>. QED  BY <4>1, Moves
    <3>. QED  BY <3>1, <3>2
  <2>. QED  BY <1>0, <1>11, <2>1 DEF ForgetEvent, PurgeCaptures, PurgeSelect, PurgeEmpty, PurgePayloads, PurgeMentions,
         PurgeCompact, Swallowed, Raises, RowVal
<1>12. CASE PurgeRedact(p)
  <2>1. call'[p].val = 0 /\ call'[p].old = 0
    BY <1>12 DEF PurgeRedact, NoCall, TypeOK
  <2>. QED  BY <1>0, <1>12, <2>1 DEF PurgeRedact, RowVal, TypeOK
<1>13. CASE Restart(p)
  <2>1. call'[p].val = 0 /\ call'[p].old = 0 /\ slot'[p] \in {0, RowVal} /\ belief'[p] \in {0, RowVal}
    BY <1>13 DEF Restart, Reads, NoCall, TypeOK
  <2>. QED  BY <1>0, <1>1, <1>13, <2>1 DEF Restart, RowVal, TypeOK
<1>. QED  BY <1>3, <1>4, <1>5, <1>6, <1>7, <1>8, <1>9, <1>10, <1>11, <1>12, <1>13 DEF Step

-----------------------------------------------------------------------------
(* Every step keeps the invariant *)

\* What is gone stays gone, and a purge that answers has removed its values.
LEMMA NextGone == ASSUME IInv, NEW p \in Procs, Step(p)  PROVE GoneForGood'
<1>. USE DEF IInv
<1>1. ASSUME NEW g \in gone
      PROVE  /\ NotInFile(g[2])'
             /\ g[2] \notin {slot'[g[1]], belief'[g[1]]} \cup records'[g[1]]
             /\ \A q \in Procs : g[2] \notin Holds(q)'
  <2> DEFINE v == g[2]
  <2>1. g[1] \in Procs /\ v \in 1..writes
    BY DEF TypeOK
  <2>2. /\ NotInFile(v) /\ v \notin {slot[g[1]], belief[g[1]]} \cup records[g[1]]
        /\ \A q \in Procs : v \notin Holds(q)
    BY DEF GoneForGood, Holds
  <2>. HIDE DEF v
  <2>3. NotInFile(v)'
    BY <2>1, <2>2, ValueFlow DEF NotInFile, Logged
  <2>4. v \notin Holds(p)' /\ (g[1] = p => v \notin {belief'[p]} \cup records'[p])
    BY <2>1, <2>2, ValueFlow DEF NotInFile
  <2>5. ASSUME NEW q \in Procs, q # p
        PROVE  v \notin Holds(q)' /\ (g[1] = q => v \notin {belief'[q]} \cup records'[q])
    BY <2>2, <2>5, OthersUntouched DEF Untouched, Holds
  <2>6. v \notin {slot'[g[1]], belief'[g[1]]} \cup records'[g[1]]
    BY <2>1, <2>4, <2>5 DEF Holds
  <2>. QED  BY <2>3, <2>4, <2>5, <2>6 DEF v
<1>2. CASE gone' = gone
  BY <1>1, <1>2 DEF GoneForGood, Holds
<1>3. CASE PurgeRedact(p)
  <2>1. ASSUME NEW v \in call[p].seen
        PROVE  /\ NotInFile(v)'
               /\ v \notin {slot'[p], belief'[p]} \cup records'[p]
               /\ \A q \in Procs : v \notin Holds(q)'
    <3>1. v \notin HeldByOthers(p) /\ RemovedSoFar(p, v) /\ call[p].at = "redact" /\ v # 0
      BY <1>3, Typed DEF ForgetsOnCourse, PurgeRedact, Calls, Values
    <3>2. NotInFile(v)
      BY <3>1 DEF RemovedSoFar, NotInFile
    <3>3. /\ row' = row /\ log' = log /\ payloads' = payloads /\ mentions' = mentions /\ words' = words
          /\ slot' = slot /\ belief' = belief /\ records'[p] = {}
          /\ call' = [call EXCEPT ![p] = NoCall]
      BY <1>3 DEF PurgeRedact, file, TypeOK
    <3>4. NotInFile(v)'
      BY <3>2, <3>3 DEF NotInFile, RowVal, Logged
    <3>5. slot[p] = 0 /\ belief[p] = 0
      BY <3>1 DEF RemovedSoFar
    <3>6. ASSUME NEW q \in Procs  PROVE v \notin Holds(q)'
      <4>1. CASE q = p
        BY <3>1, <3>3, <3>5, <4>1 DEF Holds, NoCall, TypeOK
      <4>2. CASE q # p
        BY <3>1, <3>3, <4>2 DEF Holds, HeldByOthers, TypeOK
      <4>. QED  BY <4>1, <4>2
    <3>. QED  BY <3>1, <3>3, <3>4, <3>5, <3>6
  <2>2. gone' = gone \cup ({p} \X (call[p].seen \ HeldByOthers(p)))
    BY <1>3 DEF PurgeRedact
  <2>3. ASSUME NEW g \in gone', g \notin gone  PROVE g[1] = p /\ g[2] \in call[p].seen
    BY <2>2, <2>3
  <2>. QED  BY <1>1, <2>1, <2>3 DEF GoneForGood, Holds
<1>4. gone' = gone \/ PurgeRedact(p)
  BY DEF Step, Write, Save, Project, Event, LogWrite, Recall, Consolidate, Forget, ForgetLoad, ForgetDelete, ForgetLog,
     ForgetEvent, PurgeCaptures, PurgeSelect, PurgeEmpty, PurgePayloads, PurgeMentions, PurgeCompact, Swallowed,
     Raises, Restart
<1>. QED  BY <1>2, <1>3, <1>4

\* A forget of p stays on course whatever another process does.
LEMMA OthersOnCourse ==
    ASSUME IInv, NEW p \in Procs, NEW q \in Procs, q # p, Step(q), NEW v \in call'[p].seen
    PROVE  v \notin HeldByOthers(p)' /\ RemovedSoFar(p, v)'
<1>. USE DEF IInv
<1>1. Untouched(p) /\ v \in call[p].seen
  BY OthersUntouched DEF Untouched
<1>2. v \in 1..writes /\ v \notin HeldByOthers(p) /\ RemovedSoFar(p, v)
  BY <1>1, Typed DEF ForgetsOnCourse, Calls
<1>3. v \notin Holds(q)
  BY <1>2 DEF HeldByOthers, Holds
<1>4. v \notin Holds(q)'
  BY <1>2, <1>3, ValueFlow
<1>5. ASSUME NEW r \in Procs \ {p}  PROVE v \notin Holds(r)'
  <2>1. CASE r = q
    BY <1>4, <2>1
  <2>2. CASE r # q
    BY <1>2, <2>2, OthersUntouched DEF Untouched, Holds, HeldByOthers
  <2>. QED  BY <2>1, <2>2
<1>6. v \notin HeldByOthers(p)'
  BY <1>5 DEF HeldByOthers, Holds
<1>7. /\ RowVal' = v => RowVal = v
      /\ \A r \in log' : v \in r.vals => r \in log
      /\ v \in payloads' => v \in payloads
      /\ v \in mentions' => v \in mentions
      /\ v \in words' => v \in words
  BY <1>2, <1>3, ValueFlow
<1>. QED  BY <1>1, <1>2, <1>6, <1>7 DEF RemovedSoFar, Untouched, Logged

\* What others hold does not change by a step of p.
LEMMA OthersHold ==
    ASSUME TypeOK, NEW p \in Procs, Step(p)  PROVE HeldByOthers(p)' = HeldByOthers(p)
<1>1. \A q \in Procs \ {p} : {slot'[q], call'[q].val, call'[q].old} = {slot[q], call[q].val, call[q].old}
  BY OthersUntouched DEF Untouched
<1>. QED  BY <1>1 DEF HeldByOthers

\* A call that takes its next step answers for what it did before.
LEMMA MovesOn ==
    ASSUME TypeOK, NEW p \in Procs, NEW at, call' = [call EXCEPT ![p].at = at]
    PROVE  call'[p].at = at /\ call'[p].seen = call[p].seen /\ call'[p].rows = call[p].rows
           /\ call'[p].old = call[p].old
BY Typed DEF TypeOK, Calls

\* One that ends answers for nothing.
LEMMA EndsEmpty ==
    ASSUME TypeOK, NEW p \in Procs, call' = [call EXCEPT ![p] = NoCall] \/ Reads(p, NoCall)
    PROVE  call'[p].seen = {} /\ call'[p].at = "idle"
BY DEF TypeOK, Reads, NoCall

\* Its own steps keep a forget on course.
LEMMA OwnOnCourse ==
    ASSUME IInv, NEW p \in Procs, Step(p), NEW v \in call'[p].seen
    PROVE  v \notin HeldByOthers(p)' /\ RemovedSoFar(p, v)'
<1>. USE DEF IInv, file, memory
<1>1. \A w \in call[p].seen : w \notin HeldByOthers(p) /\ RemovedSoFar(p, w) /\ w # 0
  BY Typed DEF ForgetsOnCourse, Calls, Values
<1>2. HeldByOthers(p)' = HeldByOthers(p)
  BY OthersHold
<1>3. CASE \/ Write(p) \/ Save(p) \/ Project(p) \/ Event(p) \/ LogWrite(p) \/ Recall(p) \/ Consolidate(p)
           \/ PurgeRedact(p) \/ Raises(p) \/ Restart(p)
  <2>1. CASE Write(p)
    <3>1. PICK wins \in BOOLEAN : Reads(p, IF wins THEN [NoCall EXCEPT !.at = "save", !.val = writes + 1, !.old = RowVal]
                                 ELSE NoCall)
      BY <2>1 DEF Write
    <3>2. CASE wins
      <4>1. ASSUME NEW d \in Calls
            PROVE  [d EXCEPT !.at = "save", !.val = writes + 1, !.old = RowVal].seen = d.seen
        BY DEF Calls
      <4>2. call'[p] = [NoCall EXCEPT !.at = "save", !.val = writes + 1, !.old = RowVal]
        BY <3>1, <3>2 DEF Reads
      <4>. QED  BY <4>1, <4>2, CallOK DEF NoCall
    <3>3. CASE ~wins
      BY <3>1, <3>3, EndsEmpty
    <3>. QED  BY <3>2, <3>3
  <2>2. CASE LogWrite(p) \/ PurgeRedact(p) \/ Raises(p) \/ Restart(p)
    BY <2>2, EndsEmpty DEF LogWrite, PurgeRedact, Raises, Restart
  <2>3. CASE Save(p) \/ Project(p) \/ Event(p) \/ Recall(p) \/ Consolidate(p)
    <3>1. call[p].at \in {"idle", "save", "project", "event", "log"} /\ call'[p].seen = call[p].seen
      BY <2>3, MovesOn DEF Save, Project, Event, To, Recall, Consolidate, Idle
    <3>. QED  BY <1>1, <3>1 DEF RemovedSoFar
  <2>. QED  BY <1>3, <2>1, <2>2, <2>3
<1>4. ASSUME NEW purge \in BOOLEAN, Forget(p, purge)  PROVE v \notin HeldByOthers(p)' /\ RemovedSoFar(p, v)'
  <2>1. PICK start \in {"load", "captures"} :
          /\ start = IF Present(p) THEN "load" ELSE PurgeOrder[1]
          /\ start = "captures" => ~Present(p)
    BY PurgeSteps
  <2>2. PICK there \in SUBSET (1..writes), d \in Calls :
          \E c : /\ there = (1..writes) \ HeldByOthers(p) /\ d = NoCall
                 /\ c = [d EXCEPT !.at = start, !.purge = purge, !.seen = there]
    BY CallOK
  <2>3. PICK c : /\ there = (1..writes) \ HeldByOthers(p) /\ d = NoCall
                 /\ c = [d EXCEPT !.at = start, !.purge = purge, !.seen = there]
    BY <2>2
  <2>4. c.seen = there /\ c.at = start
    BY <2>3 DEF Calls
  <2>5. call'[p] = c
    BY <1>4, <2>1, <2>3 DEF Forget, TypeOK
  <2>6. v \in 1..writes /\ v \notin HeldByOthers(p) /\ call'[p].at = start
    BY <2>3, <2>4, <2>5
  <2>7. UNCHANGED <<row, slot, belief>> /\ v # 0
    BY <1>4, <2>6, Typed DEF Forget
  <2>. QED  BY <1>2, <2>1, <2>6, <2>7 DEF RemovedSoFar, Present, RowVal
<1>5. CASE ForgetLoad(p)
  <2>1. ASSUME NEW d \in Calls, NEW c, c = [d EXCEPT !.at = "delete", !.old = RowVal]
        PROVE  c.at = "delete" /\ c.seen = d.seen
    BY <2>1 DEF Calls
  <2>2. call'[p].at = "delete" /\ call'[p].seen = call[p].seen
    BY <1>5, <2>1, Typed DEF ForgetLoad, Reads
  <2>3. slot'[p] = 0
    BY <1>5 DEF ForgetLoad, TypeOK
  <2>. QED  BY <1>1, <1>2, <2>2, <2>3 DEF RemovedSoFar
<1>6. CASE ForgetDelete(p)
  <2>1. call'[p].at = "log forget" /\ call'[p].seen = call[p].seen /\ call[p].at = "delete"
    BY <1>6, MovesOn DEF ForgetDelete, To
  <2>2. row' = None /\ belief'[p] = 0 /\ slot' = slot
    BY <1>6 DEF ForgetDelete, TypeOK
  <2>. QED  BY <1>1, <1>2, <2>1, <2>2 DEF RemovedSoFar, RowVal
<1>7. CASE ForgetLog(p)
  <2>1. call'[p].at = "event forget" /\ call'[p].seen = call[p].seen /\ call[p].at = "log forget"
    BY <1>7, MovesOn DEF ForgetLog, To
  <2>2. UNCHANGED <<row, slot, belief>>
    BY <1>7 DEF ForgetLog
  <2>. QED  BY <1>1, <1>2, <2>1, <2>2 DEF RemovedSoFar, RowVal
<1>8. CASE ForgetEvent(p) \/ Swallowed(p)
  <2>1. PICK c : /\ call' = [call EXCEPT ![p] = c]
                 /\ c = NoCall \/ \E at : /\ c = [call[p] EXCEPT !.at = at]
                                          /\ call[p].at = "event forget" => at = "captures"
    BY <1>8, PurgeSteps DEF ForgetEvent, Swallowed
  <2>2. c # NoCall
    BY <2>1, EndsEmpty
  <2>3. PICK at : /\ call' = [call EXCEPT ![p].at = at]
                  /\ call[p].at = "event forget" => at = "captures"
    BY <2>1, <2>2
  <2>4. call'[p].at = at /\ v \in call[p].seen
    BY <2>3, MovesOn
  <2>5. call[p].at = "event forget" /\ call'[p].at = "captures"
    BY <1>1, <1>8, <2>3, <2>4 DEF RemovedSoFar, ForgetEvent, Swallowed, BestEffort
  <2>6. UNCHANGED <<row, slot, belief>>
    BY <1>8 DEF ForgetEvent, Swallowed
  <2>. QED  BY <1>1, <1>2, <2>4, <2>5, <2>6 DEF RemovedSoFar, RowVal
<1>9. CASE PurgeCaptures(p)
  <2>1. call'[p].at = "select" /\ call'[p].seen = call[p].seen /\ call[p].at = "captures"
    BY <1>9, MovesOn, PurgeSteps DEF PurgeCaptures, To
  <2>. QED  BY <1>1, <1>2, <1>9, <2>1 DEF PurgeCaptures, RemovedSoFar, RowVal
<1>10. CASE PurgeSelect(p)
  <2>1. ASSUME NEW d \in Calls, NEW c, c = [d EXCEPT !.at = "empty", !.rows = log]
        PROVE  c.at = "empty" /\ c.seen = d.seen /\ c.rows = log
    BY <2>1 DEF Calls
  <2>2. call' = [call EXCEPT ![p] = [call[p] EXCEPT !.at = "empty", !.rows = log]] /\ call[p].at = "select"
    BY <1>10, PurgeSteps DEF PurgeSelect
  <2>3. call'[p].at = "empty" /\ call'[p].seen = call[p].seen /\ call'[p].rows = log
    BY <2>1, <2>2, Typed DEF TypeOK
  <2>. QED  BY <1>1, <1>2, <1>10, <2>2, <2>3 DEF PurgeSelect, RemovedSoFar, RowVal
<1>11. CASE PurgeEmpty(p)
  <2>1. call'[p].at = "payloads" /\ call'[p].seen = call[p].seen /\ call[p].at = "empty"
    BY <1>11, MovesOn, PurgeSteps DEF PurgeEmpty, To
  <2>2. log' = log \ call[p].rows /\ UNCHANGED <<row, slot, belief>>
    BY <1>11 DEF PurgeEmpty
  <2>3. v \notin Logged'
    BY <1>1, <2>1, <2>2 DEF RemovedSoFar, Logged
  <2>. QED  BY <1>1, <1>2, <2>1, <2>2, <2>3 DEF RemovedSoFar, RowVal
<1>12. CASE PurgePayloads(p)
  <2>1. call'[p].at = "mentions" /\ call'[p].seen = call[p].seen /\ call[p].at = "payloads"
    BY <1>12, MovesOn, PurgeSteps DEF PurgePayloads, To
  <2>. QED  BY <1>1, <1>2, <1>12, <2>1 DEF PurgePayloads, RemovedSoFar, RowVal, Logged
<1>13. CASE PurgeMentions(p)
  <2>1. call'[p].at = "compact" /\ call'[p].seen = call[p].seen /\ call[p].at = "mentions"
    BY <1>13, MovesOn, PurgeSteps DEF PurgeMentions, To
  <2>. QED  BY <1>1, <1>2, <1>13, <2>1 DEF PurgeMentions, RemovedSoFar, RowVal, Logged
<1>14. CASE PurgeCompact(p)
  <2>1. call'[p].at = "redact" /\ call'[p].seen = call[p].seen /\ call[p].at = "compact"
    BY <1>14, MovesOn, PurgeSteps DEF PurgeCompact, To
  <2>. QED  BY <1>1, <1>2, <1>14, <2>1 DEF PurgeCompact, RemovedSoFar, RowVal, Logged
<1>. QED  BY <1>3, <1>4, <1>5, <1>6, <1>7, <1>8, <1>9, <1>10, <1>11, <1>12, <1>13, <1>14 DEF Step

\* Every step keeps every forget on course.
LEMMA NextOnCourse == ASSUME IInv, NEW p \in Procs, Step(p)  PROVE ForgetsOnCourse'
BY OthersOnCourse, OwnOnCourse DEF ForgetsOnCourse

\* No purge passes the captures while one is left that has to be found.
LEMMA NextComeFirst == ASSUME IInv, NEW p \in Procs, Step(p)  PROVE CapturesComeFirst'
<1>. USE DEF IInv
<1>. SUFFICES ASSUME captured', ~loose', NEW q \in Procs, call'[q].at \in History \ {"captures"}
              PROVE  FALSE
  BY DEF CapturesComeFirst
<1>1. ~loose
  BY DEF Step, Write, Save, Project, Event, LogWrite, Recall, Consolidate, Forget, ForgetLoad, ForgetDelete, ForgetLog,
     ForgetEvent, PurgeCaptures, PurgeSelect, PurgeEmpty, PurgePayloads, PurgeMentions, PurgeCompact, PurgeRedact,
     Swallowed, Raises, Restart
<1>2. captured \/ (Recall(p) /\ \A r \in Procs : ~call[r].purge)
  BY DEF Step, Write, Save, Project, Event, LogWrite, Recall, Consolidate, Forget, ForgetLoad, ForgetDelete, ForgetLog,
     ForgetEvent, PurgeCaptures, PurgeSelect, PurgeEmpty, PurgePayloads, PurgeMentions, PurgeCompact, PurgeRedact,
     Swallowed, Raises, Restart, file
<1>3. ~PurgeCaptures(p)
  BY DEF PurgeCaptures
<1>4. \A r \in Procs : call[r].at \notin History \ {"captures"}
  BY <1>1, <1>2 DEF CapturesComeFirst, TypeOK
<1>5. q = p
  BY <1>4, OthersUntouched DEF Untouched
<1>6. ASSUME NEW at, call' = [call EXCEPT ![p].at = at]  PROVE call'[p].at = at
  BY <1>6, MovesOn
<1>7. CASE \E at : at \notin History \ {"captures"} /\ call' = [call EXCEPT ![p].at = at]
  BY <1>5, <1>6, <1>7
<1>8. CASE call' = [call EXCEPT ![p] = NoCall] \/ Reads(p, NoCall)
  BY <1>5, <1>8, EndsEmpty, PurgeSteps
<1>9. CASE call' = call
  BY <1>4, <1>9
<1>10. CASE \/ Save(p) \/ Project(p) \/ Event(p) \/ LogWrite(p) \/ Recall(p) \/ Consolidate(p)
            \/ ForgetDelete(p) \/ ForgetLog(p) \/ ForgetEvent(p)
            \/ Swallowed(p) \/ Raises(p) \/ Restart(p)
  BY <1>7, <1>8, <1>9, <1>10, PurgeSteps DEF Save, Project, Event, LogWrite, Recall, Consolidate, ForgetDelete, ForgetLog,
     ForgetEvent, Swallowed, Raises, Restart, To
<1>11. CASE \/ PurgeSelect(p) \/ PurgeEmpty(p) \/ PurgePayloads(p) \/ PurgeMentions(p) \/ PurgeCompact(p) \/ PurgeRedact(p)
  BY <1>4, <1>11, PurgeSteps DEF PurgeSelect, PurgeEmpty, PurgePayloads, PurgeMentions, PurgeCompact, PurgeRedact
<1>12. CASE Write(p)
  <2>1. PICK wins \in BOOLEAN : Reads(p, IF wins THEN [NoCall EXCEPT !.at = "save", !.val = writes + 1, !.old = RowVal]
                               ELSE NoCall)
    BY <1>12 DEF Write
  <2>2. CASE wins
    <3>1. ASSUME NEW d \in Calls
          PROVE  [d EXCEPT !.at = "save", !.val = writes + 1, !.old = RowVal].at = "save"
      BY DEF Calls
    <3>2. call'[p] = [NoCall EXCEPT !.at = "save", !.val = writes + 1, !.old = RowVal]
      BY <2>1, <2>2 DEF Reads
    <3>. QED  BY <1>5, <3>1, <3>2, CallOK, PurgeSteps
  <2>3. CASE ~wins
    BY <1>8, <2>1, <2>3
  <2>. QED  BY <2>2, <2>3
<1>13. CASE ForgetLoad(p)
  <2>1. ASSUME NEW d \in Calls, NEW c, c = [d EXCEPT !.at = "delete", !.old = RowVal]
        PROVE  c.at = "delete"
    BY <2>1 DEF Calls
  <2>2. call'[p].at = "delete"
    BY <1>13, <2>1, Typed DEF ForgetLoad, Reads
  <2>. QED  BY <1>5, <2>2, PurgeSteps
<1>14. ASSUME NEW purge \in BOOLEAN, Forget(p, purge)  PROVE FALSE
  <2>1. PICK start \in {"load", "captures"} : start = IF Present(p) THEN "load" ELSE PurgeOrder[1]
    BY PurgeSteps
  <2>2. PICK there \in SUBSET (1..writes), d \in Calls :
          \E c : /\ there = (1..writes) \ HeldByOthers(p) /\ d = NoCall
                 /\ c = [d EXCEPT !.at = start, !.purge = purge, !.seen = there]
    BY CallOK
  <2>3. PICK c : /\ there = (1..writes) \ HeldByOthers(p) /\ d = NoCall
                 /\ c = [d EXCEPT !.at = start, !.purge = purge, !.seen = there]
    BY <2>2
  <2>4. c.at = start
    BY <2>3 DEF Calls
  <2>5. call'[p] = c
    BY <1>14, <2>1, <2>3 DEF Forget, TypeOK
  <2>. QED  BY <1>5, <2>1, <2>4, <2>5, PurgeSteps
<1>. QED  BY <1>3, <1>10, <1>11, <1>12, <1>13, <1>14 DEF Step

\* A saved row is one.
LEMMA SavedIsThere == \A v \in Values, lasting \in BOOLEAN : [val |-> v, lasting |-> lasting] # None
<1>. SUFFICES ASSUME NEW v \in Values, NEW lasting \in BOOLEAN  PROVE [val |-> v, lasting |-> lasting] # None
  OBVIOUS
<1>1. [val |-> v, lasting |-> lasting] \in [val : Values, lasting : BOOLEAN]
  OBVIOUS
<1>. QED  BY <1>1, NoneAssumption

\* What is captured leads back to the key after every step.
LEMMA NextLeadBack == ASSUME IInv, NEW p \in Procs, Step(p)  PROVE CapturesLeadBack'
<1>. USE DEF IInv, file, memory
<1>. SUFFICES ASSUME captured', ~loose'
              PROVE  \/ row' # None \/ log' # {} \/ payloads' # {}
                     \/ \E q \in Procs : call'[q].at = "log forget" /\ call'[q].old # 0
  BY DEF CapturesLeadBack
<1>1. ~loose
  BY DEF Step, Write, Save, Project, Event, LogWrite, Recall, Consolidate, Forget, ForgetLoad, ForgetDelete, ForgetLog,
     ForgetEvent, PurgeCaptures, PurgeSelect, PurgeEmpty, PurgePayloads, PurgeMentions, PurgeCompact, PurgeRedact,
     Swallowed, Raises, Restart
<1>2. CASE Recall(p) /\ row # None
  BY <1>2 DEF Recall
<1>3. CASE captured
  <2>1. \A q \in Procs : call[q].at \notin History \ {"captures"}
    BY <1>1, <1>3 DEF CapturesComeFirst
  <2>2. ~(PurgeSelect(p) \/ PurgeEmpty(p) \/ PurgePayloads(p) \/ PurgeMentions(p) \/ PurgeCompact(p) \/ PurgeRedact(p))
    BY <2>1, PurgeSteps DEF PurgeSelect, PurgeEmpty, PurgePayloads, PurgeMentions, PurgeCompact, PurgeRedact
  <2>3. ~PurgeCaptures(p)
    BY DEF PurgeCaptures
  <2>4. log \subseteq log' /\ payloads \subseteq payloads'
    BY <2>2, <2>3 DEF Step, Write, Save, Project, Event, LogWrite, Recall, Consolidate, Forget, ForgetLoad, ForgetDelete,
       ForgetLog, ForgetEvent, Swallowed, Raises, Restart, AddRow
  <2>5. CASE log # {} \/ payloads # {}
    BY <2>4, <2>5
  <2>6. ASSUME NEW q \in Procs, call[q].at = "log forget", call[q].old # 0
        PROVE  log' # {} \/ (call'[q].at = "log forget" /\ call'[q].old # 0)
    <3>1. CASE q # p
      BY <2>6, <3>1, OthersUntouched DEF Untouched
    <3>2. CASE q = p
      <4>1. ForgetLog(p)
        BY <2>2, <2>3, <2>6, <3>2 DEF Step, Write, Save, Project, Event, LogWrite, Recall, Consolidate, Forget, ForgetLoad,
           ForgetDelete, ForgetEvent, Swallowed, BestEffort, Raises, Restart, Idle, Unlogged
      <4>2. call[p].old \in Values \cup {0}
        BY Typed DEF Calls
      <4>3. {call[p].old} \in SUBSET (Values \cup {0}) /\ ~({call[p].old} \subseteq {0})
        BY <2>6, <3>2, <4>2
      <4>4. AddRow({call[p].old})
        BY <4>1 DEF ForgetLog
      <4>. QED  BY <4>3, <4>4, AddRowType
    <3>. QED  BY <3>1, <3>2
  <2>7. CASE row # None
    <3>1. CASE ForgetDelete(p)
      <4>1. call[p].old # 0
        BY <2>7, <3>1 DEF ForgetDelete
      <4>2. call'[p].at = "log forget" /\ call'[p].old = call[p].old
        BY <3>1, MovesOn DEF ForgetDelete, To
      <4>. QED  BY <4>1, <4>2
    <3>2. CASE ~ForgetDelete(p)
      <4>1. CASE Save(p)
        <5>1. call[p].val \in Values
          BY <4>1, Typed DEF Save, TypeOK, Calls
        <5>2. PICK lasting \in BOOLEAN : row' = [val |-> call[p].val, lasting |-> lasting]
          BY <4>1 DEF Save
        <5>3. row' # None
          BY <5>1, <5>2, SavedIsThere
        <5>. QED  BY <5>3
      <4>2. CASE Consolidate(p)
        <5>1. slot[p] \in Values
          BY <4>2, Typed DEF Consolidate
        <5>2. [val |-> slot[p], lasting |-> TRUE] # None
          BY <5>1, SavedIsThere
        <5>. QED  BY <2>7, <4>2, <5>2 DEF Consolidate
      <4>3. CASE ~Save(p) /\ ~Consolidate(p)
        <5>1. row' = row
          BY <2>2, <2>3, <3>2, <4>3 DEF Step, Write, Project, Event, LogWrite, Recall, Forget, ForgetLoad, ForgetLog,
             ForgetEvent, Swallowed, Raises, Restart
        <5>. QED  BY <2>7, <5>1
      <4>. QED  BY <4>1, <4>2, <4>3
    <3>. QED  BY <3>1, <3>2
  <2>. QED  BY <1>1, <1>3, <2>5, <2>6, <2>7 DEF CapturesLeadBack
<1>4. captured \/ (Recall(p) /\ row # None)
  BY DEF Step, Write, Save, Project, Event, LogWrite, Recall, Consolidate, Forget, ForgetLoad, ForgetDelete, ForgetLog,
     ForgetEvent, PurgeCaptures, PurgeSelect, PurgeEmpty, PurgePayloads, PurgeMentions, PurgeCompact, PurgeRedact,
     Swallowed, Raises, Restart
<1>. QED  BY <1>2, <1>3, <1>4

-----------------------------------------------------------------------------
(* The theorems *)

\* The invariant holds at the start,
LEMMA InitIInv == Init => IInv
<1>. SUFFICES ASSUME Init  PROVE IInv
  OBVIOUS
<1>1. TypeOK
  BY InitTypeOK
<1>2. \A p \in Procs : call[p].seen = {} /\ call[p].at = "idle"
  BY DEF Init, NoCall
<1>. QED  BY <1>1, <1>2 DEF Init, IInv, GoneForGood, ForgetsOnCourse, CapturesComeFirst, CapturesLeadBack

\* is kept by every step,
LEMMA NextIInv == IInv /\ [Next]_pvars => IInv'
<1>. SUFFICES ASSUME IInv, [Next]_pvars  PROVE IInv'
  OBVIOUS
<1>1. TypeOK'
  BY NextTypeOK DEF IInv
<1>2. CASE UNCHANGED pvars
  <2>1. UNCHANGED <<row, log, payloads, captured, mentions, words, slot, belief, records, call, gone, loose>>
    BY <1>2 DEF pvars, file, memory
  <2>2. RowVal' = RowVal /\ Logged' = Logged /\ \A p \in Procs : HeldByOthers(p)' = HeldByOthers(p)
    BY <2>1 DEF RowVal, Logged, HeldByOthers
  <2>3. GoneForGood'
    BY <2>1, <2>2 DEF IInv, GoneForGood, NotInFile
  <2>4. \A p \in Procs : \A v \in call[p].seen : RemovedSoFar(p, v) => RemovedSoFar(p, v)'
    BY <2>1, <2>2 DEF RemovedSoFar
  <2>5. ForgetsOnCourse'
    BY <2>1, <2>2, <2>4 DEF IInv, ForgetsOnCourse
  <2>6. CapturesComeFirst'
    BY <2>1, PurgeSteps DEF IInv, CapturesComeFirst, History
  <2>7. CapturesLeadBack'
    BY <2>1 DEF IInv, CapturesLeadBack
  <2>. QED  BY <1>1, <2>3, <2>5, <2>6, <2>7 DEF IInv
<1>3. CASE Next
  <2>1. PICK p \in Procs : Step(p)
    BY <1>3 DEF Next, Step
  <2>. QED  BY <1>1, <2>1, NextGone, NextOnCourse, NextComeFirst, NextLeadBack DEF IInv
<1>. QED  BY <1>2, <1>3

\* and so holds always.
LEMMA Invariance == Spec => []IInv
BY InitIInv, NextIInv, PTL DEF Spec

\* Every variable of the purge keeps its type (LocalPurge.tla).
THEOREM TypeCorrect == Spec => []TypeOK
<1>1. IInv => TypeOK
  BY DEF IInv
<1>. QED  BY <1>1, Invariance, PTL

\* A purge keeps its word, however its steps interleave with the writes, recalls,
\* forgets and purges of any number of other processes, with failures and restarts:
\* what it reported gone is gone for good, and what it left captured when it was
\* cut short can be purged (server_v2.py _handle_forget and _purge_key_history).
THEOREM PurgesKeepTheirWord == Spec => []PurgeKeepsItsWord
<1>1. ASSUME IInv  PROVE PurgedIsGone
  BY <1>1 DEF IInv, GoneForGood, NotInFile, PurgedIsGone
<1>2. ASSUME IInv  PROVE CapturesKeepGateOpen
  BY <1>2 DEF IInv, CapturesLeadBack, CapturesKeepGateOpen, AllIdle, Idle, GateOpen, Present
<1>3. IInv => PurgeKeepsItsWord
  BY <1>1, <1>2 DEF PurgeKeepsItsWord
<1>. QED  BY <1>3, Invariance, PTL

-----------------------------------------------------------------------------
(* The theorems about all of them *)

\* What holds of every part, whichever is exercised.
DerivedInv ==
    /\ IInv
    /\ EntityTypes /\ (Serialized => EntityRight)
    /\ GraphInv
    /\ IndexInv
    /\ ColumnInv /\ since \subseteq Keys
    /\ CheckpointInv

MCVars == <<part, pvars, evars, gvars, ftvars, scvars, kvars>>

LEMMA DerivedStarts == MCInit => DerivedInv
<1>. SUFFICES ASSUME MCInit  PROVE DerivedInv
  OBVIOUS
<1>1. Init /\ EI!Init /\ KG!Init /\ KP!Init /\ FT!Init /\ SC!Init
  BY DEF MCInit
<1>2. IInv /\ EntityTypes /\ EntityRight
  BY <1>1, InitIInv, EntityTypesStart, EntityRightStart
<1>3. GraphInv /\ IndexInv /\ ColumnInv /\ CheckpointInv
  BY <1>1, GraphStarts, IndexStarts, ColumnStarts, CheckpointsStart
<1>4. since \subseteq Keys
  BY <1>1 DEF SC!Init
<1>. QED  BY <1>2, <1>3, <1>4 DEF DerivedInv

\* The part that steps keeps its own, the others stand.
LEMMA DerivedStays == DerivedInv /\ [MCNext]_MCVars => DerivedInv'
<1>. SUFFICES ASSUME DerivedInv, [MCNext]_MCVars  PROVE DerivedInv'
  OBVIOUS
<1>. USE DEF DerivedInv
<1>1. /\ [Next]_pvars
      /\ EI!Next \/ UNCHANGED evars
      /\ KG!Next \/ UNCHANGED gvars
      /\ FT!Next \/ UNCHANGED ftvars
      /\ SC!Next \/ UNCHANGED scvars
      /\ KP!Next \/ UNCHANGED kvars
  BY DEF MCNext, MCVars
<1>2. IInv'
  BY <1>1, NextIInv
<1>3. EntityTypes'
  BY <1>1, EntityTypesStand, EntityTypesStay
<1>4. ASSUME Serialized  PROVE EntityRight'
  BY <1>1, <1>4, EntityRightStands, EntityRightStays
<1>5. GraphInv'
  BY <1>1, GraphStands, GraphStays
<1>6. IndexInv'
  BY <1>1, IndexStands, IndexStays
<1>7. ColumnInv' /\ since' \subseteq Keys
  <2>1. CASE SC!Next
    BY <2>1, ColumnStays
  <2>2. CASE UNCHANGED scvars
    BY <2>2, ColumnStands DEF scvars
  <2>. QED  BY <1>1, <2>1, <2>2
<1>8. CheckpointInv'
  BY <1>1, CheckpointsStand, CheckpointsStay
<1>. QED  BY <1>2, <1>3, <1>4, <1>5, <1>6, <1>7, <1>8

LEMMA DerivedAlways == MCSpec => []DerivedInv
<1>1. MCInit => DerivedInv
  BY DerivedStarts
<1>2. DerivedInv /\ [MCNext]_<<part, pvars, evars, gvars, ftvars, scvars, kvars>> => DerivedInv'
  BY DerivedStays DEF MCVars
<1>. QED  BY <1>1, <1>2, PTL DEF MCSpec

\* Every variable of the six parts keeps its type.
THEOREM TypesAreAlwaysOK == MCSpec => []TypesOK
<1>1. DerivedInv => TypesOK
  BY EntityIsTyped, GraphIsRight, IndexIsTyped, ColumnIsRight, CheckpointsAreRight DEF DerivedInv, IInv, TypesOK
<1>. QED  BY <1>1, DerivedAlways, PTL

\* A memory is found by what it says, and nothing else by it: the graph of a
\* process is whole, holds nothing of a forgotten memory and links all the stored
\* text names, but for memories whose row changed without the graph hearing of it
\* (promoted, pruned, rolled back, or changed by another process) and that were not
\* read or written since; both full-text indexes hold the text of the row, and a
\* thread is resumed from the checkpoint it was told is saved
\* (core/knowledge_graph.py, storage/sqlite.py, storage/postgres.py,
\* integrations/langgraph.py); unless runtimes of version 2 save their own vectors
\* beside later ones.
THEOREM MemoriesAreAlwaysFound == ASSUME ~OlderFills PROVE MCSpec => []MemoriesAreFound
<1>1. DerivedInv => MemoriesAreFound
  BY GraphIsRight, IndexIsTyped, ColumnIsRight, CheckpointsAreRight DEF DerivedInv, MemoriesAreFound
<1>. QED  BY <1>1, DerivedAlways, PTL

\* Where one mutation of a project runs at a time, its entity index is right
\* between requests, and no step takes an entity a memory still names: rewriting,
\* restoring and the sweep of orphans leave the entities they must
\* (core/stateplane.py and cloud/entities.py).
THEOREM IndexIsAlwaysRight == ASSUME Serialized PROVE MCSpec => IndexIsRight
<1>. DEFINE Outlives ==
        \A e \in entities \ entities', k \in Keys :
          (rows'[k] # Absent /\ <<k, "entities">> \notin cut' /\ k \notin promoted' /\ e \in EI!NamesOf(rows'[k]))
              => \E p \in Procs : job[p].key = k /\ e \notin mentioned[k] \cup job[p].stamped
<1>1. DerivedInv => EI!MentionsHaveEntity /\ EI!IndexMatchesRows /\ EI!NoOtherOrphans
  BY EntityIsRight DEF DerivedInv
<1>2. DerivedInv /\ [MCNext]_<<part, pvars, evars, gvars, ftvars, scvars, kvars>>
        => [Outlives]_EI!vars
  <2>. SUFFICES ASSUME DerivedInv, [MCNext]_<<part, pvars, evars, gvars, ftvars, scvars, kvars>>
                PROVE  [Outlives]_EI!vars
    OBVIOUS
  <2>1. CASE EI!Next
    BY <2>1, EntitiesOutlive DEF DerivedInv
  <2>2. CASE UNCHANGED evars
    BY <2>2 DEF evars, EI!vars
  <2>. QED  BY <2>1, <2>2 DEF MCNext
<1>. QED  BY <1>1, <1>2, DerivedAlways, PTL DEF MCSpec, IndexIsRight, EI!EntityOutlivesMention
=============================================================================
