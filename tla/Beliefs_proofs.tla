--------------------------- MODULE Beliefs_proofs ---------------------------
(***************************************************************************)
(* Proofs about beliefs: of processes that share a file, of one that has it*)
(* to itself, of the revision engine and of remote clients that write one  *)
(* memory; for any processes, keys, values and importances, any number of  *)
(* writes and of failures, and any length of the engine's log.             *)
(***************************************************************************)
EXTENDS MCBeliefs, FiniteSetTheorems, WellFoundedInduction, SequenceTheorems, TLAPS

-----------------------------------------------------------------------------
(* The inductive invariant *)

\* Entry e of key k is stored, believed, warmed, read by a decay pass or being saved.
Kept(e, k) ==
    \/ rows[k] = e
    \/ \E p \in Procs : e \in {beliefs[p][k], copies[p][k], sweep[p][k]}
    \/ \E p \in Procs : call[p] # NoCall /\ call[p].key = k /\ call[p].entry = e

\* Of the same write, as far as a recall can tell, and with the importance it had.
SameWrite(a, b) == a.upd = b.upd /\ a.val = b.val /\ a.imp = b.imp

\* A write of a key is told from all others by its number, wherever it is kept.
StampsTellWrites ==
    \A k \in Keys : \A a, b \in Entry :
        Kept(a, k) /\ Kept(b, k) /\ a.upd = b.upd => SameWrite(a, b)

\* The numbers of writes yet to come are not in use.
StampsAreUsed == \A k \in Keys : \A e \in Entry : Kept(e, k) => e.upd <= writes

IInv == TypeOK /\ StampsTellWrites /\ StampsAreUsed

-----------------------------------------------------------------------------
(* Lemmas about revision *)

\* A view of key k that a process may have.
Views == [belief : Entry \cup {Absent}, ent : Levels \cup {0}]

LEMMA ViewType ==
    ASSUME TypeOK, NEW p \in Procs, NEW k \in Keys
    PROVE  View(p, k) \in Views /\ rows[k] \in Entry \cup {Absent}
BY DEF TypeOK, View, Views, Table

\* Refreshing a view gives a view of the stored row, of what was believed, or of nothing.
LEMMA RefreshedType ==
    ASSUME NEW view \in Views, NEW stored \in Entry \cup {Absent}
    PROVE  /\ Refreshed(view, stored) \in Views
           /\ Refreshed(view, stored).belief \in {view.belief, stored, Absent}
BY DEF Refreshed, NoView, Views, Entry

\* What reconciling and revising make of a view is a view, and they
\* believe nothing but what they are given.
LEMMA RevisionType ==
    ASSUME NEW view \in Views, NEW stored \in Entry \cup {Absent}, NEW new \in Entry
    PROVE  /\ Reconciled(view, stored) \in Views /\ Revised(view, new) \in Views
           /\ Reconciled(view, stored).belief \in {view.belief, stored}
           /\ Revised(view, new).belief \in {view.belief, new}
           /\ [Revised(view, new) EXCEPT !.belief = new] \in Views
           /\ [Revised(view, new) EXCEPT !.belief = new].belief = new
<1>1. new.imp \in Levels /\ view.belief \in Entry \cup {Absent} /\ view.ent \in Levels \cup {0}
  BY DEF Views, Entry
<1>2. Raised(view, new.imp) \in Levels \cup {0}
  BY <1>1 DEF Raised
<1>3. Revised(view, new) \in Views /\ Revised(view, new).belief \in {view.belief, new}
  BY <1>1, <1>2 DEF Revised, Views
<1>4. stored # Absent => stored \in Entry /\ stored.imp \in Levels
  BY DEF Entry
<1>5. Reconciled(view, stored) \in Views /\ Reconciled(view, stored).belief \in {view.belief, stored}
  BY <1>1, <1>4 DEF Reconciled, Views
<1>6. /\ [Revised(view, new) EXCEPT !.belief = new] \in Views
      /\ [Revised(view, new) EXCEPT !.belief = new].belief = new
  BY <1>3 DEF Views
<1>. QED  BY <1>3, <1>5, <1>6

-----------------------------------------------------------------------------
(* Type correctness *)

LEMMA InitTypeOK == Init => TypeOK
BY WritesAssumption DEF Init, TypeOK, Empty, Table

\* A process that believes a view leaves beliefs and entrenchments well typed.
LEMMA BelieveType ==
    ASSUME TypeOK, NEW p \in Procs, NEW k \in Keys, NEW view \in Views, Believe(p, k, view)
    PROVE  beliefs' \in [Procs -> Table] /\ ent' \in [Procs -> [Keys -> Levels \cup {0}]]
BY DEF TypeOK, Views, Believe, Table

\* What the upsert stores is the same write.
LEMMA StoredType ==
    ASSUME TypeOK, NEW k \in Keys, NEW e \in Entry
    PROVE  Stored(k, e) \in Entry /\ SameWrite(Stored(k, e), e)
<1>1. rows[k] # Absent => rows[k] \in Entry /\ rows[k].made \in 1..MaxWrites
  BY DEF TypeOK, Table, Entry
<1>. QED  BY <1>1 DEF Stored, Entry, SameWrite

\* What an accepted write leaves in beliefs and in the running call.
LEMMA WriteType ==
    ASSUME TypeOK, NEW p \in Procs, NEW k \in Keys, NEW op \in {"commit", "revise", "consolidate"},
           NEW e \in Entry, call' = [call EXCEPT ![p] = Saving(op, k, e)]
    PROVE  /\ call' \in [Procs -> Calls \cup {NoCall}]
           /\ \A q \in Procs : call'[q] # NoCall =>
                 IF call'[q].op = "forget" THEN call'[q].at = "log" ELSE call'[q].entry \in Entry
<1>1. Saving(op, k, e) \in Calls /\ Saving(op, k, e).op = op /\ Saving(op, k, e).entry = e
  BY DEF Saving, Calls, Ops
<1>2. call \in [Procs -> Calls \cup {NoCall}]
  BY DEF TypeOK
<1>3. call' \in [Procs -> Calls \cup {NoCall}]
  BY <1>1, <1>2
<1>4. \A q \in Procs : call'[q] = IF q = p THEN Saving(op, k, e) ELSE call[q]
  BY <1>2
<1>. QED  BY <1>1, <1>3, <1>4 DEF TypeOK

LEMMA NextTypeOK == TypeOK /\ [Next]_vars => TypeOK'
<1>. SUFFICES ASSUME TypeOK, [Next]_vars  PROVE TypeOK'
  OBVIOUS
<1>1. ASSUME NEW p \in Procs, NEW k \in Keys, NEW v \in Values, NEW imp \in Levels, Commit(p, k, v, imp)
      PROVE  TypeOK'
  <2> DEFINE e == [val |-> v, imp |-> imp, made |-> writes', upd |-> writes']
             view == Reconciled(View(p, k), rows[k])
  <2>1. writes' \in 1..MaxWrites
    BY <1>1, WritesAssumption DEF Commit, BeginWrite, TypeOK
  <2>2. e \in Entry
    BY <2>1 DEF Entry
  <2>3. view \in Views /\ Revised(view, e) \in Views
    BY <2>2, ViewType, RevisionType
  <2>4. call' = [call EXCEPT ![p] = Saving("commit", k, e)] \/ call' = call
    BY <1>1 DEF Commit
  <2>5. /\ call' \in [Procs -> Calls \cup {NoCall}]
        /\ \A q \in Procs : call'[q] # NoCall =>
              IF call'[q].op = "forget" THEN call'[q].at = "log" ELSE call'[q].entry \in Entry
    BY <2>2, <2>4, WriteType DEF TypeOK
  <2>6. Believe(p, k, Revised(view, e)) \/ Believe(p, k, view)
    BY <1>1 DEF Commit
  <2>7. beliefs' \in [Procs -> Table] /\ ent' \in [Procs -> [Keys -> Levels \cup {0}]]
    BY <2>3, <2>6, BelieveType
  <2>8. UNCHANGED <<rows, log, copies, sweep, faults, gone, pruned>>
    BY <1>1 DEF Commit
  <2>. QED  BY <2>1, <2>5, <2>7, <2>8 DEF TypeOK
<1>2. ASSUME NEW p \in Procs, NEW k \in Keys, NEW v \in Values, NEW imp \in Levels,
             NEW s \in Strategies, Revise(p, k, v, imp, s)
      PROVE  TypeOK'
  <2> DEFINE view == Refreshed(View(p, k), rows[k])
             made == IF rows[k] = Absent THEN writes' ELSE rows[k].made
             e    == [val |-> v, imp |-> imp, made |-> made, upd |-> writes']
  <2>1. writes' \in 1..MaxWrites
    BY <1>2, WritesAssumption DEF Revise, BeginWrite, TypeOK
  <2>2. e \in Entry
    BY <2>1 DEF Entry, TypeOK, Table
  <2>3. view \in Views /\ [Revised(view, e) EXCEPT !.belief = e] \in Views
    BY <2>2, ViewType, RefreshedType, RevisionType
  <2>4. call' = [call EXCEPT ![p] = Saving("revise", k, e)] \/ call' = call
    BY <1>2 DEF Revise
  <2>5. /\ call' \in [Procs -> Calls \cup {NoCall}]
        /\ \A q \in Procs : call'[q] # NoCall =>
              IF call'[q].op = "forget" THEN call'[q].at = "log" ELSE call'[q].entry \in Entry
    BY <2>2, <2>4, WriteType DEF TypeOK
  <2>6. Believe(p, k, [Revised(view, e) EXCEPT !.belief = e]) \/ Believe(p, k, view)
    BY <1>2 DEF Revise
  <2>7. beliefs' \in [Procs -> Table] /\ ent' \in [Procs -> [Keys -> Levels \cup {0}]]
    BY <2>3, <2>6, BelieveType
  <2>8. UNCHANGED <<rows, log, copies, sweep, faults, gone, pruned>>
    BY <1>2 DEF Revise
  <2>. QED  BY <2>1, <2>5, <2>7, <2>8 DEF TypeOK
<1>3. ASSUME NEW p \in Procs, Save(p)  PROVE TypeOK'
  <2> DEFINE c == call[p]
  <2>1. c \in Calls /\ c.key \in Keys /\ c.entry \in Entry
    BY <1>3 DEF Save, TypeOK, Calls
  <2>2. Stored(c.key, c.entry) \in Entry
    BY <2>1, StoredType
  <2>3. rows' \in Table
    BY <1>3, <2>1, <2>2 DEF Save, TypeOK, Table
  <2>4. [c EXCEPT !.at = "log"] \in Calls
    BY <2>1 DEF Calls
  <2>5. call' \in [Procs -> Calls \cup {NoCall}]
    BY <1>3, <2>4 DEF Save, TypeOK
  <2>6. \A q \in Procs : call'[q] # NoCall =>
           IF call'[q].op = "forget" THEN call'[q].at = "log" ELSE call'[q].entry \in Entry
    BY <1>3, <2>1 DEF Save, TypeOK, Calls
  <2>7. UNCHANGED <<log, beliefs, ent, copies, sweep, writes, faults>> 
        /\ gone' \subseteq gone /\ pruned' \subseteq pruned
    BY <1>3 DEF Save
  <2>. QED  BY <2>3, <2>5, <2>6, <2>7 DEF TypeOK
<1>4. ASSUME NEW p \in Procs, LogRow(p)  PROVE TypeOK'
  <2> DEFINE c == call[p]
             logged == IF c.op = "forget" THEN Absent ELSE c.entry.val
  <2>1. c \in Calls /\ logged \in Values \cup {Absent}
    BY <1>4 DEF LogRow, TypeOK, Entry
  <2>2. log' \in [Keys -> Values \cup {Absent}]
    BY <1>4, <2>1 DEF LogRow, TypeOK, Calls
  <2>3. /\ call' = [call EXCEPT ![p] = NoCall]
        /\ UNCHANGED <<rows, beliefs, ent, copies, sweep, writes, faults, gone, pruned>>
    BY <1>4 DEF LogRow
  <2>. QED  BY <2>2, <2>3 DEF TypeOK
<1>5. ASSUME NEW p \in Procs, Fail(p)  PROVE TypeOK'
  <2>1. Empty \in Table /\ faults' \in 0..MaxFaults
    BY <1>5, WritesAssumption DEF Empty, Table, Fail, TypeOK
  <2>. QED  BY <1>5, <2>1 DEF Fail, TypeOK
<1>6. ASSUME NEW p \in Procs, NEW k \in Keys, Recall(p, k)  PROVE TypeOK'
  <2>1. Refreshed(View(p, k), rows[k]) \in Views
    BY ViewType, RefreshedType
  <2>2. beliefs' \in [Procs -> Table] /\ ent' \in [Procs -> [Keys -> Levels \cup {0}]]
    BY <1>6, <2>1, BelieveType DEF Recall
  <2>. QED  BY <1>6, <2>2 DEF Recall, TypeOK
<1>7. ASSUME NEW p \in Procs, NEW k \in Keys, Forget(p, k)  PROVE TypeOK'
  <2>1. NoView \in Views /\ Logging("forget", k, Absent) \in Calls
    BY DEF NoView, Views, Logging, Calls, Ops
  <2>2. beliefs' \in [Procs -> Table] /\ ent' \in [Procs -> [Keys -> Levels \cup {0}]]
    BY <1>7, <2>1, BelieveType DEF Forget, TypeOK
  <2>3. rows' \in Table /\ copies' \in [Procs -> Table]
    BY <1>7 DEF Forget, TypeOK, Table
  <2>4. /\ call' \in [Procs -> Calls \cup {NoCall}]
        /\ \A q \in Procs : call'[q] # NoCall =>
              IF call'[q].op = "forget" THEN call'[q].at = "log" ELSE call'[q].entry \in Entry
    BY <1>7, <2>1 DEF Forget, TypeOK, Logging
  <2>5. gone' \subseteq Keys \X Values
    BY <1>7 DEF Forget, TypeOK, Table, Entry
  <2>. QED  BY <1>7, <2>2, <2>3, <2>4, <2>5 DEF Forget, TypeOK
<1>8. ASSUME NEW p \in Procs, NEW k \in Keys, ForgetRaises(p, k)  PROVE TypeOK'
  BY <1>8, WritesAssumption DEF ForgetRaises, TypeOK, Table
<1>9. ASSUME NEW p \in Procs, NEW k \in Keys, Consolidate(p, k)  PROVE TypeOK'
  <2> DEFINE e == [copies[p][k] EXCEPT !.upd = writes']
  <2>1. copies' \in [Procs -> Table]
    BY <1>9 DEF Consolidate, TypeOK, Table
  <2>2. UNCHANGED <<rows, log, beliefs, ent, sweep, faults, gone, pruned>>
    BY <1>9 DEF Consolidate
  <2>3. CASE rows[k] # Absent
    BY <1>9, <2>1, <2>2, <2>3 DEF Consolidate, TypeOK
  <2>4. CASE rows[k] = Absent
    <3>1. writes' \in 1..MaxWrites
      BY <1>9, <2>4, WritesAssumption DEF Consolidate, BeginWrite, TypeOK
    <3>2. copies[p][k] \in Entry
      BY <1>9 DEF Consolidate, TypeOK, Table
    <3>5. e \in Entry
      BY <3>1, <3>2 DEF Entry
    <3>3. call' = [call EXCEPT ![p] = Saving("consolidate", k, e)]
      BY <1>9, <2>4 DEF Consolidate
    <3>4. /\ call' \in [Procs -> Calls \cup {NoCall}]
          /\ \A q \in Procs : call'[q] # NoCall =>
                IF call'[q].op = "forget" THEN call'[q].at = "log" ELSE call'[q].entry \in Entry
      BY <3>5, <3>3, WriteType
    <3>. QED  BY <2>1, <2>2, <3>1, <3>4 DEF TypeOK
  <2>. QED  BY <2>3, <2>4
<1>10. ASSUME NEW p \in Procs, DecayRead(p)  PROVE TypeOK'
  <2>1. sweep' \in [Procs -> Table]
    BY <1>10 DEF DecayRead, TypeOK
  <2>. QED  BY <1>10, <2>1 DEF DecayRead, TypeOK
<1>11. ASSUME NEW p \in Procs, NEW k \in Keys, DecayRestore(p, k)  PROVE TypeOK'
  <2>1. Stored(k, sweep[p][k]) \in Entry
    BY <1>11, StoredType DEF DecayRestore, TypeOK, Table
  <2>2. rows' \in Table /\ sweep' \in [Procs -> Table]
    BY <1>11, <2>1 DEF DecayRestore, TypeOK, Table
  <2>. QED  BY <1>11, <2>2 DEF DecayRestore, TypeOK
<1>12. ASSUME NEW p \in Procs, Restart(p)  PROVE TypeOK'
  <2> DEFINE from(set) == [k \in Keys |-> IF k \in set THEN rows[k] ELSE Absent]
             level(k)  == IF rows[k] = Absent THEN 0 ELSE rows[k].imp
             loaded    == {k \in Keys : level(k) >= Neutral}
             raised    == [k \in Keys |-> IF k \in loaded THEN rows[k].imp ELSE 0]
  <2>1. Empty \in Table /\ \A set : from(set) \in Table
    BY DEF Empty, TypeOK, Table
  <2>2. \A k \in loaded : rows[k] # Absent
    BY LevelsAssumption
  <2>3. raised \in [Keys -> Levels \cup {0}]
    BY <2>2 DEF TypeOK, Table, Entry
  <2>4. faults' \in 0..MaxFaults
    BY <1>12, WritesAssumption DEF Restart, TypeOK
  <2>5. \E warmed : copies' = [copies EXCEPT ![p] = from(warmed)]
    BY <1>12 DEF Restart
  <2>6. /\ beliefs' = [beliefs EXCEPT ![p] = from(loaded)]
        /\ ent' = [ent EXCEPT ![p] = raised]
        /\ call' = [call EXCEPT ![p] = NoCall]
        /\ sweep' = [sweep EXCEPT ![p] = Empty]
        /\ UNCHANGED <<rows, log, writes, gone, pruned>>
    BY <1>12 DEF Restart
  <2>. HIDE DEF from, loaded, raised
  <2>. QED  BY <2>1, <2>3, <2>4, <2>5, <2>6 DEF TypeOK
<1>13. ASSUME NEW p \in Procs, NEW k \in Keys, DecayPrune(p, k)  PROVE TypeOK'
  <2>1. rows' \in Table /\ sweep' \in [Procs -> Table]
    BY <1>13 DEF DecayPrune, TypeOK, Table
  <2>2. copies' \in [Procs -> Table] /\ pruned' \subseteq Keys
    <3>1. \/ UNCHANGED <<copies, pruned>>
          \/ copies' = [copies EXCEPT ![p][k] = Absent] /\ pruned' = pruned \cup {k}
      BY <1>13 DEF DecayPrune
    <3>2. CASE UNCHANGED <<copies, pruned>>
      BY <3>2 DEF TypeOK
    <3>3. CASE copies' = [copies EXCEPT ![p][k] = Absent] /\ pruned' = pruned \cup {k}
      BY <3>3 DEF TypeOK, Table
    <3>. QED  BY <3>1, <3>2, <3>3
  <2>. QED  BY <1>13, <2>1, <2>2 DEF DecayPrune, TypeOK
<1>14. ASSUME NEW p \in Procs, NEW k \in Keys, DecaySkip(p, k)  PROVE TypeOK'
  <2>1. sweep' \in [Procs -> Table]
    BY <1>14 DEF DecaySkip, TypeOK, Table
  <2>. QED  BY <1>14, <2>1 DEF DecaySkip, TypeOK
<1>15. CASE UNCHANGED vars
  BY <1>15 DEF vars, TypeOK
<1>. QED
  BY <1>1, <1>2, <1>3, <1>4, <1>5, <1>6, <1>7, <1>8, <1>9, <1>10, <1>11, <1>12, <1>13, <1>14, <1>15 DEF Next

\* Every variable keeps its type, and what a call saves is an entry.
THEOREM TypeCorrect == Spec => []TypeOK
BY InitTypeOK, NextTypeOK, PTL DEF Spec

-----------------------------------------------------------------------------
(* Where the entries kept after a step come from *)

\* Entry e of key k was kept before the step, or is of the step's new write f.
From(e, k, f) ==
    \/ \E a \in Entry : Kept(a, k) /\ SameWrite(a, e)
    \/ writes < f.upd /\ f.upd <= writes' /\ SameWrite(f, e)

RowsFrom(f)    == \A k \in Keys : rows'[k] \in Entry => From(rows'[k], k, f)
BeliefsFrom(f) == \A p \in Procs, k \in Keys : beliefs'[p][k] \in Entry => From(beliefs'[p][k], k, f)
CopiesFrom(f)  == \A p \in Procs, k \in Keys : copies'[p][k] \in Entry => From(copies'[p][k], k, f)
SweepFrom(f)   == \A p \in Procs, k \in Keys : sweep'[p][k] \in Entry => From(sweep'[p][k], k, f)
CallFrom(f)    == \A p \in Procs : call'[p] # NoCall /\ call'[p].entry \in Entry =>
                      From(call'[p].entry, call'[p].key, f)

\* What is kept already is kept from before.
LEMMA KeptIsFrom ==
    ASSUME NEW k \in Keys, NEW e \in Entry, NEW f, Kept(e, k)
    PROVE  From(e, k, f)
BY DEF From, SameWrite

\* A variable that does not change holds only what was kept.
LEMMA UnchangedFrom ==
    ASSUME TypeOK, NEW f
    PROVE  /\ rows' = rows => RowsFrom(f)
           /\ beliefs' = beliefs => BeliefsFrom(f)
           /\ copies' = copies => CopiesFrom(f)
           /\ sweep' = sweep => SweepFrom(f)
           /\ call' = call => CallFrom(f)
<1>1. rows' = rows => RowsFrom(f)
  BY KeptIsFrom DEF RowsFrom, Kept
<1>2. beliefs' = beliefs => BeliefsFrom(f)
  BY KeptIsFrom DEF BeliefsFrom, Kept
<1>3. copies' = copies => CopiesFrom(f)
  BY KeptIsFrom DEF CopiesFrom, Kept
<1>4. sweep' = sweep => SweepFrom(f)
  BY KeptIsFrom DEF SweepFrom, Kept
<1>5. call' = call => CallFrom(f)
  <2>1. \A q \in Procs : call[q] # NoCall => call[q].key \in Keys
    BY DEF TypeOK, Calls
  <2>. QED  BY <2>1, KeptIsFrom DEF CallFrom, Kept
<1>. QED  BY <1>1, <1>2, <1>3, <1>4, <1>5

\* Believing something kept, or the new write, keeps beliefs in order.
LEMMA BelievedFrom ==
    ASSUME TypeOK, NEW p \in Procs, NEW k \in Keys, NEW view, NEW f, Believe(p, k, view),
           view.belief \in Entry => From(view.belief, k, f)
    PROVE  BeliefsFrom(f)
<1>1. \A q \in Procs, j \in Keys :
         beliefs'[q][j] = IF q = p /\ j = k THEN view.belief ELSE beliefs[q][j]
  BY DEF Believe, TypeOK, Table
<1>2. \A q \in Procs, j \in Keys : beliefs[q][j] \in Entry => From(beliefs[q][j], j, f)
  BY KeptIsFrom DEF Kept
<1>. QED  BY <1>1, <1>2 DEF BeliefsFrom

\* So does a call that saves something kept, or the new write.
LEMMA SavedFrom ==
    ASSUME TypeOK, NEW p \in Procs, NEW k \in Keys, NEW op, NEW e, NEW f,
           call' = [call EXCEPT ![p] = Saving(op, k, e)], From(e, k, f)
    PROVE  CallFrom(f)
<1>1. \A q \in Procs : call'[q] = IF q = p THEN Saving(op, k, e) ELSE call[q]
  BY DEF TypeOK
<1>2. Saving(op, k, e).entry = e /\ Saving(op, k, e).key = k
  BY DEF Saving
<1>3. \A q \in Procs : call[q] # NoCall => call[q].key \in Keys
  BY DEF TypeOK, Calls
<1>4. \A q \in Procs : call[q] # NoCall /\ call[q].entry \in Entry => From(call[q].entry, call[q].key, f)
  BY <1>3, KeptIsFrom DEF Kept
<1>. QED  BY <1>1, <1>2, <1>4 DEF CallFrom

\* A process that ends its call or drops its slots keeps nothing new.
LEMMA DroppedFrom ==
    ASSUME TypeOK, NEW p \in Procs, NEW f
    PROVE  /\ call' = [call EXCEPT ![p] = NoCall] => CallFrom(f)
           /\ sweep' = [sweep EXCEPT ![p] = Empty] => SweepFrom(f)
           /\ \A k \in Keys : copies' = [copies EXCEPT ![p][k] = Absent] => CopiesFrom(f)
<1>1. ASSUME call' = [call EXCEPT ![p] = NoCall]  PROVE CallFrom(f)
  <2>1. \A q \in Procs : call'[q] # NoCall => call'[q] = call[q] /\ call[q].key \in Keys
    BY <1>1 DEF TypeOK, Calls
  <2>. QED  BY <2>1, KeptIsFrom DEF CallFrom, Kept
<1>2. ASSUME sweep' = [sweep EXCEPT ![p] = Empty]  PROVE SweepFrom(f)
  <2>1. \A q \in Procs, k \in Keys : sweep'[q][k] \in {sweep[q][k], Absent}
    BY <1>2 DEF TypeOK, Empty, Table
  <2>. QED  BY <2>1, AbsentAssumption, KeptIsFrom DEF SweepFrom, Kept
<1>3. ASSUME NEW k \in Keys, copies' = [copies EXCEPT ![p][k] = Absent]  PROVE CopiesFrom(f)
  <2>1. \A q \in Procs, j \in Keys : copies'[q][j] \in {copies[q][j], Absent}
    BY <1>3 DEF TypeOK, Table
  <2>. QED  BY <2>1, AbsentAssumption, KeptIsFrom DEF CopiesFrom, Kept
<1>. QED  BY <1>1, <1>2, <1>3

\* If all that is kept after a step comes from before it or is of one new
\* write, the numbers still tell the writes.
LEMMA KeptStep ==
    ASSUME IInv, TypeOK', NEW f, writes <= writes', f.upd \in Int,
           RowsFrom(f), BeliefsFrom(f), CopiesFrom(f), SweepFrom(f), CallFrom(f)
    PROVE  IInv'
<1>1. \A k \in Keys : \A e \in Entry : Kept(e, k)' => From(e, k, f)
  <2>. SUFFICES ASSUME NEW k \in Keys, NEW e \in Entry, Kept(e, k)'  PROVE From(e, k, f)
    OBVIOUS
  <2>1. CASE rows'[k] = e
    BY <2>1 DEF RowsFrom
  <2>2. CASE \E p \in Procs : e \in {beliefs'[p][k], copies'[p][k], sweep'[p][k]}
    BY <2>2 DEF BeliefsFrom, CopiesFrom, SweepFrom
  <2>3. CASE \E p \in Procs : call'[p] # NoCall /\ call'[p].key = k /\ call'[p].entry = e
    BY <2>3 DEF CallFrom
  <2>. QED  BY <2>1, <2>2, <2>3 DEF Kept, NoCall
<1>2. writes \in Int /\ writes' \in Int /\ \A e \in Entry : e.upd \in Int
  BY WritesAssumption DEF IInv, TypeOK, Entry
<1>3. StampsAreUsed'
  BY <1>1, <1>2 DEF IInv, StampsAreUsed, From, SameWrite
<1>4. ASSUME NEW k \in Keys, NEW a \in Entry, NEW b \in Entry,
             Kept(a, k)', Kept(b, k)', a.upd = b.upd
      PROVE  SameWrite(a, b)
  <2>1. From(a, k, f) /\ From(b, k, f)
    BY <1>1, <1>4
  <2>2. \A c \in Entry : Kept(c, k) => c.upd <= writes
    BY DEF IInv, StampsAreUsed
  <2>3. CASE \E c \in Entry, d \in Entry :
                Kept(c, k) /\ SameWrite(c, a) /\ Kept(d, k) /\ SameWrite(d, b)
    BY <1>4, <2>3 DEF IInv, StampsTellWrites, SameWrite
  <2>4. CASE SameWrite(f, a) /\ SameWrite(f, b)
    BY <2>4 DEF SameWrite
  <2>. QED  BY <1>2, <1>4, <2>1, <2>2, <2>3, <2>4 DEF From, SameWrite
<1>5. StampsTellWrites'
  BY <1>4 DEF StampsTellWrites, SameWrite
<1>. QED  BY <1>3, <1>5 DEF IInv

LEMMA InitIInv == Init => IInv
<1>. SUFFICES ASSUME Init  PROVE IInv
  OBVIOUS
<1>1. \A k \in Keys : \A e \in Entry : ~Kept(e, k)
  BY AbsentAssumption DEF Init, Kept, Empty
<1>. QED  BY <1>1, InitTypeOK DEF IInv, StampsTellWrites, StampsAreUsed

LEMMA NextIInv == IInv /\ [Next]_vars => IInv'
<1>. SUFFICES ASSUME IInv, [Next]_vars  PROVE IInv'
  OBVIOUS
<1>0. TypeOK /\ TypeOK'
  BY NextTypeOK DEF IInv
<1>1. ASSUME NEW p \in Procs, NEW k \in Keys, NEW v \in Values, NEW imp \in Levels, Commit(p, k, v, imp)
      PROVE  IInv'
  <2> DEFINE e == [val |-> v, imp |-> imp, made |-> writes', upd |-> writes']
             view == Reconciled(View(p, k), rows[k])
  <2>1. writes' \in 1..MaxWrites /\ writes' = writes + 1 /\ writes \in Int
    BY <1>0, <1>1, WritesAssumption DEF Commit, BeginWrite, TypeOK
  <2>2. e \in Entry
    BY <2>1 DEF Entry
  <2>3. From(e, k, e)
    BY <2>1 DEF From, SameWrite
  <2>4. /\ view.belief \in {beliefs[p][k], rows[k]}
        /\ Revised(view, e).belief \in {view.belief, e}
    BY <1>0, <2>2, ViewType, RevisionType DEF View
  <2>5. view.belief \in Entry => From(view.belief, k, e)
    BY <2>4, KeptIsFrom DEF Kept
  <2>6. Believe(p, k, Revised(view, e)) \/ Believe(p, k, view)
    BY <1>1 DEF Commit
  <2>7. BeliefsFrom(e)
    BY <1>0, <2>3, <2>4, <2>5, <2>6, BelievedFrom
  <2>8. call' = [call EXCEPT ![p] = Saving("commit", k, e)] \/ call' = call
    BY <1>1 DEF Commit
  <2>9. RowsFrom(e) /\ CopiesFrom(e) /\ SweepFrom(e) /\ CallFrom(e)
    BY <1>0, <1>1, <2>3, <2>8, SavedFrom, UnchangedFrom DEF Commit
  <2>. QED  BY <1>0, <2>1, <2>7, <2>9, KeptStep
<1>2. ASSUME NEW p \in Procs, NEW k \in Keys, NEW v \in Values, NEW imp \in Levels,
             NEW s \in Strategies, Revise(p, k, v, imp, s)
      PROVE  IInv'
  <2> DEFINE view == Refreshed(View(p, k), rows[k])
             made == IF rows[k] = Absent THEN writes' ELSE rows[k].made
             e    == [val |-> v, imp |-> imp, made |-> made, upd |-> writes']
  <2>1. writes' \in 1..MaxWrites /\ writes' = writes + 1 /\ writes \in Int
    BY <1>0, <1>2, WritesAssumption DEF Revise, BeginWrite, TypeOK
  <2>2. e \in Entry
    BY <1>0, <2>1 DEF Entry, TypeOK, Table
  <2>3. From(e, k, e)
    BY <2>1 DEF From, SameWrite
  <2>4. /\ view.belief \in {beliefs[p][k], rows[k], Absent}
        /\ [Revised(view, e) EXCEPT !.belief = e].belief = e
    BY <1>0, <2>2, ViewType, RefreshedType, RevisionType DEF View
  <2>5. view.belief \in Entry => From(view.belief, k, e)
    BY <2>4, AbsentAssumption, KeptIsFrom DEF Kept
  <2>6. Believe(p, k, [Revised(view, e) EXCEPT !.belief = e]) \/ Believe(p, k, view)
    BY <1>2 DEF Revise
  <2>7. BeliefsFrom(e)
    BY <1>0, <2>3, <2>4, <2>5, <2>6, BelievedFrom
  <2>8. call' = [call EXCEPT ![p] = Saving("revise", k, e)] \/ call' = call
    BY <1>2 DEF Revise
  <2>9. RowsFrom(e) /\ CopiesFrom(e) /\ SweepFrom(e) /\ CallFrom(e)
    BY <1>0, <1>2, <2>3, <2>8, SavedFrom, UnchangedFrom DEF Revise
  <2>. QED  BY <1>0, <2>1, <2>7, <2>9, KeptStep
<1>. DEFINE old == [upd |-> 0]
<1>a. old.upd \in Int /\ (writes' = writes => writes <= writes')
  BY <1>0 DEF TypeOK
<1>3. ASSUME NEW p \in Procs, Save(p)  PROVE IInv'
  <2> DEFINE c == call[p]
  <2>1. c # NoCall /\ c \in Calls /\ c.key \in Keys /\ c.entry \in Entry
    BY <1>0, <1>3 DEF Save, TypeOK, Calls
  <2>2. Kept(c.entry, c.key)
    BY <2>1 DEF Kept
  <2>3. From(Stored(c.key, c.entry), c.key, old)
    BY <1>0, <2>1, <2>2, StoredType DEF From, SameWrite
  <2>4. \A k \in Keys : rows'[k] = IF k = c.key THEN Stored(c.key, c.entry) ELSE rows[k]
    BY <1>0, <1>3 DEF Save, TypeOK, Table
  <2>5. RowsFrom(old)
    BY <2>3, <2>4, KeptIsFrom DEF RowsFrom, Kept
  <2>6. \A q \in Procs : call'[q] # NoCall =>
           /\ call[q] # NoCall /\ call[q].key \in Keys
           /\ call'[q].entry = call[q].entry /\ call'[q].key = call[q].key
    BY <1>0, <1>3, <2>1 DEF Save, TypeOK, Calls
  <2>7. CallFrom(old)
    BY <2>6, KeptIsFrom DEF CallFrom, Kept
  <2>8. UNCHANGED <<beliefs, copies, sweep, writes>>
    BY <1>3 DEF Save
  <2>. QED  BY <1>0, <1>a, <2>5, <2>7, <2>8, UnchangedFrom, KeptStep
<1>4. ASSUME NEW p \in Procs, LogRow(p)  PROVE IInv'
  <2>1. call' = [call EXCEPT ![p] = NoCall] /\ UNCHANGED <<rows, beliefs, copies, sweep, writes>>
    BY <1>4 DEF LogRow
  <2>. QED  BY <1>0, <1>a, <2>1, DroppedFrom, UnchangedFrom, KeptStep
<1>5. ASSUME NEW p \in Procs, Fail(p)  PROVE IInv'
  <2>1. /\ call' = [call EXCEPT ![p] = NoCall] /\ sweep' = [sweep EXCEPT ![p] = Empty]
        /\ UNCHANGED <<rows, beliefs, copies, writes>>
    BY <1>5 DEF Fail
  <2>. QED  BY <1>0, <1>a, <2>1, DroppedFrom, UnchangedFrom, KeptStep
<1>6. ASSUME NEW p \in Procs, NEW k \in Keys, Recall(p, k)  PROVE IInv'
  <2> DEFINE view == Refreshed(View(p, k), rows[k])
  <2>1. view.belief \in {beliefs[p][k], rows[k], Absent}
    BY <1>0, ViewType, RefreshedType DEF View
  <2>2. view.belief \in Entry => From(view.belief, k, old)
    BY <2>1, AbsentAssumption, KeptIsFrom DEF Kept
  <2>3. Believe(p, k, view) /\ UNCHANGED <<rows, copies, sweep, call, writes>>
    BY <1>6 DEF Recall
  <2>4. BeliefsFrom(old)
    BY <1>0, <2>2, <2>3, BelievedFrom
  <2>. QED  BY <1>0, <1>a, <2>3, <2>4, UnchangedFrom, KeptStep
<1>7. ASSUME NEW p \in Procs, NEW k \in Keys, Forget(p, k)  PROVE IInv'
  <2>1. BeliefsFrom(old)
    <3>1. NoView.belief \notin Entry
      BY AbsentAssumption DEF NoView
    <3>. QED  BY <1>0, <1>7, <3>1, BelievedFrom, UnchangedFrom DEF Forget
  <2>2. RowsFrom(old)
    <3>1. \A j \in Keys : rows'[j] \in {rows[j], Absent}
      BY <1>0, <1>7 DEF Forget, TypeOK, Table
    <3>. QED  BY <3>1, AbsentAssumption, KeptIsFrom DEF RowsFrom, Kept
  <2>3. CallFrom(old)
    <3>1. \A q \in Procs : call'[q] = call[q] \/ call'[q].entry = Absent
      BY <1>0, <1>7 DEF Forget, TypeOK, Logging
    <3>2. \A q \in Procs : call[q] # NoCall => call[q].key \in Keys
      BY <1>0 DEF TypeOK, Calls
    <3>. QED  BY <3>1, <3>2, AbsentAssumption, KeptIsFrom DEF CallFrom, Kept
  <2>4. copies' = [copies EXCEPT ![p][k] = Absent] /\ UNCHANGED <<sweep, writes>>
    BY <1>7 DEF Forget
  <2>. QED  BY <1>0, <1>a, <2>1, <2>2, <2>3, <2>4, DroppedFrom, UnchangedFrom, KeptStep
<1>8. ASSUME NEW p \in Procs, NEW k \in Keys, ForgetRaises(p, k)  PROVE IInv'
  <2>1. /\ copies' = [copies EXCEPT ![p][k] = Absent]
        /\ UNCHANGED <<rows, beliefs, sweep, call, writes>>
    BY <1>8 DEF ForgetRaises
  <2>. QED  BY <1>0, <1>a, <2>1, DroppedFrom, UnchangedFrom, KeptStep
<1>9. ASSUME NEW p \in Procs, NEW k \in Keys, Consolidate(p, k)  PROVE IInv'
  <2> DEFINE e == [copies[p][k] EXCEPT !.upd = writes']
  <2>1. /\ copies' = [copies EXCEPT ![p][k] = Absent]
        /\ UNCHANGED <<rows, beliefs, sweep>>
    BY <1>9 DEF Consolidate
  <2>2. CASE rows[k] # Absent
    <3>1. UNCHANGED <<call, writes>>
      BY <1>9, <2>2 DEF Consolidate
    <3>. QED  BY <1>0, <1>a, <2>1, <3>1, DroppedFrom, UnchangedFrom, KeptStep
  <2>3. CASE rows[k] = Absent
    <3>1. writes' \in 1..MaxWrites /\ writes' = writes + 1 /\ writes \in Int
      BY <1>0, <1>9, <2>3, WritesAssumption DEF Consolidate, BeginWrite, TypeOK
    <3>2. copies[p][k] \in Entry
      BY <1>0, <1>9 DEF Consolidate, TypeOK, Table
    <3>3. e.upd = writes'
      BY <3>2 DEF Entry
    <3>4. From(e, k, e)
      BY <3>1, <3>3 DEF From, SameWrite
    <3>5. call' = [call EXCEPT ![p] = Saving("consolidate", k, e)]
      BY <1>9, <2>3 DEF Consolidate
    <3>6. RowsFrom(e) /\ BeliefsFrom(e) /\ CopiesFrom(e) /\ SweepFrom(e)
      BY <1>0, <2>1, DroppedFrom, UnchangedFrom
    <3>7. CallFrom(e)
      BY <1>0, <3>4, <3>5, SavedFrom
    <3>. HIDE DEF e
    <3>. QED  BY <1>0, <3>1, <3>3, <3>6, <3>7, KeptStep
  <2>. QED  BY <2>2, <2>3
<1>10. ASSUME NEW p \in Procs, DecayRead(p)  PROVE IInv'
  <2>1. sweep' = [sweep EXCEPT ![p] = rows] /\ UNCHANGED <<rows, beliefs, copies, call, writes>>
    BY <1>10 DEF DecayRead
  <2>2. \A q \in Procs, k \in Keys : sweep'[q][k] \in {sweep[q][k], rows[k]}
    BY <1>0, <2>1 DEF TypeOK
  <2>3. SweepFrom(old)
    BY <2>2, KeptIsFrom DEF SweepFrom, Kept
  <2>. QED  BY <1>0, <1>a, <2>1, <2>3, UnchangedFrom, KeptStep
<1>11. ASSUME NEW p \in Procs, NEW k \in Keys, DecayRestore(p, k)  PROVE IInv'
  <2>1. sweep[p][k] \in Entry
    BY <1>0, <1>11 DEF DecayRestore, TypeOK, Table
  <2>2. From(Stored(k, sweep[p][k]), k, old)
    BY <1>0, <2>1, StoredType DEF From, SameWrite, Kept
  <2>3. \A j \in Keys : rows'[j] = IF j = k THEN Stored(k, sweep[p][k]) ELSE rows[j]
    BY <1>0, <1>11 DEF DecayRestore, TypeOK, Table
  <2>4. RowsFrom(old)
    BY <2>2, <2>3, KeptIsFrom DEF RowsFrom, Kept
  <2>5. \A q \in Procs, j \in Keys : sweep'[q][j] \in {sweep[q][j], Absent}
    BY <1>0, <1>11 DEF DecayRestore, TypeOK, Table
  <2>6. SweepFrom(old)
    BY <2>5, AbsentAssumption, KeptIsFrom DEF SweepFrom, Kept
  <2>7. UNCHANGED <<beliefs, copies, call, writes>>
    BY <1>11 DEF DecayRestore
  <2>. QED  BY <1>0, <1>a, <2>4, <2>6, <2>7, UnchangedFrom, KeptStep
<1>12. ASSUME NEW p \in Procs, Restart(p)  PROVE IInv'
  <2>1. \A q \in Procs, k \in Keys : beliefs'[q][k] \in {beliefs[q][k], rows[k], Absent}
    BY <1>0, <1>12 DEF Restart, TypeOK
  <2>2. \A q \in Procs, k \in Keys : copies'[q][k] \in {copies[q][k], rows[k], Absent}
    BY <1>0, <1>12 DEF Restart, TypeOK
  <2>3. BeliefsFrom(old) /\ CopiesFrom(old)
    BY <2>1, <2>2, AbsentAssumption, KeptIsFrom DEF BeliefsFrom, CopiesFrom, Kept
  <2>4. /\ call' = [call EXCEPT ![p] = NoCall] /\ sweep' = [sweep EXCEPT ![p] = Empty]
        /\ UNCHANGED <<rows, writes>>
    BY <1>12 DEF Restart
  <2>. QED  BY <1>0, <1>a, <2>3, <2>4, DroppedFrom, UnchangedFrom, KeptStep
<1>13. ASSUME NEW p \in Procs, NEW k \in Keys, DecayPrune(p, k)  PROVE IInv'
  <2>1. RowsFrom(old)
    <3>1. \A j \in Keys : rows'[j] \in {rows[j], Absent}
      BY <1>0, <1>13 DEF DecayPrune, TypeOK, Table
    <3>. QED  BY <3>1, AbsentAssumption, KeptIsFrom DEF RowsFrom, Kept
  <2>2. SweepFrom(old)
    <3>1. \A q \in Procs, j \in Keys : sweep'[q][j] \in {sweep[q][j], Absent}
      BY <1>0, <1>13 DEF DecayPrune, TypeOK, Table
    <3>. QED  BY <3>1, AbsentAssumption, KeptIsFrom DEF SweepFrom, Kept
  <2>3. /\ copies' = copies \/ copies' = [copies EXCEPT ![p][k] = Absent]
        /\ UNCHANGED <<beliefs, call, writes>>
    BY <1>13 DEF DecayPrune
  <2>. QED  BY <1>0, <1>a, <2>1, <2>2, <2>3, DroppedFrom, UnchangedFrom, KeptStep
<1>14. ASSUME NEW p \in Procs, NEW k \in Keys, DecaySkip(p, k)  PROVE IInv'
  <2>1. \A q \in Procs, j \in Keys : sweep'[q][j] \in {sweep[q][j], Absent}
    BY <1>0, <1>14 DEF DecaySkip, TypeOK, Table
  <2>2. SweepFrom(old)
    BY <2>1, AbsentAssumption, KeptIsFrom DEF SweepFrom, Kept
  <2>3. UNCHANGED <<rows, beliefs, copies, call, writes>>
    BY <1>14 DEF DecaySkip
  <2>. QED  BY <1>0, <1>a, <2>2, <2>3, UnchangedFrom, KeptStep
<1>15. CASE UNCHANGED vars
  BY <1>0, <1>a, <1>15, UnchangedFrom, KeptStep DEF vars
<1>. QED
  BY <1>1, <1>2, <1>3, <1>4, <1>5, <1>6, <1>7, <1>8, <1>9, <1>10, <1>11, <1>12, <1>13, <1>14, <1>15 DEF Next

-----------------------------------------------------------------------------
(* What recall gives *)

\* Entries of the same number are of the same write, so a cached belief that
\* looks current is, and refreshing leaves only what is stored.
LEMMA StampsGiveHealing == IInv => BeliefsHeal
<1>. SUFFICES ASSUME IInv  PROVE BeliefsHeal
  OBVIOUS
<1>1. \A p \in Procs, k \in Keys : beliefs[p][k] # Absent =>
         beliefs[p][k] \in Entry /\ Kept(beliefs[p][k], k)
  BY DEF IInv, TypeOK, Table, Kept
<1>2. \A k \in Keys : rows[k] # Absent => rows[k] \in Entry /\ Kept(rows[k], k)
  BY DEF IInv, TypeOK, Table, Kept
<1>3. StampsAgree
  BY <1>1, <1>2 DEF IInv, StampsTellWrites, StampsAgree, SameWrite
<1>4. RecallHeals
  BY <1>3 DEF StampsAgree, RecallHeals, Refreshed, View, NoView
<1>. QED  BY <1>3, <1>4 DEF BeliefsHeal

\* Whatever the processes write, forget or fail to write, a recall would leave
\* each believing only what is stored (_refresh_cached_belief).
THEOREM BeliefsAlwaysHeal == Spec => []BeliefsHeal
<1>1. Init => IInv
  BY InitIInv
<1>2. IInv /\ [Next]_vars => IInv'
  BY NextIInv
<1>3. IInv => BeliefsHeal
  BY StampsGiveHealing
<1>. QED  BY <1>1, <1>2, <1>3, PTL DEF Spec

-----------------------------------------------------------------------------
(* The least number of a set *)

\* The induction theorems of the library take an operator; a set of intervals,
\* which are well ordered by inclusion, does instead.
LEMMA LeastNumber ==
    ASSUME NEW S \in SUBSET Nat, S # {}
    PROVE  \E n \in S : \A m \in S : n <= m
<1> DEFINE R == StrictSubsetOrdering(Nat)
           T == {1..n : n \in S}
<1>1. IsWellFoundedOn(R, FiniteSubsetsOf(Nat))
  BY FS_StrictSubsetOrderingWellFounded
<1>2. T \subseteq FiniteSubsetsOf(Nat) /\ T # {}
  <2>1. \A n \in S : IsFiniteSet(1..n) /\ 1..n \in SUBSET Nat
    BY FS_Interval
  <2>. QED  BY <2>1 DEF FiniteSubsetsOf
<1>3. \E x \in T : \A y \in T : ~(<<y, x>> \in R)
  <2>. HIDE DEF R, T
  <2>. QED  BY <1>1, <1>2, WFMin
<1>4. PICK n \in S : \A m \in S : ~(<<1..m, 1..n>> \in R)
  BY <1>3
<1>5. ASSUME NEW m \in S, m < n  PROVE FALSE
  <2>1. /\ 1..m \in SUBSET Nat /\ 1..n \in SUBSET Nat
        /\ 1..m \subseteq 1..n /\ n \in 1..n /\ n \notin 1..m
    BY <1>5
  <2>2. <<1..m, 1..n>> \in R
    BY <2>1 DEF StrictSubsetOrdering
  <2>. QED  BY <1>4, <2>2
<1>. QED  BY <1>5

-----------------------------------------------------------------------------
(* The engine *)

\* The engine and its ghosts: what the log holds, and how many that can be.
Records == [n : Nat, key : Procs, affected : BOOLEAN]

EngineType ==
    /\ eng \in [beliefs : [Procs -> Offers \cup {Absent}], entrench : [Procs -> Nat],
                log : SUBSET Records, total : Nat]
    /\ held \in [Procs -> SUBSET Nat]
    /\ about \in Seq(Procs) /\ Len(about) = eng.total
    /\ purged \in [Procs -> Nat]

\* The entrenchment of a key says what it was believed with, if it is believed.
RankKept ==
    \A k \in Procs :
        IF eng.beliefs[k] = Absent THEN eng.entrench[k] = 0 /\ held[k] = {}
        ELSE /\ eng.entrench[k] \in held[k] /\ eng.beliefs[k].imp \in held[k]
             /\ \A i \in held[k] : i <= eng.entrench[k]

\* Records differ by their numbers, and there are not too many of them.
LogFits ==
    /\ \A r, s \in eng.log : r.n = s.n => r = s
    /\ IsFiniteSet(eng.log) /\ Cardinality(eng.log) <= LogSize
    /\ eng.total <= MaxOps
    /\ \A k \in Procs : purged[k] <= eng.total

EngineInv == EngineType /\ RankKept /\ LogFits /\ EN!LogIsRecent

\* Numbered records of a small span are few.
LEMMA FewNumbers ==
    ASSUME NEW L, NEW a \in Nat, NEW b \in Nat, IsFiniteSet(L), a <= b,
           \A r \in L : r.n \in a..b,
           \A r, s \in L : r.n = s.n => r = s
    PROVE  Cardinality(L) <= b - a + 1
<1> DEFINE f == [r \in L |-> r.n]
<1>1. f \in Injection(L, a..b)
  BY DEF Injection, IsInjective
<1>2. IsFiniteSet(a..b) /\ Cardinality(a..b) = b - a + 1
  BY FS_Interval
<1>. QED  BY <1>1, <1>2, FS_Injection

LEMMA EngineCardinality == ASSUME NEW S  PROVE EN!Cardinality(S) = Cardinality(S)
BY DEF EN!Cardinality, Cardinality

\* What a record leaves of the log.
LEMMA RecordedLog ==
    ASSUME NEW recs \in SUBSET Records, IsFiniteSet(recs), Cardinality(recs) <= LogSize,
           NEW t \in Nat, NEW k \in Procs, NEW affected \in BOOLEAN,
           \A r \in recs : r.n \in 1..t,
           \A r, s \in recs : r.n = s.n => r = s
    PROVE  LET L == recs \cup {[n |-> t + 1, key |-> k, affected |-> affected]}
               M == IF Cardinality(L) > LogSize THEN EN!ButOldest(L) ELSE L
           IN  /\ M \subseteq L /\ L \in SUBSET Records
               /\ \A r, s \in L : r.n = s.n => r = s
               /\ IsFiniteSet(M) /\ Cardinality(M) <= LogSize
               /\ \A r \in L : r.n > t + 1 - LogSize => r \in M
<1> DEFINE new == [n |-> t + 1, key |-> k, affected |-> affected]
           L   == recs \cup {new}
           M   == IF Cardinality(L) > LogSize THEN EN!ButOldest(L) ELSE L
<1>1. LogSize \in Nat
  BY EngineConstants DEF EN!ConstantsFit
<1>2. new \in Records /\ new.n = t + 1
  BY DEF Records
<1>3. M \subseteq L /\ L \in SUBSET Records
  BY <1>2 DEF EN!ButOldest
<1>. HIDE DEF new, M
<1>4. \A r \in L : r.n \in 1..(t + 1)
  BY <1>2
<1>5. \A r, s \in L : r.n = s.n => r = s
  BY <1>2
<1>6. /\ IsFiniteSet(L) /\ Cardinality(L) \in Nat /\ Cardinality(L) <= LogSize + 1
      /\ Cardinality(recs) \in Nat
  <2>1. Cardinality(recs) \in Nat
    BY FS_CardinalityType
  <2>2. IsFiniteSet(L) /\ (Cardinality(L) = Cardinality(recs) \/ Cardinality(L) = Cardinality(recs) + 1)
    BY FS_AddElement
  <2>. QED  BY <1>1, <2>1, <2>2
<1>7. IsFiniteSet(M) /\ Cardinality(M) \in Nat
  BY <1>3, <1>6, FS_Subset, FS_CardinalityType
<1>8. ASSUME Cardinality(L) > LogSize
      PROVE  /\ Cardinality(M) <= LogSize
             /\ \A r \in L : r.n > t + 1 - LogSize => r \in M
  <2> DEFINE N == {r.n : r \in L}
  <2>1. N \in SUBSET Nat /\ N # {}
    BY <1>2, <1>4
  <2>2. PICK m \in N : \A i \in N : m <= i
    <3>. HIDE DEF N
    <3>. QED  BY <2>1, LeastNumber
  <2>3. PICK o \in L : o.n = m
    OBVIOUS
  <2>4. \A r \in L : o.n <= r.n
    BY <2>2, <2>3
  <2>5. M = {r \in L : \E q \in L : q.n < r.n}
    BY <1>8 DEF EN!ButOldest, M
  <2>6. o \notin M
    BY <1>4, <2>4, <2>5
  <2>7. Cardinality(M) <= LogSize
    <3>1. M \subseteq L \ {o} /\ IsFiniteSet(L \ {o}) /\ Cardinality(L \ {o}) = Cardinality(L) - 1
      <4>1. IsFiniteSet(L \ {o}) /\ Cardinality(L \ {o}) = Cardinality(L) - 1
        BY <1>6, <2>3, FS_RemoveElement
      <4>. QED  BY <1>3, <2>6, <4>1
    <3>2. Cardinality(M) <= Cardinality(L \ {o})
      BY <3>1, FS_Subset
    <3>. QED  BY <1>1, <1>6, <1>7, <3>1, <3>2
  <2>8. Cardinality(L) <= (t + 1) - o.n + 1
    <3>1. \A r \in L : r.n \in o.n..(t + 1)
      BY <1>4, <2>3, <2>4
    <3>2. o.n \in Nat /\ t + 1 \in Nat /\ o.n <= t + 1
      BY <1>4, <2>3
    <3>. HIDE DEF L
    <3>. QED  BY <1>5, <1>6, <3>1, <3>2, FewNumbers
  <2>9. o.n <= t + 1 - LogSize
    BY <1>1, <1>4, <1>6, <1>8, <2>3, <2>8
  <2>10. ASSUME NEW r \in L, r.n > t + 1 - LogSize  PROVE r \in M
    <3>1. o.n < r.n
      BY <1>1, <1>4, <2>3, <2>9, <2>10
    <3>. QED  BY <2>3, <2>5, <3>1
  <2>. QED  BY <2>7, <2>10
<1>9. ASSUME ~(Cardinality(L) > LogSize)
      PROVE  Cardinality(M) <= LogSize /\ \A r \in L : r \in M
  BY <1>1, <1>6, <1>9 DEF M
<1>. QED  BY <1>3, <1>5, <1>7, <1>8, <1>9 DEF M, new

Engines == [beliefs : [Procs -> Offers \cup {Absent}], entrench : [Procs -> Nat],
            log : SUBSET Records, total : Nat]

\* g is the engine but for key k,
OnlyAt(g, k) ==
    \A j \in Procs : j # k => g.beliefs[j] = eng.beliefs[j] /\ g.entrench[j] = eng.entrench[j]

\* it ranks k by what k was believed with before, or anew, and is believed with now,
GoodRank(g, k, anew) ==
    LET now == (IF anew THEN {} ELSE held[k]) \cup {g.beliefs[k].imp}
    IN  IF g.beliefs[k] = Absent THEN g.entrench[k] = 0
        ELSE g.entrench[k] \in now /\ \A i \in now : i <= g.entrench[k]

\* and it recorded nothing, or one operation on k.
Unrecorded(g) == g.log = eng.log /\ g.total = eng.total

RecordedOnce(g, k) ==
    \E affected \in BOOLEAN :
        LET L == eng.log \cup {[n |-> eng.total + 1, key |-> k, affected |-> affected]}
        IN  /\ g.log = IF Cardinality(L) > LogSize THEN EN!ButOldest(L) ELSE L
            /\ g.total = eng.total + 1

LEMMA EngineStep ==
    ASSUME EngineInv, NEW k \in Procs, NEW anew \in BOOLEAN, NEW g \in Engines,
           OnlyAt(g, k), GoodRank(g, k, anew), Unrecorded(g) \/ RecordedOnce(g, k),
           EN!Becomes(g, k, anew), UNCHANGED purged
    PROVE  EngineInv'
<1>0. /\ eng' = g /\ g.total <= MaxOps
      /\ held' = [held EXCEPT ![k] = IF g.beliefs[k] = Absent THEN {}
                                     ELSE (IF anew THEN {} ELSE @) \cup {g.beliefs[k].imp}]
      /\ about' = IF g.total > eng.total THEN Append(about, k) ELSE about
      /\ purged' = purged
  BY DEF EN!Becomes
<1>1. /\ eng \in Engines /\ held \in [Procs -> SUBSET Nat] /\ about \in Seq(Procs)
      /\ Len(about) = eng.total /\ purged \in [Procs -> Nat] /\ eng.total \in Nat
  BY DEF EngineInv, EngineType, Engines
<1>2. g.total \in Nat /\ g.beliefs \in [Procs -> Offers \cup {Absent}] /\ g.entrench \in [Procs -> Nat]
  BY DEF Engines
<1>3. g.beliefs[k] # Absent => g.beliefs[k].imp \in Nat
  BY <1>2, EngineConstants DEF EN!ConstantsFit
<1>4. held' \in [Procs -> SUBSET Nat]
  <2>1. (IF g.beliefs[k] = Absent THEN {}
         ELSE (IF anew THEN {} ELSE held[k]) \cup {g.beliefs[k].imp}) \in SUBSET Nat
    BY <1>1, <1>3
  <2>. QED  BY <1>0, <1>1, <2>1
<1>5. RankKept'
  <2>. SUFFICES ASSUME NEW j \in Procs
                PROVE  IF g.beliefs[j] = Absent THEN g.entrench[j] = 0 /\ held'[j] = {}
                       ELSE /\ g.entrench[j] \in held'[j] /\ g.beliefs[j].imp \in held'[j]
                            /\ \A i \in held'[j] : i <= g.entrench[j]
    BY <1>0 DEF RankKept
  <2>1. CASE j = k
    BY <1>0, <1>1, <2>1 DEF GoodRank
  <2>2. CASE j # k
    BY <1>0, <1>1, <2>2 DEF OnlyAt, EngineInv, RankKept
  <2>. QED  BY <2>1, <2>2
<1>6. CASE Unrecorded(g)
  <2>1. about' = about
    BY <1>0, <1>1, <1>6 DEF Unrecorded
  <2>. QED  BY <1>0, <1>1, <1>4, <1>5, <1>6, <2>1
            DEF EngineInv, EngineType, Engines, LogFits, Unrecorded, EN!LogIsRecent
<1>7. CASE RecordedOnce(g, k)
  <2>1. PICK affected \in BOOLEAN :
           LET L == eng.log \cup {[n |-> eng.total + 1, key |-> k, affected |-> affected]}
           IN  /\ g.log = IF Cardinality(L) > LogSize THEN EN!ButOldest(L) ELSE L
               /\ g.total = eng.total + 1
    BY <1>7 DEF RecordedOnce
  <2> DEFINE new == [n |-> eng.total + 1, key |-> k, affected |-> affected]
             L   == eng.log \cup {new}
             M   == IF Cardinality(L) > LogSize THEN EN!ButOldest(L) ELSE L
  <2>2. g.log = M /\ g.total = eng.total + 1
    BY <2>1
  <2>3. /\ eng.log \in SUBSET Records /\ IsFiniteSet(eng.log) /\ Cardinality(eng.log) <= LogSize
        /\ \A r \in eng.log : r.n \in 1..eng.total /\ r.key = about[r.n] /\ r.n > purged[r.key]
        /\ \A r, s \in eng.log : r.n = s.n => r = s
        /\ \A n \in 1..eng.total :
              n > eng.total - LogSize /\ n > purged[about[n]] => \E r \in eng.log : r.n = n
    BY <1>1 DEF EngineInv, LogFits, EN!LogIsRecent, Engines
  <2>4. /\ M \subseteq L /\ L \in SUBSET Records
        /\ \A r, s \in L : r.n = s.n => r = s
        /\ IsFiniteSet(M) /\ Cardinality(M) <= LogSize
        /\ \A r \in L : r.n > eng.total + 1 - LogSize => r \in M
    <3>1. \A r \in eng.log : r.n \in 1..eng.total
      BY <2>3
    <3>2. eng.total \in Nat /\ eng.log \in SUBSET Records /\ IsFiniteSet(eng.log)
      BY <1>1, <2>3
    <3>3. /\ Cardinality(eng.log) <= LogSize /\ \A r, s \in eng.log : r.n = s.n => r = s
      BY <2>3
    <3>. QED  BY <3>1, <3>2, <3>3, RecordedLog
  <2>5. about' = Append(about, k) /\ Len(about') = eng.total + 1
        /\ about' \in Seq(Procs) /\ about'[eng.total + 1] = k
        /\ \A n \in 1..eng.total : about'[n] = about[n]
    <3>1. about' = Append(about, k)
      BY <1>0, <1>1, <2>2
    <3>. QED  BY <1>1, <3>1, AppendProperties
  <2>6. purged[k] <= eng.total
    BY DEF EngineInv, LogFits
  <2>7. ASSUME NEW r \in L
        PROVE  r.n \in 1..(eng.total + 1) /\ r.key = about'[r.n] /\ r.n > purged[r.key]
    <3>1. CASE r \in eng.log
      BY <1>1, <2>3, <2>5, <3>1
    <3>2. CASE r = new
      BY <1>1, <2>5, <2>6, <3>2
    <3>. QED  BY <3>1, <3>2
  <2>8. ASSUME NEW n \in 1..(eng.total + 1), n > eng.total + 1 - LogSize, n > purged[about'[n]]
        PROVE  \E r \in M : r.n = n
    <3>1. \E r \in L : r.n = n
      <4>1. CASE n = eng.total + 1
        <5>1. new \in L /\ new.n = n
          BY <4>1
        <5>. QED  BY <5>1
      <4>2. CASE n \in 1..eng.total
        <5>1. n > eng.total - LogSize
          BY <1>1, <2>8, EngineConstants DEF EN!ConstantsFit
        <5>. QED  BY <2>3, <2>5, <2>8, <4>2, <5>1
      <4>. QED  BY <1>1, <4>1, <4>2
    <3>. QED  BY <2>4, <2>8, <3>1
  <2>9. EN!LogIsRecent'
    <3>. HIDE DEF L, M
    <3>1. \A r \in M : r.n \in 1..(eng.total + 1) /\ r.key = about'[r.n] /\ r.n > purged[r.key]
      BY <2>4, <2>7
    <3>2. eng'.log = M /\ eng'.total = eng.total + 1 /\ purged' = purged
      BY <1>0, <2>2
    <3>a. LogSize \in Nat
      BY EngineConstants DEF EN!ConstantsFit
    <3>3. \A r \in eng'.log : r.n \in 1..eng'.total /\ r.key = about'[r.n] /\ r.n > purged'[r.key]
      BY <3>1, <3>2
    <3>4. \A n \in 1..eng'.total :
             n > eng'.total - LogSize /\ n > purged'[about'[n]] => \E r \in eng'.log : r.n = n
      <4>. SUFFICES ASSUME NEW n \in 1..(eng.total + 1), n > eng.total + 1 - LogSize, n > purged[about'[n]]
                    PROVE  \E r \in M : r.n = n
        BY <1>1, <3>2, <3>a
      <4>. QED  BY <2>8
    <3>. QED  BY <3>3, <3>4 DEF EN!LogIsRecent
  <2>10. LogFits'
    <3>. HIDE DEF L, M
    <3>1. \A r, s \in M : r.n = s.n => r = s
      BY <2>4
    <3>2. \A j \in Procs : purged[j] <= eng.total + 1
      BY <1>1 DEF EngineInv, LogFits
    <3>. QED  BY <1>0, <2>2, <2>4, <3>1, <3>2 DEF LogFits
  <2>. QED  BY <1>0, <1>1, <1>4, <1>5, <2>2, <2>5, <2>9, <2>10 DEF EngineInv, EngineType, Engines
<1>. QED  BY <1>6, <1>7

-----------------------------------------------------------------------------
(* What the operations make of the engine *)

\* Believing an offer ranks its key by it and by what was believed before.
LEMMA AddedRank ==
    ASSUME EngineInv, NEW k \in Procs, NEW e \in Offers
    PROVE  LET g == EN!Added(eng, k, e)
           IN  g \in Engines /\ OnlyAt(g, k) /\ GoodRank(g, k, FALSE) /\ Unrecorded(g)
<1>1. /\ eng \in Engines /\ held[k] \in SUBSET Nat
      /\ eng.entrench[k] \in Nat /\ eng.entrench \in [Procs -> Nat]
      /\ eng.beliefs \in [Procs -> Offers \cup {Absent}]
  BY DEF EngineInv, EngineType, Engines
<1>2. e.imp \in Nat /\ e # Absent
  BY EngineConstants DEF EN!ConstantsFit
<1> DEFINE rank == EN!Greater(eng.entrench[k], e.imp)
<1>3. rank \in {eng.entrench[k], e.imp} /\ eng.entrench[k] <= rank /\ e.imp <= rank /\ rank \in Nat
  BY <1>1, <1>2 DEF EN!Greater
<1>. DEFINE g == EN!Added(eng, k, e)
<1>4. g = [eng EXCEPT !.beliefs = [eng.beliefs EXCEPT ![k] = e],
                      !.entrench = [eng.entrench EXCEPT ![k] = rank]]
  BY DEF EN!Added
<1>a. ASSUME NEW b \in [Procs -> Offers \cup {Absent}], NEW f \in [Procs -> Nat]
      PROVE  LET h == [eng EXCEPT !.beliefs = b, !.entrench = f]
             IN  /\ h \in Engines /\ h.log = eng.log /\ h.total = eng.total
                 /\ h.beliefs = b /\ h.entrench = f
  BY <1>1 DEF Engines
<1>. HIDE DEF rank, g
<1>5. /\ g \in Engines /\ g.log = eng.log /\ g.total = eng.total
      /\ g.beliefs = [eng.beliefs EXCEPT ![k] = e] /\ g.entrench = [eng.entrench EXCEPT ![k] = rank]
  BY <1>1, <1>3, <1>4, <1>a DEF Engines
<1>6. OnlyAt(g, k)
  BY <1>1, <1>5 DEF OnlyAt
<1>7. g.beliefs[k] = e /\ g.entrench[k] = rank
  BY <1>1, <1>5
<1>8. IF eng.beliefs[k] = Absent THEN eng.entrench[k] = 0 /\ held[k] = {}
      ELSE eng.entrench[k] \in held[k] /\ \A i \in held[k] : i <= eng.entrench[k]
  BY DEF EngineInv, RankKept
<1>9. rank \in held[k] \cup {e.imp} /\ \A i \in held[k] \cup {e.imp} : i <= rank
  BY <1>1, <1>2, <1>3, <1>8
<1>10. GoodRank(g, k, FALSE)
  BY <1>2, <1>7, <1>9 DEF GoodRank
<1>. QED  BY <1>5, <1>6, <1>10 DEF g, Unrecorded

\* The engine as it is ranks its keys well.
LEMMA SameRank ==
    ASSUME EngineInv, NEW k \in Procs
    PROVE  eng \in Engines /\ OnlyAt(eng, k) /\ GoodRank(eng, k, FALSE) /\ Unrecorded(eng)
<1>1. eng \in Engines /\ OnlyAt(eng, k) /\ Unrecorded(eng)
  BY DEF EngineInv, EngineType, Engines, OnlyAt, Unrecorded
<1>2. IF eng.beliefs[k] = Absent THEN eng.entrench[k] = 0 /\ held[k] = {}
      ELSE /\ eng.entrench[k] \in held[k] /\ eng.beliefs[k].imp \in held[k]
           /\ \A i \in held[k] : i <= eng.entrench[k]
  BY DEF EngineInv, RankKept
<1>3. GoodRank(eng, k, FALSE)
  BY <1>2 DEF GoodRank
<1>. QED  BY <1>1, <1>3

\* A record leaves beliefs and ranks as they are.
LEMMA RecordedRank ==
    ASSUME NEW k \in Procs, NEW affected \in BOOLEAN, NEW anew \in BOOLEAN, NEW g \in Engines,
           OnlyAt(g, k), GoodRank(g, k, anew), Unrecorded(g)
    PROVE  LET h == EN!Recorded(g, k, affected)
           IN  h \in Engines /\ OnlyAt(h, k) /\ GoodRank(h, k, anew) /\ RecordedOnce(h, k)
<1> DEFINE new == [n |-> g.total + 1, key |-> k, affected |-> affected]
           L   == g.log \cup {new}
           M   == IF Cardinality(L) > LogSize THEN EN!ButOldest(L) ELSE L
           h   == [g EXCEPT !.log = M, !.total = @ + 1]
<1>1. EN!Recorded(g, k, affected) = h
  BY EngineCardinality DEF EN!Recorded
<1>2. L \in SUBSET Records
  BY DEF Engines, Records
<1>3. M \in SUBSET Records
  <2>. HIDE DEF L
  <2>. QED  BY <1>2 DEF EN!ButOldest
<1>. HIDE DEF M
<1>4. /\ h \in Engines /\ h.beliefs = g.beliefs /\ h.entrench = g.entrench
      /\ h.log = M /\ h.total = g.total + 1
  <2>1. g.total \in Nat /\ g.total + 1 \in Nat
    BY DEF Engines
  <2>2. ASSUME NEW t \in Nat, NEW R \in SUBSET Records
        PROVE  LET f == [g EXCEPT !.log = R, !.total = t]
               IN  /\ f \in Engines /\ f.beliefs = g.beliefs /\ f.entrench = g.entrench
                   /\ f.log = R /\ f.total = t
    BY DEF Engines
  <2>. QED  BY <1>3, <2>1, <2>2
<1>. HIDE DEF h
<1>5. OnlyAt(h, k) /\ GoodRank(h, k, anew)
  BY <1>4 DEF OnlyAt, GoodRank
<1>6. RecordedOnce(h, k)
  BY <1>4 DEF RecordedOnce, Unrecorded, M
<1>. QED  BY <1>1, <1>4, <1>5, <1>6

LEMMA ContractedRank ==
    ASSUME EngineInv, NEW k \in Procs
    PROVE  LET g == EN!Contracted(eng, k)
           IN  g \in Engines /\ OnlyAt(g, k) /\ GoodRank(g, k, FALSE) /\ (Unrecorded(g) \/ RecordedOnce(g, k))
<1>1. CASE eng.beliefs[k] = Absent
  BY <1>1, SameRank DEF EN!Contracted
<1>2. CASE eng.beliefs[k] # Absent
  <2> DEFINE g == [eng EXCEPT !.beliefs[k] = Absent, !.entrench[k] = 0]
  <2>1. eng \in Engines
    BY SameRank
  <2>2. g \in Engines /\ OnlyAt(g, k) /\ Unrecorded(g) /\ g.beliefs[k] = Absent /\ g.entrench[k] = 0
    <3>1. /\ g \in Engines /\ g.log = eng.log /\ g.total = eng.total
          /\ g.beliefs = [eng.beliefs EXCEPT ![k] = Absent] /\ g.entrench = [eng.entrench EXCEPT ![k] = 0]
      BY <2>1 DEF Engines
    <3>2. eng.beliefs \in [Procs -> Offers \cup {Absent}] /\ eng.entrench \in [Procs -> Nat]
      BY <2>1 DEF Engines
    <3>. HIDE DEF g
    <3>3. /\ g.beliefs[k] = Absent /\ g.entrench[k] = 0
          /\ \A j \in Procs : j # k => g.beliefs[j] = eng.beliefs[j] /\ g.entrench[j] = eng.entrench[j]
      BY <3>1, <3>2
    <3>. QED  BY <3>1, <3>3 DEF OnlyAt, Unrecorded
  <2>3. GoodRank(g, k, FALSE)
    BY <2>2 DEF GoodRank
  <2>4. EN!Contracted(eng, k) = EN!Recorded(g, k, TRUE)
    BY <1>2 DEF EN!Contracted
  <2>. HIDE DEF g
  <2>. QED  BY <2>2, <2>3, <2>4, RecordedRank
<1>. QED  BY <1>1, <1>2

LEMMA ReconciledRank ==
    ASSUME EngineInv, NEW k \in Procs, NEW e \in Offers
    PROVE  LET g == EN!Reconciled(eng, k, e)
           IN  g \in Engines /\ OnlyAt(g, k) /\ GoodRank(g, k, TRUE) /\ Unrecorded(g)
<1> DEFINE g == EN!Reconciled(eng, k, e)
<1>1. eng \in Engines
  BY SameRank
<1>2. e.imp \in Nat /\ e # Absent
  BY EngineConstants DEF EN!ConstantsFit
<1>3. eng.beliefs \in [Procs -> Offers \cup {Absent}] /\ eng.entrench \in [Procs -> Nat]
  BY <1>1 DEF Engines
<1>4. /\ g \in Engines /\ g.log = eng.log /\ g.total = eng.total
      /\ g.beliefs = [eng.beliefs EXCEPT ![k] = e] /\ g.entrench = [eng.entrench EXCEPT ![k] = e.imp]
  BY <1>1, <1>2 DEF Engines, EN!Reconciled
<1>. HIDE DEF g
<1>5. /\ g.beliefs[k] = e /\ g.entrench[k] = e.imp
      /\ \A j \in Procs : j # k => g.beliefs[j] = eng.beliefs[j] /\ g.entrench[j] = eng.entrench[j]
  BY <1>3, <1>4
<1>6. GoodRank(g, k, TRUE)
  BY <1>2, <1>5 DEF GoodRank
<1>. QED  BY <1>4, <1>5, <1>6 DEF OnlyAt, Unrecorded, g

\* What is believed, or only recorded, of an offer.
LEMMA OfferedRank ==
    ASSUME EngineInv, NEW k \in Procs, NEW e \in Offers, NEW g,
           g \in {eng, EN!Added(eng, k, e), EN!Recorded(EN!Added(eng, k, e), k, TRUE),
                  EN!Recorded(eng, k, FALSE)}
    PROVE  g \in Engines /\ OnlyAt(g, k) /\ GoodRank(g, k, FALSE) /\ (Unrecorded(g) \/ RecordedOnce(g, k))
<1>1. CASE g = eng
  BY <1>1, SameRank
<1>2. CASE g = EN!Added(eng, k, e)
  BY <1>2, AddedRank
<1>3. CASE g = EN!Recorded(EN!Added(eng, k, e), k, TRUE)
  BY <1>3, AddedRank, RecordedRank
<1>4. CASE g = EN!Recorded(eng, k, FALSE)
  BY <1>4, SameRank, RecordedRank
<1>. QED  BY <1>1, <1>2, <1>3, <1>4

\* Dropping records leaves the log in order.
LEMMA RedactKeeps ==
    ASSUME EngineInv, NEW k \in Procs, EN!Redact(k)
    PROVE  EngineInv'
<1> DEFINE left == {r \in eng.log : r.key # k}
<1>1. /\ eng' = [eng EXCEPT !.log = left] /\ purged' = [purged EXCEPT ![k] = eng.total]
      /\ held' = held /\ about' = about
  BY DEF EN!Redact, EN!Redacted
<1>2. /\ eng \in Engines /\ purged \in [Procs -> Nat] /\ eng.total \in Nat /\ eng.log \in SUBSET Records
      /\ about \in Seq(Procs) /\ Len(about) = eng.total
  BY DEF EngineInv, EngineType, Engines
<1>3. /\ eng' \in Engines /\ eng'.log = left /\ eng'.total = eng.total
      /\ eng'.beliefs = eng.beliefs /\ eng'.entrench = eng.entrench
  BY <1>1, <1>2 DEF Engines
<1>4. /\ \A r \in eng.log : r.n \in 1..eng.total /\ r.key = about[r.n] /\ r.n > purged[r.key]
      /\ \A n \in 1..eng.total :
            n > eng.total - LogSize /\ n > purged[about[n]] => \E r \in eng.log : r.n = n
  BY DEF EngineInv, EN!LogIsRecent
<1>5. \A n \in 1..eng.total : about[n] \in Procs
  BY <1>2, ElementOfSeq
<1>6. \A j \in Procs : purged'[j] = IF j = k THEN eng.total ELSE purged[j]
  BY <1>1, <1>2
<1>7. EN!LogIsRecent'
  <2>1. \A r \in left : r.n \in 1..eng.total /\ r.key = about[r.n] /\ r.n > purged'[r.key]
    BY <1>2, <1>4, <1>6 DEF Records
  <2>2. ASSUME NEW n \in 1..eng.total, n > eng.total - LogSize, n > purged'[about[n]]
        PROVE  \E r \in left : r.n = n
    <3>1. about[n] # k
      BY <1>2, <1>5, <1>6, <2>2
    <3>2. n > purged[about[n]]
      BY <1>5, <1>6, <2>2, <3>1
    <3>. QED  BY <1>4, <2>2, <3>1, <3>2
  <2>. HIDE DEF left
  <2>. QED  BY <1>1, <1>3, <2>1, <2>2 DEF EN!LogIsRecent
<1>8. LogFits'
  <2>1. left \subseteq eng.log
    OBVIOUS
  <2>2. IsFiniteSet(left) /\ Cardinality(left) <= Cardinality(eng.log) /\ Cardinality(left) \in Nat
        /\ Cardinality(eng.log) \in Nat
    BY <2>1, FS_Subset, FS_CardinalityType DEF EngineInv, LogFits
  <2>3. IsFiniteSet(left) /\ Cardinality(left) <= LogSize
    BY <2>2, EngineConstants DEF EngineInv, LogFits, EN!ConstantsFit
  <2>4. \A j \in Procs : purged'[j] <= eng.total
    BY <1>2, <1>6 DEF EngineInv, LogFits
  <2>. QED  BY <1>3, <2>1, <2>3, <2>4 DEF EngineInv, LogFits
<1>9. RankKept'
  BY <1>1, <1>3 DEF EngineInv, RankKept
<1>10. EngineType'
  BY <1>1, <1>2, <1>3 DEF EngineInv, EngineType, Engines
<1>. QED  BY <1>7, <1>8, <1>9, <1>10 DEF EngineInv

LEMMA InitEngineInv == EN!Init => EngineInv
<1>. SUFFICES ASSUME EN!Init  PROVE EngineInv
  OBVIOUS
<1>1. PICK stored \in [Procs -> Offers \cup {Absent}] : eng = EN!Loaded(stored)
  BY DEF EN!Init
<1>2. \A k \in Procs : stored[k] # Absent => stored[k] \in Offers /\ stored[k].imp \in Nat
  BY EngineConstants DEF EN!ConstantsFit
<1>3. /\ eng.log = {} /\ eng.total = 0
      /\ eng.beliefs = [k \in Procs |-> IF stored[k] # Absent /\ stored[k].imp >= Middle THEN stored[k] ELSE Absent]
      /\ eng.entrench = [k \in Procs |-> IF stored[k] # Absent /\ stored[k].imp >= Middle THEN stored[k].imp ELSE 0]
  BY <1>1 DEF EN!Loaded
<1>4. eng.beliefs \in [Procs -> Offers \cup {Absent}] /\ eng.entrench \in [Procs -> Nat]
  BY <1>2, <1>3
<1>5. eng = [beliefs |-> eng.beliefs, entrench |-> eng.entrench, log |-> {}, total |-> 0]
  BY <1>1, <1>3 DEF EN!Loaded
<1>6. \A k \in Procs : IF eng.beliefs[k] = Absent THEN eng.entrench[k] = 0
                       ELSE eng.entrench[k] = eng.beliefs[k].imp /\ eng.beliefs[k].imp \in Nat
  BY <1>2, <1>3
<1>7. held = [k \in Procs |-> IF eng.beliefs[k] = Absent THEN {} ELSE {eng.beliefs[k].imp}]
      /\ about = <<>> /\ purged = [k \in Procs |-> 0]
  BY DEF EN!Init
<1>8. EngineType
  BY <1>4, <1>5, <1>6, <1>7 DEF EngineType
<1>9. RankKept
  BY <1>6, <1>7 DEF RankKept
<1>10. LogFits
  BY <1>3, <1>7, FS_EmptySet, EngineConstants DEF LogFits, EN!ConstantsFit
<1>11. EN!LogIsRecent
  BY <1>3 DEF EN!LogIsRecent
<1>. QED  BY <1>8, <1>9, <1>10, <1>11 DEF EngineInv

LEMMA NextEngineInv == EngineInv /\ [EN!Next]_evars => EngineInv'
<1>. SUFFICES ASSUME EngineInv, [EN!Next]_evars  PROVE EngineInv'
  OBVIOUS
<1>1. ASSUME NEW k \in Procs, EN!Contract(k)  PROVE EngineInv'
  <2>1. EN!Becomes(EN!Contracted(eng, k), k, FALSE) /\ UNCHANGED purged
    BY <1>1 DEF EN!Contract
  <2>. QED  BY <2>1, ContractedRank, EngineStep
<1>2. ASSUME NEW k \in Procs, EN!Redact(k)  PROVE EngineInv'
  BY <1>2, RedactKeeps
<1>3. ASSUME NEW k \in Procs, NEW e \in Offers, NEW g, EN!Becomes(g, k, FALSE), UNCHANGED purged,
             g \in {eng, EN!Added(eng, k, e), EN!Recorded(EN!Added(eng, k, e), k, TRUE),
                    EN!Recorded(eng, k, FALSE)}
      PROVE  EngineInv'
  <2>1. g \in Engines /\ OnlyAt(g, k) /\ GoodRank(g, k, FALSE) /\ (Unrecorded(g) \/ RecordedOnce(g, k))
    BY <1>3, OfferedRank
  <2>. QED  BY <1>3, <2>1, EngineStep
<1>4. ASSUME NEW k \in Procs, NEW e \in Offers, EN!Load(k, e)  PROVE EngineInv'
  BY <1>3, <1>4 DEF EN!Load
<1>5. ASSUME NEW k \in Procs, NEW e \in Offers, EN!Expand(k, e)  PROVE EngineInv'
  <2>1. EN!Becomes(EN!Expanded(eng, k, e), k, FALSE) /\ UNCHANGED purged
    BY <1>5 DEF EN!Expand
  <2>2. EN!Expanded(eng, k, e) \in {eng, EN!Recorded(EN!Added(eng, k, e), k, TRUE)}
    BY DEF EN!Expanded
  <2>. QED  BY <1>3, <2>1, <2>2
<1>6. ASSUME NEW k \in Procs, NEW e \in Offers, EN!Revise(k, e)  PROVE EngineInv'
  <2>1. PICK s \in EN!ConflictStrategy :
           EN!Becomes(EN!Revised(eng, k, e, s), k, FALSE) /\ UNCHANGED purged
    BY <1>6 DEF EN!Revise
  <2>2. EN!Revised(eng, k, e, s) \in
           {eng, EN!Recorded(EN!Added(eng, k, e), k, TRUE), EN!Recorded(eng, k, FALSE)}
    BY DEF EN!Revised
  <2>. QED  BY <1>3, <2>1, <2>2
<1>7. ASSUME NEW k \in Procs, NEW e \in Offers, NEW f \in Offers, EN!Resolve(k, e, f)  PROVE EngineInv'
  <2>1. PICK s \in EN!ConflictStrategy :
           EN!Becomes(EN!Resolved(eng, k, e, f, s), k, FALSE) /\ UNCHANGED purged
    BY <1>7 DEF EN!Resolve
  <2>2. \E o \in Offers : EN!Resolved(eng, k, e, f, s) = EN!Recorded(EN!Added(eng, k, o), k, TRUE)
    BY DEF EN!Resolved
  <2>. QED  BY <1>3, <2>1, <2>2
<1>8. ASSUME NEW k \in Procs, NEW e \in Offers, EN!Reconcile(k, e)  PROVE EngineInv'
  <2>1. EN!Becomes(EN!Reconciled(eng, k, e), k, TRUE) /\ UNCHANGED purged
    BY <1>8 DEF EN!Reconcile
  <2>. QED  BY <2>1, ReconciledRank, EngineStep
<1>9. CASE UNCHANGED evars
  BY <1>9 DEF evars, EngineInv, EngineType, RankKept, LogFits, EN!LogIsRecent
<1>. QED  BY <1>1, <1>2, <1>4, <1>5, <1>6, <1>7, <1>8, <1>9 DEF EN!Next

LEMMA EngineInvGives == EngineInv => EngineRemembers /\ EN!TypeOK
<1>. SUFFICES ASSUME EngineInv  PROVE EngineRemembers /\ EN!TypeOK
  OBVIOUS
<1>1. EN!EntrenchmentIsPeak
  BY DEF EngineInv, RankKept, EN!EntrenchmentIsPeak, EN!Believed
<1>2. EN!TypeOK
  BY EngineCardinality DEF EngineInv, EngineType, LogFits, EN!TypeOK
<1>. QED  BY <1>1, <1>2 DEF EngineInv, EngineRemembers

THEOREM EngineAlwaysRemembers == EN!Spec => []EngineRemembers
<1>1. EN!Init => EngineInv
  BY InitEngineInv
<1>2. EngineInv /\ [EN!Next]_evars => EngineInv'
  BY NextEngineInv
<1>3. EngineInv => EngineRemembers
  BY EngineInvGives
<1>. QED  BY <1>1, <1>2, <1>3, PTL DEF EN!Spec, EN!avars, evars

-----------------------------------------------------------------------------
(* A process alone *)

\* The process is about to save, or to log, a write of key k.
Pending(at, k) == call[p1] # NoCall /\ call[p1].at = at /\ call[p1].key = k

OthersIdle == \A q \in Procs : q # p1 => Free(q) /\ \A k \in Keys : beliefs[q][k] = Absent

\* Value v of key k is stored, or was the last to be logged of a key decay deleted.
Backed(k, v) == IF k \in pruned THEN log[k] = v ELSE rows[k] # Absent /\ rows[k].val = v

\* What the process holds of a key is what is stored, or what a decay pass deleted;
\* of the write it has begun it believes what it is about to save, and logs last
\* what it saved.
HoldsStored(k) ==
    /\ copies[p1][k] # Absent => rows[k] # Absent
    /\ sweep[p1][k] # Absent => rows[k] # Absent /\ rows[k].val = sweep[p1][k].val
    /\ k \in pruned => rows[k] = Absent /\ ~Pending("log", k)
    /\ beliefs[p1][k] # Absent =>
          IF Pending("save", k) THEN beliefs[p1][k].val = call[p1].entry.val
          ELSE Backed(k, beliefs[p1][k].val)
    /\ rows[k] # Absent => <<k, rows[k].val>> \notin gone
    /\ IF Pending("log", k)
       THEN IF call[p1].op = "forget" THEN rows[k] = Absent
            ELSE rows[k] # Absent /\ rows[k].val = call[p1].entry.val
       ELSE k \in pruned \/ log[k] = IF rows[k] = Absent THEN Absent ELSE rows[k].val

AloneInv ==
    /\ TypeOK /\ OthersIdle
    /\ call[p1] # NoCall => call[p1].op # "consolidate" /\ sweep[p1] = Empty
    /\ \A k \in Keys : HoldsStored(k)

\* What the process alone does is what a process among others does, without failures.
AloneNext ==
    \/ \E k \in Keys, v \in Values, imp \in Levels : Commit(p1, k, v, imp)
    \/ \E k \in Keys, v \in Values, imp \in Levels, s \in Strategies : Revise(p1, k, v, imp, s)
    \/ Save(p1) \/ LogRow(p1) \/ DecayRead(p1) \/ (Restart(p1) /\ Free(p1))
    \/ \E k \in Keys : Recall(p1, k) \/ Forget(p1, k) \/ Consolidate(p1, k)
    \/ \E k \in Keys : DecayRestore(p1, k) \/ DecayPrune(p1, k) \/ DecaySkip(p1, k)

LEMMA SoloParts ==
    /\ Solo!NoCall = NoCall /\ Solo!Empty = Empty /\ Solo!NoView = NoView
    /\ \A p, k : Solo!View(p, k) = View(p, k)
    /\ \A v, e : Solo!Refreshed(v, e) = Refreshed(v, e) /\ Solo!Reconciled(v, e) = Reconciled(v, e)
               /\ Solo!Revised(v, e) = Revised(v, e)
    /\ \A v, e, s : Solo!Accepts(v, e, s) <=> Accepts(v, e, s)
    /\ \A k, e : Solo!Stored(k, e) = Stored(k, e)
    /\ \A op, k, e : Solo!Saving(op, k, e) = Saving(op, k, e) /\ Solo!Logging(op, k, e) = Logging(op, k, e)
<1>1. Solo!NoCall = NoCall /\ Solo!Empty = Empty /\ Solo!NoView = NoView
  BY DEF Solo!NoCall, NoCall, Solo!Empty, Empty, Solo!NoView, NoView
<1>2. \A p, k : Solo!View(p, k) = View(p, k)
  BY DEF Solo!View, View
<1>3. \A v, e : Solo!Refreshed(v, e) = Refreshed(v, e)
  BY <1>1 DEF Solo!Refreshed, Refreshed
<1>4. \A v, e : Solo!Reconciled(v, e) = Reconciled(v, e)
  BY DEF Solo!Reconciled, Reconciled
<1>5. \A v, e : Solo!Revised(v, e) = Revised(v, e)
  BY DEF Solo!Revised, Revised, Solo!Raised, Raised
<1>6. \A v, e, s : Solo!Accepts(v, e, s) <=> Accepts(v, e, s)
  BY DEF Solo!Accepts, Accepts, Solo!Conflict, Conflict, Solo!Wins, Wins, Solo!Entrenchment, Entrenchment
<1>7. \A k, e : Solo!Stored(k, e) = Stored(k, e)
  BY DEF Solo!Stored, Stored
<1>8. \A op, k, e : Solo!Saving(op, k, e) = Saving(op, k, e) /\ Solo!Logging(op, k, e) = Logging(op, k, e)
  BY DEF Solo!Saving, Saving, Solo!Logging, Logging
<1>. QED  BY <1>1, <1>2, <1>3, <1>4, <1>5, <1>6, <1>7, <1>8

LEMMA AloneIsOneOfMany ==
    ASSUME faults \in Nat, Solo!Next
    PROVE  AloneNext
<1>1. ASSUME NEW k \in Keys, NEW v \in Values, NEW imp \in Levels, Solo!Commit(p1, k, v, imp)
      PROVE  Commit(p1, k, v, imp)
  BY <1>1, SoloParts DEF Solo!Commit, Commit, Solo!Free, Free, Solo!BeginWrite, BeginWrite, Solo!Believe, Believe
<1>2. ASSUME NEW k \in Keys, NEW v \in Values, NEW imp \in Levels, NEW s \in Strategies,
             Solo!Revise(p1, k, v, imp, s)
      PROVE  Revise(p1, k, v, imp, s)
  BY <1>2, SoloParts DEF Solo!Revise, Revise, Solo!Free, Free, Solo!BeginWrite, BeginWrite, Solo!Believe, Believe
<1>3. Solo!Save(p1) => Save(p1)
  BY SoloParts DEF Solo!Save, Save
<1>4. Solo!LogRow(p1) => LogRow(p1)
  BY SoloParts DEF Solo!LogRow, LogRow
<1>5. ~Solo!Fail(p1) /\ \A k \in Keys : ~Solo!ForgetRaises(p1, k)
  BY DEF Solo!Fail, Solo!ForgetRaises
<1>6. ASSUME NEW k \in Keys
      PROVE  /\ Solo!Recall(p1, k) => Recall(p1, k)
             /\ Solo!Forget(p1, k) => Forget(p1, k)
             /\ Solo!DecayRestore(p1, k) => DecayRestore(p1, k)
             /\ Solo!DecayPrune(p1, k) => DecayPrune(p1, k)
             /\ Solo!DecaySkip(p1, k) => DecaySkip(p1, k)
  <2>1. Solo!Recall(p1, k) => Recall(p1, k)
    BY SoloParts DEF Solo!Recall, Recall, Solo!Free, Free, Solo!Believe, Believe
  <2>2. Solo!Forget(p1, k) => Forget(p1, k)
    BY SoloParts DEF Solo!Forget, Forget, Solo!Free, Free, Solo!Believe, Believe
  <2>3. Solo!DecayRestore(p1, k) => DecayRestore(p1, k)
    BY SoloParts DEF Solo!DecayRestore, DecayRestore
  <2>4. Solo!DecayPrune(p1, k) => DecayPrune(p1, k)
    BY DEF Solo!DecayPrune, DecayPrune
  <2>5. Solo!DecaySkip(p1, k) => DecaySkip(p1, k)
    BY DEF Solo!DecaySkip, DecaySkip
  <2>. QED  BY <2>1, <2>2, <2>3, <2>4, <2>5
<1>7. ASSUME NEW k \in Keys
      PROVE  Solo!Consolidate(p1, k) => Consolidate(p1, k)
  BY SoloParts DEF Solo!Consolidate, Consolidate, Solo!Free, Free, Solo!BeginWrite, BeginWrite
<1>8. Solo!DecayRead(p1) => DecayRead(p1)
  BY SoloParts DEF Solo!DecayRead, DecayRead, Solo!Free, Free
<1>9. Solo!Restart(p1) => Restart(p1) /\ Free(p1)
  <2>1. Solo!Restart(p1) => Free(p1)
    BY SoloParts DEF Solo!Restart, Solo!Free, Free
  <2>2. Solo!Free(p1) <=> Free(p1)
    BY SoloParts DEF Solo!Free, Free
  <2>3. Solo!Restart(p1) => faults' = faults /\ faults' <= MaxFaults
    BY <2>1, <2>2, WritesAssumption DEF Solo!Restart
  <2>. QED  BY <2>1, <2>2, <2>3, SoloParts DEF Solo!Restart, Restart
<1>. QED  BY <1>1, <1>2, <1>3, <1>4, <1>5, <1>6, <1>7, <1>8, <1>9 DEF Solo!Next, AloneNext

LEMMA AloneTypes ==
    ASSUME TypeOK, AloneNext
    PROVE  TypeOK'
<1>1. Next
  BY AloneAssumption DEF AloneNext, Next
<1>. QED  BY <1>1, NextTypeOK

\* Entries keep their values when they are stored over others.
LEMMA StoredValue ==
    ASSUME TypeOK, NEW k \in Keys, NEW e \in Entry
    PROVE  Stored(k, e) # Absent /\ Stored(k, e).val = e.val
BY StoredType, AbsentAssumption DEF SameWrite

\* Nothing changes for the others.
LEMMA OthersStayIdle ==
    ASSUME TypeOK, OthersIdle, AloneNext
    PROVE  OthersIdle'
<1>. SUFFICES ASSUME NEW q \in Procs, q # p1
              PROVE  /\ call'[q] = NoCall /\ sweep'[q] = Empty
                     /\ \A k \in Keys : beliefs'[q][k] = Absent
  BY DEF OthersIdle, Free
<1>1. call[q] = NoCall /\ sweep[q] = Empty /\ \A k \in Keys : beliefs[q][k] = Absent
  BY DEF OthersIdle, Free
<1> DEFINE same == call'[q] = call[q] /\ sweep'[q] = sweep[q] /\ beliefs'[q] = beliefs[q]
<1>2. TypeOK /\ q # p1
  OBVIOUS
<1>3. same
  <2>1. ASSUME NEW k \in Keys, NEW v \in Values, NEW imp \in Levels, Commit(p1, k, v, imp)
        PROVE  same
    BY <1>2, <2>1 DEF Commit, Believe, TypeOK
  <2>2. ASSUME NEW k \in Keys, NEW v \in Values, NEW imp \in Levels, NEW s \in Strategies, Revise(p1, k, v, imp, s)
        PROVE  same
    BY <1>2, <2>2 DEF Revise, Believe, TypeOK
  <2>3. ASSUME Save(p1) \/ LogRow(p1) \/ DecayRead(p1) \/ Restart(p1)
        PROVE  same
    BY <1>2, <2>3 DEF Save, LogRow, DecayRead, Restart, TypeOK
  <2>4. ASSUME NEW k \in Keys, Recall(p1, k) \/ Forget(p1, k) \/ Consolidate(p1, k) \/ DecayRestore(p1, k)
        PROVE  same
    BY <1>2, <2>4 DEF Recall, Forget, Consolidate, DecayRestore, Believe, TypeOK
  <2>5. ASSUME NEW k \in Keys, DecayPrune(p1, k) \/ DecaySkip(p1, k)
        PROVE  same
    BY <1>2, <2>5 DEF DecayPrune, DecaySkip, TypeOK
  <2>. HIDE DEF same
  <2>. QED  BY <2>1, <2>2, <2>3, <2>4, <2>5 DEF AloneNext
<1>. QED  BY <1>1, <1>3

\* A call that has changed only what is believed of its key, and what is to be saved.
LEMMA BegunKeeps ==
    ASSUME AloneInv, TypeOK', OthersIdle', NEW k \in Keys, NEW op \in {"commit", "revise"}, NEW e \in Entry,
           NEW view \in Views, Free(p1), UNCHANGED <<rows, log, copies, sweep, gone, pruned>>, Believe(p1, k, view),
           \/ call' = [call EXCEPT ![p1] = Saving(op, k, e)] /\ view.belief # Absent /\ view.belief.val = e.val
           \/ call' = call /\ (view.belief # Absent => Backed(k, view.belief.val))
    PROVE  AloneInv'
<1>1. /\ TypeOK /\ call[p1] = NoCall /\ sweep[p1] = Empty /\ p1 \in Procs
      /\ \A j \in Keys : ~Pending("save", j) /\ ~Pending("log", j)
  BY AloneAssumption DEF AloneInv, Free, Pending
<1>2. \A j \in Keys : beliefs'[p1][j] = IF j = k THEN view.belief ELSE beliefs[p1][j]
  BY <1>1 DEF Believe, TypeOK, Table
<1>3. call'[p1] = Saving(op, k, e) \/ call'[p1] = NoCall
  BY <1>1 DEF TypeOK
<1>4. call'[p1] # NoCall => call'[p1].op # "consolidate" /\ sweep'[p1] = Empty
  BY <1>1, <1>3 DEF Saving
<1>5. ASSUME NEW j \in Keys  PROVE HoldsStored(j)'
  <2>1. HoldsStored(j)
    BY DEF AloneInv
  <2>2. ~Pending("log", j)' /\ (Pending("save", j)' => j = k)
    BY <1>3 DEF Pending, Saving, NoCall
  <2>3. CASE j # k
    BY <1>1, <1>2, <2>1, <2>2, <2>3 DEF HoldsStored, Backed
  <2>4. CASE j = k
    <3>1. CASE call' = [call EXCEPT ![p1] = Saving(op, k, e)] /\ view.belief # Absent /\ view.belief.val = e.val
      <4>1. Pending("save", j)' /\ call'[p1].entry = e
        BY <1>1, <2>4, <3>1 DEF Pending, Saving, NoCall, TypeOK
      <4>. QED  BY <1>1, <1>2, <2>1, <2>2, <2>4, <3>1, <4>1 DEF HoldsStored, Backed
    <3>2. CASE call' = call /\ (view.belief # Absent => Backed(k, view.belief.val))
      <4>1. ~Pending("save", j)'
        BY <1>1, <3>2 DEF Pending
      <4>. QED  BY <1>1, <1>2, <2>1, <2>2, <2>4, <3>2, <4>1 DEF HoldsStored, Backed
    <3>. QED  BY <3>1, <3>2
  <2>. QED  BY <2>3, <2>4
<1>. QED  BY <1>4, <1>5 DEF AloneInv

LEMMA AloneStep == AloneInv /\ AloneNext => AloneInv'
<1>. SUFFICES ASSUME AloneInv, AloneNext  PROVE AloneInv'
  OBVIOUS
<1>0. TypeOK /\ TypeOK' /\ OthersIdle /\ OthersIdle' /\ p1 \in Procs
  BY AloneTypes, OthersStayIdle, AloneAssumption DEF AloneInv
<1>h. \A k \in Keys : HoldsStored(k) /\ rows[k] \in Entry \cup {Absent} /\ beliefs[p1][k] \in Entry \cup {Absent}
                      /\ (rows[k] # Absent => rows[k].val \in Values)
  BY <1>0 DEF AloneInv, TypeOK, Table, Entry
<1>1. ASSUME NEW k \in Keys, NEW v \in Values, NEW imp \in Levels, Commit(p1, k, v, imp)
      PROVE  AloneInv'
  <2> DEFINE e == [val |-> v, imp |-> imp, made |-> writes', upd |-> writes']
             view == Reconciled(View(p1, k), rows[k])
  <2>1. e \in Entry /\ e.val = v
    BY <1>0, <1>1, WritesAssumption DEF Commit, BeginWrite, Entry, TypeOK
  <2>2. View(p1, k) \in Views /\ View(p1, k).belief = beliefs[p1][k]
    BY <1>0, ViewType DEF View
  <2>3. view \in Views /\ Revised(view, e) \in Views
    BY <1>h, <2>1, <2>2, RevisionType
  <2>4. view.belief \in {beliefs[p1][k], rows[k]}
    BY <1>h, <2>1, <2>2, RevisionType
  <2>5. Free(p1) /\ ~Pending("save", k)
    BY <1>1 DEF Commit, Free, Pending
  <2>6. view.belief # Absent => Backed(k, view.belief.val)
    BY <1>h, <2>4, <2>5 DEF HoldsStored, Backed
  <2>7. Revised(view, e).belief # Absent /\ Revised(view, e).belief.val = e.val
    BY <2>1, AbsentAssumption DEF Revised
  <2>8. \/ Believe(p1, k, Revised(view, e)) /\ call' = [call EXCEPT ![p1] = Saving("commit", k, e)]
        \/ Believe(p1, k, view) /\ call' = call
    BY <1>1 DEF Commit
  <2>9. UNCHANGED <<rows, log, copies, sweep, gone, pruned>>
    BY <1>1 DEF Commit
  <2>. HIDE DEF e, view
  <2>. QED  BY <1>0, <2>1, <2>3, <2>5, <2>6, <2>7, <2>8, <2>9, BegunKeeps
<1>2. ASSUME NEW k \in Keys, NEW v \in Values, NEW imp \in Levels, NEW s \in Strategies, Revise(p1, k, v, imp, s)
      PROVE  AloneInv'
  <2> DEFINE made == IF rows[k] = Absent THEN writes' ELSE rows[k].made
             e == [val |-> v, imp |-> imp, made |-> made, upd |-> writes']
             view == Refreshed(View(p1, k), rows[k])
             after == [Revised(view, e) EXCEPT !.belief = e]
  <2>1. e \in Entry /\ e.val = v
    <3>1. writes' \in 1..MaxWrites /\ made \in 1..MaxWrites
      BY <1>0, <1>2, <1>h, WritesAssumption DEF Revise, BeginWrite, Entry, TypeOK
    <3>. QED  BY <3>1 DEF Entry
  <2>2. View(p1, k) \in Views /\ View(p1, k).belief = beliefs[p1][k]
    BY <1>0, ViewType DEF View
  <2>3. view \in Views /\ view.belief \in {beliefs[p1][k], rows[k], Absent}
    BY <1>h, <2>2, RefreshedType
  <2>. HIDE DEF e, view
  <2>4. after \in Views /\ after.belief = e
    BY <1>h, <2>1, <2>3, RevisionType
  <2>5. Free(p1) /\ ~Pending("save", k)
    BY <1>2 DEF Revise, Free, Pending
  <2>6. view.belief # Absent => Backed(k, view.belief.val)
    BY <1>h, <2>3, <2>5 DEF HoldsStored, Backed
  <2>7. \/ Believe(p1, k, after) /\ call' = [call EXCEPT ![p1] = Saving("revise", k, e)]
        \/ Believe(p1, k, view) /\ call' = call
    BY <1>2 DEF Revise, e, view
  <2>8. UNCHANGED <<rows, log, copies, sweep, gone, pruned>>
    BY <1>2 DEF Revise
  <2>9. e # Absent
    BY <2>1, AbsentAssumption
  <2>. HIDE DEF after
  <2>10. CASE Believe(p1, k, after) /\ call' = [call EXCEPT ![p1] = Saving("revise", k, e)]
    BY <1>0, <2>1, <2>4, <2>5, <2>8, <2>9, <2>10, BegunKeeps
  <2>11. CASE Believe(p1, k, view) /\ call' = call
    BY <1>0, <2>1, <2>3, <2>5, <2>6, <2>8, <2>11, BegunKeeps
  <2>. QED  BY <2>7, <2>10, <2>11
<1>3. ASSUME Save(p1)  PROVE AloneInv'
  <2> DEFINE c == call[p1]
  <2>1. c # NoCall /\ c.at = "save" /\ c.op # "consolidate" /\ c.op # "forget" /\ c.key \in Keys /\ c.entry \in Entry
        /\ c \in Calls /\ sweep[p1] = Empty
    BY <1>0, <1>3 DEF Save, AloneInv, TypeOK, Calls
  <2>2. /\ rows' = [rows EXCEPT ![c.key] = Stored(c.key, c.entry)] /\ gone' = gone \ {<<c.key, c.entry.val>>}
        /\ UNCHANGED <<log, beliefs, copies, sweep>> /\ call' = [call EXCEPT ![p1].at = "log"]
        /\ pruned' = pruned \ {c.key}
    BY <1>3, <2>1 DEF Save
  <2>3. call'[p1] \in Calls /\ call'[p1] # NoCall /\ call'[p1].at = "log" /\ call'[p1].op = c.op
        /\ call'[p1].key = c.key /\ call'[p1].entry = c.entry
    BY <1>0, <2>1, <2>2 DEF TypeOK, Calls, NoCall
  <2>4. Stored(c.key, c.entry) # Absent /\ Stored(c.key, c.entry).val = c.entry.val
    BY <1>0, <2>1, StoredValue
  <2>5. \A j \in Keys : rows'[j] = IF j = c.key THEN Stored(c.key, c.entry) ELSE rows[j]
    BY <1>0, <2>1, <2>2 DEF TypeOK, Table
  <2>7. ASSUME NEW j \in Keys  PROVE HoldsStored(j)'
    <3>4. /\ j = c.key => Pending("save", j) /\ Pending("log", j)'
          /\ j # c.key => ~Pending("save", j) /\ ~Pending("log", j)'
          /\ ~Pending("log", j) /\ ~Pending("save", j)'
      BY <2>1, <2>3 DEF Pending
    <3>. HIDE DEF c
    <3>1. rows'[j] # Absent => <<j, rows'[j].val>> \notin gone'
      <4>1. CASE j = c.key
        BY <2>2, <2>4, <2>5, <4>1
      <4>2. CASE j # c.key
        <5>1. rows[j] # Absent => <<j, rows[j].val>> \notin gone
          BY <1>h DEF HoldsStored
        <5>. QED  BY <2>2, <2>5, <4>2, <5>1
      <4>. QED  BY <4>1, <4>2
    <3>2. CASE j = c.key
      <4>1. sweep[p1][j] = Absent
        BY <2>1 DEF Empty
      <4>2. beliefs[p1][j] # Absent => beliefs[p1][j].val = c.entry.val
        <5>1. HoldsStored(j) /\ Pending("save", j)
          BY <1>h, <3>2, <3>4
        <5>. QED  BY <5>1 DEF HoldsStored, c
      <4>3. rows'[j] # Absent /\ rows'[j].val = c.entry.val
        BY <2>4, <2>5, <3>2
      <4>4. Pending("log", j)' /\ ~Pending("save", j)'
        BY <3>2, <3>4
      <4>5. sweep'[p1][j] = Absent /\ beliefs' = beliefs /\ call'[p1].op # "forget" /\ call'[p1].entry = c.entry
        BY <2>1, <2>2, <2>3, <4>1
      <4>6. j \notin pruned'
        BY <2>2, <3>2
      <4>. QED  BY <3>1, <4>2, <4>3, <4>4, <4>5, <4>6 DEF HoldsStored, Backed
    <3>3. CASE j # c.key
      <4>1. HoldsStored(j)
        BY <1>h
      <4>2. rows'[j] = rows[j] /\ log' = log /\ beliefs' = beliefs /\ copies' = copies /\ sweep' = sweep
            /\ ~Pending("save", j) /\ ~Pending("save", j)' /\ ~Pending("log", j) /\ ~Pending("log", j)'
            /\ (j \in pruned' <=> j \in pruned)
        BY <2>2, <2>5, <3>3, <3>4
      <4>. QED  BY <3>1, <4>1, <4>2 DEF HoldsStored, Backed
    <3>. QED  BY <3>2, <3>3
  <2>. QED  BY <1>0, <2>1, <2>2, <2>3, <2>7 DEF AloneInv
<1>4. ASSUME LogRow(p1)  PROVE AloneInv'
  <2> DEFINE c == call[p1]
  <2>1. c # NoCall /\ c.at = "log" /\ c.key \in Keys /\ sweep[p1] = Empty
    BY <1>0, <1>4 DEF LogRow, AloneInv, TypeOK, Calls
  <2>2. /\ log' = [log EXCEPT ![c.key] = IF c.op = "forget" THEN Absent ELSE c.entry.val]
        /\ call' = [call EXCEPT ![p1] = NoCall] /\ UNCHANGED <<rows, beliefs, copies, sweep, gone, pruned>>
    BY <1>4, <2>1 DEF LogRow
  <2>3. call'[p1] = NoCall
    BY <1>0, <2>2 DEF TypeOK
  <2>4. \A j \in Keys : log'[j] = IF j = c.key THEN (IF c.op = "forget" THEN Absent ELSE c.entry.val) ELSE log[j]
    BY <1>0, <2>1, <2>2 DEF TypeOK
  <2>5. \A j \in Keys : /\ Pending("log", j) <=> j = c.key
                       /\ ~Pending("save", j) /\ ~Pending("save", j)' /\ ~Pending("log", j)'
    BY <2>1, <2>3 DEF Pending
  <2>. HIDE DEF c
  <2>6. ASSUME NEW j \in Keys  PROVE HoldsStored(j)'
    <3>1. CASE j = c.key
      BY <1>h, <2>2, <2>4, <2>5, <3>1 DEF HoldsStored, Backed, c
    <3>2. CASE j # c.key
      BY <1>h, <2>2, <2>4, <2>5, <3>2 DEF HoldsStored, Backed
    <3>. QED  BY <3>1, <3>2
  <2>. QED  BY <1>0, <2>3, <2>6 DEF AloneInv
<1>5. ASSUME DecayRead(p1)  PROVE AloneInv'
  <2>1. call[p1] = NoCall /\ sweep'[p1] = rows /\ UNCHANGED <<rows, log, beliefs, copies, call, gone, pruned>>
    BY <1>0, <1>5 DEF DecayRead, Free, TypeOK
  <2>2. \A j \in Keys : HoldsStored(j)'
    BY <1>h, <2>1 DEF HoldsStored, Backed, Pending
  <2>. QED  BY <1>0, <2>1, <2>2 DEF AloneInv
<1>6. ASSUME Restart(p1), Free(p1)  PROVE AloneInv'
  <2>1. call'[p1] = NoCall /\ call[p1] = NoCall /\ sweep'[p1] = Empty /\ UNCHANGED <<rows, log, gone, pruned>>
    BY <1>0, <1>6 DEF Restart, Free, TypeOK
  <2>2. \A j \in Keys : beliefs'[p1][j] \in {rows[j], Absent} /\ copies'[p1][j] \in {rows[j], Absent}
    BY <1>0, <1>6 DEF Restart, TypeOK
  <2>3. \A j \in Keys : HoldsStored(j)'
    BY <1>h, <2>1, <2>2 DEF HoldsStored, Backed, Pending, Empty
  <2>. QED  BY <1>0, <2>1, <2>3 DEF AloneInv
<1>7. ASSUME NEW k \in Keys, Recall(p1, k)  PROVE AloneInv'
  <2> DEFINE view == Refreshed(View(p1, k), rows[k])
  <2>1. View(p1, k) \in Views /\ View(p1, k).belief = beliefs[p1][k]
    BY <1>0, ViewType DEF View
  <2>2. view \in Views /\ view.belief \in {beliefs[p1][k], rows[k], Absent}
    BY <1>h, <2>1, RefreshedType
  <2>3. Free(p1) /\ Believe(p1, k, view) /\ UNCHANGED <<rows, log, copies, sweep, call, gone, pruned>>
    BY <1>7 DEF Recall
  <2>. HIDE DEF view
  <2>4. \A j \in Keys : beliefs'[p1][j] \in {beliefs[p1][j], rows[j], Absent}
    BY <1>0, <2>2, <2>3 DEF Believe, TypeOK, Table
  <2>5. \A j \in Keys : HoldsStored(j)'
    BY <1>h, <2>3, <2>4 DEF HoldsStored, Backed, Pending, Free
  <2>. QED  BY <1>0, <2>3, <2>5 DEF AloneInv, Free
<1>8. ASSUME NEW k \in Keys, Forget(p1, k)  PROVE AloneInv'
  <2>1. /\ call[p1] = NoCall /\ sweep'[p1] = Empty /\ sweep[p1] = Empty /\ call'[p1] = Logging("forget", k, Absent)
        /\ UNCHANGED log /\ pruned' = pruned \ {k}
    BY <1>0, <1>8 DEF Forget, Free, TypeOK
  <2>2. \A j \in Keys : /\ rows'[j] = IF j = k THEN Absent ELSE rows[j]
                       /\ copies'[p1][j] = IF j = k THEN Absent ELSE copies[p1][j]
    BY <1>0, <1>8 DEF Forget, TypeOK, Table
  <2>3. \A j \in Keys : beliefs'[p1][j] = IF j = k THEN Absent ELSE beliefs[p1][j]
    <3>1. CASE beliefs[p1][k] = Absent
      BY <1>8, <3>1 DEF Forget
    <3>2. CASE beliefs[p1][k] # Absent
      BY <1>0, <1>8, <3>2 DEF Forget, Believe, NoView, TypeOK, Table
    <3>. QED  BY <3>1, <3>2
  <2>4. gone' \subseteq gone \cup {<<k, rows[k].val>>}
    BY <1>8 DEF Forget
  <2>5. /\ Pending("log", k)' /\ call'[p1].op = "forget" /\ call'[p1] # NoCall
        /\ \A j \in Keys : ~Pending("save", j)' /\ (j # k => ~Pending("log", j)')
        /\ \A j \in Keys : ~Pending("save", j) /\ ~Pending("log", j)
    BY <2>1 DEF Pending, Logging, NoCall
  <2>6. ASSUME NEW j \in Keys  PROVE HoldsStored(j)'
    <3>1. CASE j = k
      BY <2>1, <2>2, <2>3, <2>5, <3>1 DEF HoldsStored, Backed, Empty
    <3>2. CASE j # k
      BY <1>h, <2>1, <2>2, <2>3, <2>4, <2>5, <3>2 DEF HoldsStored, Backed
    <3>. QED  BY <3>1, <3>2
  <2>. QED  BY <1>0, <2>1, <2>5, <2>6 DEF AloneInv
<1>9. ASSUME NEW k \in Keys, Consolidate(p1, k)  PROVE AloneInv'
  <2>1. rows[k] # Absent
    BY <1>9, <1>h DEF Consolidate, HoldsStored
  <2>2. Free(p1) /\ UNCHANGED <<rows, log, beliefs, sweep, call, gone, pruned>>
    BY <1>9, <2>1 DEF Consolidate
  <2>3. \A j \in Keys : copies'[p1][j] \in {copies[p1][j], Absent}
    BY <1>0, <1>9 DEF Consolidate, TypeOK, Table
  <2>4. \A j \in Keys : HoldsStored(j)'
    BY <1>h, <2>2, <2>3 DEF HoldsStored, Backed, Pending
  <2>. QED  BY <1>0, <2>2, <2>4 DEF AloneInv, Free
<1>10. ASSUME NEW k \in Keys, DecayRestore(p1, k)  PROVE AloneInv'
  <2> DEFINE e == sweep[p1][k]
  <2>1. e \in Entry /\ rows[k] # Absent /\ rows[k].val = e.val
    <3>1. e \in Entry
      BY <1>0, <1>10 DEF DecayRestore, TypeOK, Table
    <3>2. HoldsStored(k) /\ e # Absent
      BY <1>h, <1>10 DEF DecayRestore
    <3>. QED  BY <3>1, <3>2 DEF HoldsStored
  <2>2. Stored(k, e) # Absent /\ Stored(k, e).val = e.val
    BY <1>0, <2>1, StoredValue
  <2>3. \A j \in Keys : /\ rows'[j] = IF j = k THEN Stored(k, e) ELSE rows[j]
                       /\ sweep'[p1][j] \in {sweep[p1][j], Absent}
    BY <1>0, <1>10 DEF DecayRestore, TypeOK, Table
  <2>4. UNCHANGED <<log, beliefs, copies, call, gone>> /\ pruned' = pruned
    <3>1. k \notin pruned
      BY <1>h, <2>1 DEF HoldsStored
    <3>. QED  BY <1>10, <3>1 DEF DecayRestore
  <2>5. call[p1] = NoCall
    <3>1. e # Absent
      BY <1>10 DEF DecayRestore
    <3>2. sweep[p1] # Empty
      BY <3>1 DEF Empty
    <3>. QED  BY <3>2 DEF AloneInv
  <2>. HIDE DEF e
  <2>6. \A j \in Keys : rows'[j] # Absent <=> rows[j] # Absent
    BY <2>1, <2>2, <2>3
  <2>7. \A j \in Keys : rows[j] # Absent => rows'[j].val = rows[j].val
    BY <2>1, <2>2, <2>3
  <2>8. \A j \in Keys : HoldsStored(j)'
    BY <1>h, <2>3, <2>4, <2>5, <2>6, <2>7 DEF HoldsStored, Backed, Pending
  <2>. QED  BY <1>0, <2>4, <2>5, <2>8 DEF AloneInv
<1>11. ASSUME NEW k \in Keys, DecayPrune(p1, k)  PROVE AloneInv'
  <2>1. rows[k] # Absent /\ sweep[p1] # Empty
    BY <1>h, <1>11 DEF DecayPrune, HoldsStored, Empty
  <2>2. call[p1] = NoCall
    BY <2>1 DEF AloneInv
  <2>3. \A j \in Keys : /\ rows'[j] = IF j = k THEN Absent ELSE rows[j]
                        /\ sweep'[p1][j] = IF j = k THEN Absent ELSE sweep[p1][j]
                        /\ copies'[p1][j] = IF j = k THEN Absent ELSE copies[p1][j]
    <3>1. /\ rows' = [rows EXCEPT ![k] = Absent]
          /\ sweep' = [sweep EXCEPT ![p1][k] = Absent]
          /\ copies' = [copies EXCEPT ![p1][k] = Absent]
      BY <1>11, <2>1 DEF DecayPrune
    <3>. QED  BY <1>0, <3>1 DEF TypeOK, Table
  <2>4. UNCHANGED <<log, beliefs, call, gone>> /\ pruned' = pruned \cup {k}
    BY <1>11, <2>1 DEF DecayPrune
  <2>5. \A j \in Keys : ~Pending("save", j) /\ ~Pending("log", j) /\ ~Pending("save", j)' /\ ~Pending("log", j)'
    BY <2>2, <2>4 DEF Pending
  <2>6. ASSUME NEW j \in Keys  PROVE HoldsStored(j)'
    <3>1. CASE j = k
      <4>1. log[j] = rows[j].val /\ (beliefs[p1][j] # Absent => rows[j].val = beliefs[p1][j].val)
        BY <1>h, <2>1, <2>5, <3>1 DEF HoldsStored, Backed
      <4>2. /\ rows'[j] = Absent /\ sweep'[p1][j] = Absent /\ copies'[p1][j] = Absent
            /\ j \in pruned' /\ ~Pending("save", j)' /\ ~Pending("log", j)'
            /\ beliefs'[p1][j] # Absent => log'[j] = beliefs'[p1][j].val
        BY <2>3, <2>4, <2>5, <3>1, <4>1
      <4>. QED  BY <4>2 DEF HoldsStored, Backed
    <3>2. CASE j # k
      <4>1. /\ rows'[j] = rows[j] /\ sweep'[p1][j] = sweep[p1][j] /\ copies'[p1][j] = copies[p1][j]
            /\ log'[j] = log[j] /\ beliefs'[p1][j] = beliefs[p1][j] /\ gone' = gone
            /\ (j \in pruned' <=> j \in pruned)
        BY <2>3, <2>4, <3>2
      <4>2. HoldsStored(j) /\ ~Pending("save", j) /\ ~Pending("log", j)
            /\ ~Pending("save", j)' /\ ~Pending("log", j)'
        BY <1>h, <2>5
      <4>. QED  BY <4>1, <4>2 DEF HoldsStored, Backed
    <3>. QED  BY <3>1, <3>2
  <2>. QED  BY <1>0, <2>2, <2>4, <2>6 DEF AloneInv
<1>12. ASSUME NEW k \in Keys, DecaySkip(p1, k)  PROVE AloneInv'
  <2>1. sweep[p1] # Empty
    BY <1>12 DEF DecaySkip, Empty
  <2>2. call[p1] = NoCall
    BY <2>1 DEF AloneInv
  <2>3. UNCHANGED <<rows, log, beliefs, copies, call, gone, pruned>>
    BY <1>12 DEF DecaySkip
  <2>4. \A j \in Keys : sweep'[p1][j] \in {sweep[p1][j], Absent}
    BY <1>0, <1>12 DEF DecaySkip, TypeOK, Table
  <2>5. \A j \in Keys : HoldsStored(j)'
    BY <1>h, <2>2, <2>3, <2>4 DEF HoldsStored, Backed, Pending
  <2>. QED  BY <1>0, <2>2, <2>3, <2>5 DEF AloneInv
<1>. QED  BY <1>1, <1>2, <1>3, <1>4, <1>5, <1>6, <1>7, <1>8, <1>9, <1>10, <1>11, <1>12 DEF AloneNext

LEMMA AloneStart == Init => AloneInv
BY InitTypeOK, AloneAssumption DEF Init, AloneInv, OthersIdle, HoldsStored, Pending, Free, Empty

LEMMA AloneGives == AloneInv => BeliefsMatchRows /\ ForgottenStaysForgotten /\ AuditFollowsStore
<1>. SUFFICES ASSUME AloneInv  PROVE BeliefsMatchRows /\ ForgottenStaysForgotten /\ AuditFollowsStore
  OBVIOUS
<1>1. \A k \in Keys : HoldsStored(k)
  BY DEF AloneInv
<1>2. BeliefsMatchRows
  BY <1>1 DEF BeliefsMatchRows, Backed, AloneInv, OthersIdle, HoldsStored, Free, Pending
<1>3. ForgottenStaysForgotten
  BY <1>1 DEF ForgottenStaysForgotten, HoldsStored
<1>4. AuditFollowsStore
  BY <1>1, AloneAssumption DEF AuditFollowsStore, HoldsStored, Free, Pending
<1>. QED  BY <1>2, <1>3, <1>4

-----------------------------------------------------------------------------
(* Remote clients: the engine of one memory *)

Seats == [beliefs : [{"it"} -> RW!Entries \cup {Absent}], entrench : [{"it"} -> Nat],
          log : {{}}, total : Nat]

Rank(g) == g.entrench["it"]

\* What is not believed has no rank.
SeatOK(g) == g \in Seats /\ (RW!Belief(g) = Absent => Rank(g) = 0)

\* g with another belief and another rank.
Seated(h, g, b, i) == h \in Seats /\ RW!Belief(h) = b /\ Rank(h) = i

LEMMA RemoteCardinality == ASSUME NEW S  PROVE RW!AGM!Cardinality(S) = Cardinality(S)
BY DEF RW!AGM!Cardinality, Cardinality

LEMMA RemoteLevelsFit ==
    /\ Absent \notin RW!Entries /\ RemoteLevels \subseteq Nat \ {0}
    /\ Middle \in Nat \ {0} /\ MaxClock \in Nat
BY RemoteConstants DEF RW!ConstantsFit

LEMMA RemoteEntry ==
    ASSUME NEW e \in RW!Entries
    PROVE  /\ e # Absent /\ e.imp \in RemoteLevels /\ e.imp \in Nat /\ e.imp # 0
           /\ e.upd \in Nat /\ e.at \in Nat /\ e.val \in Values /\ e.ok = TRUE
<1>1. e # Absent
  BY RemoteLevelsFit
<1>2. e.imp \in RemoteLevels /\ e.imp \in Nat /\ e.imp # 0
  BY RemoteLevelsFit DEF RW!Entries
<1>3. e.upd \in Nat /\ e.at \in Nat /\ e.val \in Values
  BY RemoteLevelsFit DEF RW!Entries
<1>4. e.ok = TRUE
  BY DEF RW!Entries
<1>. QED  BY <1>1, <1>2, <1>3, <1>4

LEMMA SeatFields ==
    ASSUME NEW g \in Seats
    PROVE  /\ g.beliefs \in [{"it"} -> RW!Entries \cup {Absent}] /\ g.entrench \in [{"it"} -> Nat]
           /\ RW!Belief(g) \in RW!Entries \cup {Absent} /\ Rank(g) \in Nat
           /\ g.log = {} /\ g.total \in Nat
BY DEF Seats, RW!Belief, Rank

LEMMA SeatSet ==
    ASSUME NEW g \in Seats, NEW b \in RW!Entries \cup {Absent}, NEW i \in Nat
    PROVE  /\ Seated([g EXCEPT !.beliefs["it"] = b, !.entrench["it"] = i], g, b, i)
           /\ Seated([g EXCEPT !.beliefs["it"] = b], g, b, Rank(g))
BY DEF Seats, Seated, RW!Belief, Rank

LEMMA SeatQuiet ==
    ASSUME NEW g \in Seats
    PROVE  Seated(RW!Quiet(g), g, RW!Belief(g), Rank(g))
BY DEF RW!Quiet, Seated, Seats, RW!Belief, Rank

LEMMA SeatBelieving ==
    ASSUME NEW g \in Seats, NEW e \in RW!Entries
    PROVE  Seated(RW!Believing(g, e), g, e, Rank(g))
BY SeatSet, RemoteEntry DEF RW!Believing

LEMMA SeatAdded ==
    ASSUME NEW g \in Seats, NEW e \in RW!Entries
    PROVE  Seated(RW!AGM!Added(g, "it", e), g, e, RW!AGM!Greater(Rank(g), e.imp))
<1>1. e.imp \in Nat
  BY RemoteEntry
<1>. QED  BY <1>1 DEF RW!AGM!Added, RW!AGM!Greater, Seats, Seated, RW!Belief, Rank

LEMMA SeatRecorded ==
    ASSUME NEW g \in Seats, NEW affected \in BOOLEAN
    PROVE  Seated(RW!AGM!Recorded(g, "it", affected), g, RW!Belief(g), Rank(g))
<1> DEFINE L == g.log \cup {[n |-> g.total + 1, key |-> "it", affected |-> affected]}
           M == IF RW!AGM!Cardinality(L) > 0 THEN RW!AGM!ButOldest(L) ELSE L
<1>1. L = {[n |-> g.total + 1, key |-> "it", affected |-> affected]}
  BY SeatFields
<1>2. RW!AGM!Cardinality(L) = 1
  BY <1>1, RemoteCardinality, FS_Singleton
<1>3. RW!AGM!ButOldest(L) = {}
  BY <1>1, SeatFields DEF RW!AGM!ButOldest
<1>4. M = {}
  BY <1>2, <1>3
<1>5. RW!AGM!Recorded(g, "it", affected) = [g EXCEPT !.log = M, !.total = @ + 1]
  BY DEF RW!AGM!Recorded
<1>. HIDE DEF L, M
<1>6. g.total + 1 \in Nat
  BY SeatFields
<1>7. PICK t \in Nat : RW!AGM!Recorded(g, "it", affected) = [g EXCEPT !.log = {}, !.total = t]
  BY <1>4, <1>5, <1>6
<1>8. [g EXCEPT !.log = {}, !.total = t] \in Seats
  BY DEF Seats
<1>9. Seated([g EXCEPT !.log = {}, !.total = t], g, RW!Belief(g), Rank(g))
  BY DEF Seats, Seated, RW!Belief, Rank
<1>. QED  BY <1>7, <1>9

LEMMA SeatContracted ==
    ASSUME NEW g, SeatOK(g)
    PROVE  Seated(RW!AGM!Contracted(g, "it"), g, Absent, 0)
<1>1. CASE g.beliefs["it"] = Absent
  BY <1>1 DEF RW!AGM!Contracted, SeatOK, Seated, RW!Belief
<1>2. CASE g.beliefs["it"] # Absent
  <2> DEFINE h == [g EXCEPT !.beliefs["it"] = Absent, !.entrench["it"] = 0]
  <2>1. Seated(h, g, Absent, 0)
    BY SeatSet DEF SeatOK
  <2>2. RW!AGM!Contracted(g, "it") = RW!AGM!Recorded(h, "it", TRUE)
    BY <1>2 DEF RW!AGM!Contracted
  <2>. HIDE DEF h
  <2>3. Seated(RW!AGM!Recorded(h, "it", TRUE), h, RW!Belief(h), Rank(h))
    BY <2>1, SeatRecorded DEF Seated
  <2>. QED  BY <2>1, <2>2, <2>3 DEF Seated
<1>. QED  BY <1>1, <1>2

LEMMA SeatReconciled ==
    ASSUME NEW g \in Seats, NEW e \in RW!Entries
    PROVE  Seated(RW!AGM!Reconciled(g, "it", e), g, e, e.imp)
BY SeatSet, RemoteEntry DEF RW!AGM!Reconciled

\* A revision leaves what was believed, or believes the new entry and ranks it by both.
LEMMA SeatRevised ==
    ASSUME NEW g \in Seats, NEW e \in RW!Entries, NEW s
    PROVE  LET h == RW!AGM!Revised(g, "it", e, s)
           IN  IF RW!Belief(g) # Absent /\ (RW!Belief(g).val = e.val \/ ~RW!Wins(g, e, s))
               THEN Seated(h, g, RW!Belief(g), Rank(g))
               ELSE Seated(h, g, e, RW!AGM!Greater(Rank(g), e.imp))
<1> DEFINE a == RW!AGM!Added(g, "it", e)
<1>1. Seated(a, g, e, RW!AGM!Greater(Rank(g), e.imp))
  BY SeatAdded
<1>2. Seated(RW!AGM!Recorded(a, "it", TRUE), g, e, RW!AGM!Greater(Rank(g), e.imp))
  <2>. HIDE DEF a
  <2>1. Seated(RW!AGM!Recorded(a, "it", TRUE), a, RW!Belief(a), Rank(a))
    BY <1>1, SeatRecorded DEF Seated
  <2>. QED  BY <1>1, <2>1 DEF Seated
<1>3. Seated(RW!AGM!Recorded(g, "it", FALSE), g, RW!Belief(g), Rank(g))
  BY SeatRecorded
<1>4. Seated(g, g, RW!Belief(g), Rank(g))
  BY DEF Seated
<1>5. CASE RW!Belief(g) = Absent
  BY <1>2, <1>5 DEF RW!AGM!Revised, RW!Belief
<1>6. CASE RW!Belief(g) # Absent /\ RW!Belief(g).val = e.val
  BY <1>4, <1>6 DEF RW!AGM!Revised, RW!Belief
<1>7. CASE RW!Belief(g) # Absent /\ RW!Belief(g).val # e.val
  BY <1>2, <1>3, <1>7 DEF RW!AGM!Revised, RW!Belief, RW!Wins
<1>. QED  BY <1>5, <1>6, <1>7

-----------------------------------------------------------------------------
(* Remote clients: the invariant *)

Readings == [op : {"recall"}, val : Values, seen : Nat]

Writes == [op : {"commit", "revise", "confirm", "forget"}, val : Values \cup {Absent},
           imp : RemoteLevels \cup {Absent}, how : {"put", "create"} \cup RW!AGM!ConflictStrategy \cup {Absent},
           expected : RW!Entries \cup {Absent}, since : Nat]

Knowings == [val : Values \cup {Absent}, ver : RW!Entries, seen : Nat, from : {"write", "list", "recall"}]

\* Every entry there is was stamped by the clock.
Stamped(r) == r # Absent => r.upd <= clock

WriterTypes ==
    /\ row \in RW!Entries \cup {Absent} /\ SeatOK(seat)
    /\ snap \subseteq RW!Entries \cup {Absent} /\ (snap = {} \/ \E s \in snap : snap = {s})
    /\ clock \in 0..MaxClock /\ changed \in 0..clock /\ standing \subseteq RemoteLevels \cup {Middle}
    /\ know \in [Procs -> Knowings \cup {Absent}] /\ asked \in [Procs -> Readings \cup Writes \cup {Absent}]
    /\ marks \in [back : Nat, gone : Nat]

Stamps ==
    /\ Stamped(row) /\ \A s \in snap : Stamped(s)
    /\ row # Absent => row.imp \in standing /\ changed # 0

\* The rank by which the engine judges is one of the importances in is; what it
\* does not know is judged as neutral.
Fair(r, g, is) ==
    /\ Rank(g) # 0 => Rank(g) \in is
    /\ r # Absent /\ Rank(g) = 0 => Middle \in is
    /\ r = Absent => RW!Belief(g) = Absent

\* What a client knows but from a recall is what it saw.
KnowsWell(k) ==
    /\ k.seen \in 1..clock /\ Stamped(k.ver)
    /\ k.from # "recall" => /\ k.val \in {Absent, k.ver.val}
                            /\ k.ver = row => k.seen = changed \/ marks.back > k.seen

\* A write names what its client knows; one that took effect cannot do so again.
AsksWell(c, q) ==
    /\ q \in Writes /\ q.since <= clock
    /\ q.op \in {"commit", "revise"} => q.val \in Values /\ q.imp \in RemoteLevels
    /\ q.op = "commit" => q.expected = Absent
    /\ q.op = "revise" => q.how \in RW!AGM!ConflictStrategy
    /\ q.op # "commit" => q.how # "create"
    /\ q.expected # Absent => know[c] # Absent /\ q.expected = know[c].ver
    /\ q.since # 0 /\ q.expected # Absent => row # q.expected \/ marks.back > q.since
    /\ q.since # 0 /\ q.how = "create" => row # Absent \/ marks.back > q.since \/ marks.gone > q.since

ClientsKnow ==
    \A c \in Procs :
        /\ know[c] # Absent => KnowsWell(know[c])
        /\ asked[c] # Absent => \/ asked[c] \in Readings /\ asked[c].seen \in 1..clock
                                \/ AsksWell(c, asked[c])

WritersInv ==
    /\ WriterTypes /\ Stamps /\ ClientsKnow
    /\ ~slipped => Fair(row, seat, standing)
    /\ WritersSeeWhatTheyReplace

\* A write that was asked for is in order.
LEMMA AskedWrites ==
    ASSUME WritersInv, NEW c \in Procs, NEW op \in {"commit", "revise", "confirm", "forget"},
           NEW q \in RW!Requests(c, op)
    PROVE  AsksWell(c, q) /\ q.op = op
<1>1. CASE asked[c] # Absent
  <2>1. q = asked[c] /\ q.op = op
    BY <1>1 DEF RW!Requests
  <2>2. asked[c] \notin Readings
    BY <2>1 DEF Readings
  <2>. QED  BY <1>1, <2>1, <2>2 DEF WritersInv, ClientsKnow
<1>2. CASE asked[c] = Absent
  <2>1. Absent # "create" /\ RemoteStrategies \subseteq RW!AGM!ConflictStrategy
    BY RemoteConstants DEF RW!ConstantsFit
  <2>2. clock \in Nat /\ know[c] \in Knowings \cup {Absent}
    BY DEF WritersInv, WriterTypes
  <2>3. CASE op = "commit"
    <3>1. PICK v \in Values, i \in RemoteLevels, how \in {"put", "create"} :
             q = RW!Request("commit", v, i, how, Absent)
      BY <1>2, <2>3 DEF RW!Requests
    <3>. QED  BY <2>2, <2>3, <3>1 DEF RW!Request, AsksWell, Writes
  <2>4. CASE op = "revise"
    <3>1. PICK v \in Values, i \in RemoteLevels, how \in RemoteStrategies, x \in RW!KnownTo(c) :
             q = RW!Request("revise", v, i, how, x)
      BY <1>2, <2>4 DEF RW!Requests
    <3>2. x \in RW!Entries \cup {Absent} /\ (x # Absent => know[c] # Absent /\ x = know[c].ver)
      BY <2>2 DEF RW!KnownTo, Knowings
    <3>3. how \in RW!AGM!ConflictStrategy /\ how # "create"
      BY <2>1 DEF RW!AGM!ConflictStrategy
    <3>. QED  BY <2>2, <2>4, <3>1, <3>2, <3>3 DEF RW!Request, AsksWell, Writes
  <2>5. CASE op \in {"confirm", "forget"}
    <3>1. PICK x \in RW!KnownTo(c) : q = RW!Request(op, Absent, Absent, Absent, x)
      BY <1>2, <2>5 DEF RW!Requests
    <3>2. x \in RW!Entries \cup {Absent} /\ (x # Absent => know[c] # Absent /\ x = know[c].ver)
      BY <2>2 DEF RW!KnownTo, Knowings
    <3>. QED  BY <2>1, <2>2, <2>5, <3>1, <3>2 DEF RW!Request, AsksWell, Writes
  <2>. QED  BY <2>3, <2>4, <2>5
<1>. QED  BY <1>1, <1>2

\* What a step that takes its turn has to satisfy for the write q of c with an answer.
Acceptable(c, q, r, g, answer) ==
    /\ r \in RW!Entries \cup {Absent} /\ SeatOK(g)
    /\ r # row => /\ answer = "done" /\ (r # Absent => r.upd = clock + 1)
                  /\ q.expected # Absent => row = q.expected
                  /\ q.how = "create" => row = Absent /\ r # Absent
    /\ answer = "done" /\ q.op # "forget" => r # Absent /\ r.upd = clock + 1
    /\ answer = "done" /\ q.op \in {"commit", "revise"} => r.val = q.val
    /\ answer = "done" /\ q.op = "confirm" =>
          row # Absent /\ r.val = row.val /\ (q.expected # Absent => row = q.expected)
    /\ answer = "rejected" /\ q.op = "revise" =>
          /\ r = row /\ row # Absent /\ (q.expected # Absent => row = q.expected)
          /\ RW!NoReason(q) => slipped

\* The row after such a step is the old one, none, or one that nobody knows yet.
LEMMA NewRow ==
    ASSUME WritersInv, NEW c \in Procs, NEW q, NEW r, NEW g, NEW answer, AsksWell(c, q),
           Acceptable(c, q, r, g, answer), RW!Takes(c, q, r, g, answer)
    PROVE  /\ clock' = clock + 1 /\ clock \in Nat /\ clock' \in 1..MaxClock
           /\ row' = r /\ (r # row /\ r # Absent => r.upd = clock')
           /\ \A e \in RW!Entries : e.upd <= clock /\ r = e => r = row
           /\ changed' = (IF r # row THEN clock' ELSE changed) /\ changed' \in 0..clock'
           /\ marks' \in [back : Nat, gone : Nat] /\ marks'.back = marks.back
           /\ marks'.gone = IF r = Absent /\ row # Absent THEN clock' ELSE marks.gone
<1>1. clock \in Nat /\ clock < MaxClock /\ MaxClock \in Nat /\ clock' = clock + 1
  BY RemoteLevelsFit DEF WritersInv, WriterTypes, RW!Takes
<1>2. row' = r /\ (r # row /\ r # Absent => r.upd = clock')
  BY <1>1 DEF RW!Takes, Acceptable
<1>3. \A e \in RW!Entries : e.upd <= clock /\ r = e => r = row
  BY <1>1, <1>2, RemoteLevelsFit
<1>4. changed' = (IF r # row THEN clock' ELSE changed) /\ changed' \in 0..clock'
  BY <1>1 DEF RW!Takes, WritersInv, WriterTypes
<1>5. /\ marks' \in [back : Nat, gone : Nat] /\ marks'.back = marks.back
      /\ marks'.gone = IF r = Absent /\ row # Absent THEN clock' ELSE marks.gone
  BY <1>1 DEF RW!Takes, WritersInv, WriterTypes
<1>6. clock' \in 1..MaxClock
  BY <1>1
<1>. QED  BY <1>1, <1>2, <1>3, <1>4, <1>5, <1>6

\* What a client knew stays well known.
LEMMA KnowsStill ==
    ASSUME WritersInv, NEW c \in Procs, NEW q, NEW r, NEW g, NEW answer, AsksWell(c, q),
           Acceptable(c, q, r, g, answer), RW!Takes(c, q, r, g, answer),
           NEW k \in Knowings, KnowsWell(k)
    PROVE  KnowsWell(k)'
<1>1. k.ver \in RW!Entries /\ k.seen \in Nat /\ k.ver # Absent
  BY RemoteEntry DEF Knowings
<1>2. k.ver.upd \in Nat /\ k.ver.upd <= clock
  BY <1>1, RemoteEntry DEF KnowsWell, Stamped
<1>3. k.ver = r => r = row
  BY <1>1, <1>2, NewRow
<1>. QED  BY <1>1, <1>2, <1>3, NewRow DEF KnowsWell, Stamped

\* What a client waits for stays in order.
LEMMA AsksStill ==
    ASSUME WritersInv, NEW c \in Procs, NEW q, NEW r, NEW g, NEW answer, AsksWell(c, q),
           Acceptable(c, q, r, g, answer), RW!Takes(c, q, r, g, answer),
           NEW d \in Procs, know'[d] = know[d], know[d] # Absent => KnowsWell(know[d]),
           NEW p, AsksWell(d, p)
    PROVE  AsksWell(d, p)'
<1>1. p \in Writes /\ p.since \in Nat /\ p.since <= clock
  BY DEF AsksWell, Writes
<1>2. p.since <= clock'
  BY <1>1, NewRow
<1>3. p.expected # Absent => know[d] # Absent /\ p.expected = know[d].ver
  BY DEF AsksWell
<1>4. p.expected # Absent => p.expected \in RW!Entries /\ p.expected.upd <= clock
  BY <1>1, <1>3 DEF Writes, KnowsWell, Stamped
<1>5. p.expected # Absent /\ r = p.expected => r = row
  BY <1>4, NewRow
<1>6. p.since # 0 /\ p.expected # Absent => row' # p.expected \/ marks'.back > p.since
  BY <1>5, NewRow DEF AsksWell
<1>7. p.since # 0 /\ p.how = "create" => row' # Absent \/ marks'.back > p.since \/ marks'.gone > p.since
  <2>1. CASE r = Absent /\ row # Absent
    BY <1>1, <2>1, NewRow
  <2>2. CASE ~(r = Absent /\ row # Absent)
    BY <2>2, NewRow DEF AsksWell
  <2>. QED  BY <2>1, <2>2
<1>. QED  BY <1>1, <1>2, <1>3, <1>6, <1>7 DEF AsksWell

\* So is a write that is still without response.
LEMMA AsksAgain ==
    ASSUME WritersInv, NEW c \in Procs, NEW q, NEW r, NEW g, NEW answer, AsksWell(c, q),
           Acceptable(c, q, r, g, answer), RW!Takes(c, q, r, g, answer),
           know'[c] = know[c], know[c] # Absent => KnowsWell(know[c]),
           NEW p, p = [q EXCEPT !.since = IF r # row /\ @ = 0 THEN clock' ELSE @]
    PROVE  AsksWell(c, p)'
<1>1. AsksWell(c, q)'
  BY AsksStill
<1>2. CASE r # row /\ q.since = 0
  <2>1. clock' \in Nat
    BY NewRow
  <2>2. p \in Writes /\ p.since = clock' /\ p.op = q.op /\ p.val = q.val /\ p.imp = q.imp
        /\ p.how = q.how /\ p.expected = q.expected
    BY <1>2, <2>1 DEF AsksWell, Writes
  <2>3. q.expected # Absent => row' # q.expected
    BY <1>2, NewRow DEF Acceptable
  <2>4. q.how = "create" => row' # Absent
    BY <1>2, NewRow DEF Acceptable
  <2>. QED  BY <1>1, <2>1, <2>2, <2>3, <2>4 DEF AsksWell
<1>3. CASE ~(r # row /\ q.since = 0)
  <2>1. p = q
    BY <1>3 DEF AsksWell, Writes
  <2>. QED  BY <1>1, <2>1
<1>. QED  BY <1>2, <1>3

\* What an answer tells is well known.
LEMMA ToldWell ==
    ASSUME WritersInv, NEW c \in Procs, NEW q, NEW r, NEW g, NEW answer, AsksWell(c, q),
           Acceptable(c, q, r, g, answer), RW!Takes(c, q, r, g, answer),
           NEW k, k = RW!Told(c, q, r, answer), k # Absent
    PROVE  k \in Knowings /\ KnowsWell(k)'
<1>0. PICK old : old = know[c]
  OBVIOUS
<1>1. old # Absent => old \in Knowings /\ KnowsWell(old) /\ KnowsWell(old)'
  <2>1. old # Absent => old \in Knowings /\ KnowsWell(old)
    BY <1>0 DEF WritersInv, WriterTypes, ClientsKnow
  <2>. QED  BY <2>1, KnowsStill
<1>2. clock \in Nat /\ clock' = clock + 1 /\ (row # Absent => changed \in 1..clock)
  BY NewRow DEF WritersInv, WriterTypes, Stamps
<1>3. q.expected # Absent => old # Absent /\ q.expected = old.ver
  BY <1>0 DEF AsksWell
<1>4. CASE q.op = "confirm" /\ answer = "done"
  <2>1. r \in RW!Entries /\ r # row /\ r.upd = clock' /\ r.val = row.val
    <3>1. r \in RW!Entries /\ r.upd = clock' /\ r.val = row.val
      BY <1>2, <1>4 DEF Acceptable
    <3>2. row # Absent => row.upd <= clock
      BY DEF WritersInv, Stamps, Stamped
    <3>3. r # Absent
      BY <3>1, RemoteLevelsFit
    <3>4. ASSUME r = row  PROVE FALSE
      BY <1>2, <3>1, <3>2, <3>3, <3>4
    <3>. QED  BY <3>1, <3>4
  <2>2. row' = r /\ changed' = clock'
    BY <2>1, NewRow
  <2>3. CASE q.expected = Absent
    <3>1. k = [val |-> Absent, ver |-> r, seen |-> clock + 1, from |-> "write"]
      BY <1>4, <2>3 DEF RW!Told, RW!Knowledge, RW!Version
    <3>. QED  BY <1>2, <2>1, <2>2, <3>1 DEF Knowings, KnowsWell, Stamped
  <2>4. CASE q.expected # Absent
    <3>1. k = [val |-> old.val, ver |-> r, seen |-> clock + 1, from |-> old.from]
      BY <1>0, <1>4, <2>4 DEF RW!Told, RW!Knowledge, RW!Version
    <3>2. old \in Knowings /\ KnowsWell(old) /\ old.ver = row
      BY <1>1, <1>3, <1>4, <2>4 DEF Acceptable
    <3>3. old.from # "recall" => old.val \in {Absent, r.val}
      BY <2>1, <3>2 DEF KnowsWell
    <3>. QED  BY <1>2, <2>1, <2>2, <3>1, <3>2, <3>3 DEF Knowings, KnowsWell, Stamped
  <2>. QED  BY <2>3, <2>4
<1>5. CASE q.op \in {"commit", "revise"} /\ answer = "done"
  <2>1. r \in RW!Entries /\ r # row /\ r.upd = clock' /\ r.val = q.val /\ q.val \in Values
    <3>1. r \in RW!Entries /\ r.upd = clock' /\ r.val = q.val /\ q.val \in Values
      BY <1>2, <1>5 DEF Acceptable, AsksWell
    <3>2. row # Absent => row.upd <= clock
      BY DEF WritersInv, Stamps, Stamped
    <3>3. r # Absent
      BY <3>1, RemoteLevelsFit
    <3>4. ASSUME r = row  PROVE FALSE
      BY <1>2, <3>1, <3>2, <3>3, <3>4
    <3>. QED  BY <3>1, <3>4
  <2>2. row' = r /\ changed' = clock'
    BY <2>1, NewRow
  <2>3. k = [val |-> q.val, ver |-> r, seen |-> clock + 1, from |-> "write"]
    BY <1>5 DEF RW!Told, RW!Knowledge, RW!Version
  <2>. QED  BY <1>2, <2>1, <2>2, <2>3 DEF Knowings, KnowsWell, Stamped
<1>6. CASE q.op = "revise" /\ answer = "rejected"
  <2>1. r \in RW!Entries /\ row' = row /\ r = row /\ changed' = changed /\ changed \in 1..clock'
        /\ Stamped(row)
    BY <1>2, <1>6, NewRow DEF Acceptable, WritersInv, Stamps
  <2>2. Stamped(r)'
    <3>1. r.upd \in Nat /\ r.upd <= clock
      BY <2>1, RemoteEntry DEF Stamped
    <3>. QED  BY <1>2, <3>1 DEF Stamped
  <2>3. CASE q.expected = Absent
    <3>1. k = [val |-> Absent, ver |-> r, seen |-> changed, from |-> "write"]
      BY <1>6, <2>3 DEF RW!Told, RW!Knowledge, RW!Version
    <3>. QED  BY <1>2, <2>1, <2>2, <3>1 DEF Knowings, KnowsWell
  <2>4. CASE q.expected # Absent
    <3>1. k = [val |-> old.val, ver |-> r, seen |-> changed, from |-> old.from]
      BY <1>0, <1>6, <2>4 DEF RW!Told, RW!Knowledge, RW!Version
    <3>2. old \in Knowings /\ KnowsWell(old) /\ old.ver = row
      BY <1>1, <1>3, <1>6, <2>4 DEF Acceptable
    <3>3. old.from # "recall" => old.val \in {Absent, r.val}
      BY <2>1, <3>2 DEF KnowsWell
    <3>. QED  BY <1>2, <2>1, <2>2, <3>1, <3>2, <3>3 DEF Knowings, KnowsWell
  <2>. QED  BY <2>3, <2>4
<1>7. CASE /\ ~(q.op = "confirm" /\ answer = "done") /\ ~(q.op \in {"commit", "revise"} /\ answer = "done")
           /\ ~(q.op = "revise" /\ answer = "rejected")
  <2>1. k = old \/ k = Absent
    BY <1>0, <1>7 DEF RW!Told
  <2>. QED  BY <1>1, <2>1
<1>. QED  BY <1>4, <1>5, <1>6, <1>7

\* The rank that such a step leaves is fair if the engine it leaves is.
LEMMA WriteKeeps ==
    ASSUME WritersInv, NEW c \in Procs, NEW q, NEW r, NEW g, NEW answer, AsksWell(c, q),
           Acceptable(c, q, r, g, answer), RW!Takes(c, q, r, g, answer), snap' = snap,
           ~slipped' => Fair(r, g, standing')
    PROVE  WritersInv'
<1>1. WriterTypes'
  <2>1. row' \in RW!Entries \cup {Absent} /\ clock' \in 0..MaxClock /\ changed' \in 0..clock'
        /\ marks' \in [back : Nat, gone : Nat]
    BY NewRow, RemoteLevelsFit DEF Acceptable
  <2>2. SeatOK(seat')
    <3>1. seat' = RW!Quiet(g) /\ SeatOK(g)
      BY DEF RW!Takes, Acceptable
    <3>2. Seated(RW!Quiet(g), g, RW!Belief(g), Rank(g))
      BY <3>1, SeatQuiet DEF SeatOK
    <3>. QED  BY <3>1, <3>2 DEF SeatOK, Seated
  <2>3. standing' \subseteq RemoteLevels \cup {Middle}
    BY RemoteEntry DEF RW!Takes, RW!Imps, WritersInv, WriterTypes, Acceptable
  <2>4. know' \in [Procs -> Knowings \cup {Absent}] /\ asked' \in [Procs -> Readings \cup Writes \cup {Absent}]
    <3>1. CASE asked' = [asked EXCEPT ![c] = Absent] /\ know' = [know EXCEPT ![c] = RW!Told(c, q, r, answer)]
      <4>1. RW!Told(c, q, r, answer) \in Knowings \cup {Absent}
        <5>1. PICK k : k = RW!Told(c, q, r, answer)
          OBVIOUS
        <5>. QED  BY <5>1, ToldWell
      <4>. QED  BY <3>1, <4>1 DEF WritersInv, WriterTypes
    <3>2. CASE /\ asked' = [asked EXCEPT ![c] = [q EXCEPT !.since = IF r # row /\ @ = 0 THEN clock' ELSE @]]
               /\ know' = know
      <4>1. [q EXCEPT !.since = IF r # row /\ @ = 0 THEN clock' ELSE @] \in Writes
        <5>1. clock' \in Nat
          BY NewRow
        <5>. QED  BY <5>1 DEF AsksWell, Writes
      <4>. QED  BY <3>2, <4>1 DEF WritersInv, WriterTypes
    <3>. QED  BY <3>1, <3>2 DEF RW!Takes
  <2>. QED  BY <2>1, <2>2, <2>3, <2>4 DEF WritersInv, WriterTypes
<1>2. Stamps'
  <2>1. row' # Absent => row'.imp \in standing'
    BY DEF RW!Takes, RW!Imps
  <2>2. row' # Absent => changed' # 0
    BY NewRow DEF WritersInv, Stamps
  <2>3. Stamped(row)'
    <3>1. CASE r = row
      <4>1. row # Absent => row.upd \in Nat /\ row.upd <= clock
        BY RemoteEntry DEF WritersInv, WriterTypes, Stamps, Stamped
      <4>. QED  BY <3>1, <4>1, NewRow DEF Stamped
    <3>2. CASE r # row
      BY <3>2, NewRow DEF Stamped
    <3>. QED  BY <3>1, <3>2
  <2>4. ASSUME NEW s \in snap  PROVE Stamped(s)'
    <3>1. s # Absent => s.upd \in Nat /\ s.upd <= clock
      BY RemoteEntry DEF WritersInv, WriterTypes, Stamps, Stamped
    <3>. QED  BY <3>1, NewRow DEF Stamped
  <2>. QED  BY <2>1, <2>2, <2>3, <2>4 DEF Stamps
<1>3. ClientsKnow'
  <2>. SUFFICES ASSUME NEW d \in Procs
                PROVE  /\ (know[d] # Absent => KnowsWell(know[d]))'
                       /\ (asked[d] # Absent => \/ asked[d] \in Readings /\ asked[d].seen \in 1..clock
                                                \/ AsksWell(d, asked[d]))'
    BY DEF ClientsKnow
  <2>1. PICK k : k = know[d]
    OBVIOUS
  <2>2. PICK a : a = asked[d]
    OBVIOUS
  <2>3. /\ k # Absent => k \in Knowings /\ KnowsWell(k)
        /\ a # Absent => (a \in Readings /\ a.seen \in 1..clock) \/ AsksWell(d, a)
    BY <2>1, <2>2 DEF WritersInv, WriterTypes, ClientsKnow
  <2>4. k # Absent => KnowsWell(k)'
    BY <2>3, KnowsStill
  <2>5. CASE d # c
    <3>1. know'[d] = k /\ asked'[d] = a
      BY <2>1, <2>2, <2>5 DEF RW!Takes, WritersInv, WriterTypes
    <3>2. CASE a \in Readings /\ a.seen \in 1..clock
      BY <2>4, <3>1, <3>2, NewRow
    <3>3. CASE a # Absent /\ AsksWell(d, a)
      <4>1. AsksWell(d, a)'
        BY <2>1, <2>3, <3>1, <3>3, AsksStill
      <4>. QED  BY <2>4, <3>1, <4>1
    <3>4. CASE a = Absent
      BY <2>4, <3>1, <3>4
    <3>. QED  BY <2>3, <3>2, <3>3, <3>4
  <2>6. CASE d = c
    <3>1. CASE asked' = [asked EXCEPT ![c] = Absent] /\ know' = [know EXCEPT ![c] = RW!Told(c, q, r, answer)]
      <4>1. PICK n : n = RW!Told(c, q, r, answer)
        OBVIOUS
      <4>2. asked'[d] = Absent /\ know'[d] = n
        BY <2>6, <3>1, <4>1 DEF WritersInv, WriterTypes
      <4>3. n # Absent => KnowsWell(n)'
        BY <4>1, ToldWell
      <4>. QED  BY <4>2, <4>3
    <3>2. CASE /\ asked' = [asked EXCEPT ![c] = [q EXCEPT !.since = IF r # row /\ @ = 0 THEN clock' ELSE @]]
               /\ know' = know
      <4>1. PICK p : p = [q EXCEPT !.since = IF r # row /\ @ = 0 THEN clock' ELSE @]
        OBVIOUS
      <4>2. asked'[d] = p /\ know'[d] = k
        BY <2>1, <2>6, <3>2, <4>1 DEF WritersInv, WriterTypes
      <4>3. AsksWell(d, p)'
        BY <2>1, <2>3, <2>6, <3>2, <4>1, AsksAgain
      <4>. QED  BY <2>4, <4>2, <4>3
    <3>. QED  BY <3>1, <3>2 DEF RW!Takes
  <2>. QED  BY <2>5, <2>6
<1>4. ~slipped' => Fair(row', seat', standing')
  <2>1. seat' = RW!Quiet(g) /\ g \in Seats /\ row' = r
    BY DEF RW!Takes, Acceptable, SeatOK
  <2>2. RW!Belief(seat') = RW!Belief(g) /\ Rank(seat') = Rank(g)
    BY <2>1, SeatQuiet DEF Seated
  <2>. QED  BY <2>1, <2>2 DEF Fair
<1>5. WritersSeeWhatTheyReplace'
  <2>1. wrongs' = RW!Wrongs(c, q, r, answer)
    BY DEF RW!Takes
  <2>2. r # row /\ q.expected # Absent /\ know[c].from # "recall" => RW!HadSeen(know[c])
    <3>1. q.expected # Absent => know[c] # Absent /\ q.expected = know[c].ver /\ KnowsWell(know[c])
      BY DEF AsksWell, WritersInv, ClientsKnow
    <3>. QED  BY <3>1 DEF Acceptable, KnowsWell, RW!HadSeen
  <2>3. r # row => RW!MayRepeat(q)
    BY DEF Acceptable, AsksWell, RW!MayRepeat
  <2>4. q.op = "revise" /\ answer = "rejected" /\ RW!NoReason(q) => slipped
    BY DEF Acceptable
  <2>. QED  BY <2>1, <2>2, <2>3, <2>4 DEF RW!Wrongs, WritersSeeWhatTheyReplace,
         RW!VersionedWritesSee, RW!TakesEffectOnce, RW!RevisionsAreJudgedFairly
<1>. QED  BY <1>1, <1>2, <1>3, <1>4, <1>5 DEF WritersInv

\* What is fair stays fair when the row stays.
LEMMA FairStays ==
    ASSUME NEW c, NEW q, NEW g, NEW answer, SeatOK(g), RW!Takes(c, q, row, g, answer), Fair(row, g, standing)
    PROVE  Fair(row, g, standing')
<1>1. Rank(g) \in Nat /\ (RW!Belief(g) = Absent => Rank(g) = 0)
  BY SeatFields DEF SeatOK
<1>2. standing' = IF row = Absent THEN {} ELSE standing \cup RW!Imps(row)
  BY DEF RW!Takes
<1>. QED  BY <1>1, <1>2 DEF Fair

LEMMA RefusedKeeps ==
    ASSUME WritersInv, NEW c \in Procs, NEW q, NEW g, NEW answer, AsksWell(c, q), SeatOK(g), answer # "done",
           answer = "rejected" /\ q.op = "revise" =>
               /\ row # Absent /\ (q.expected # Absent => row = q.expected)
               /\ RW!NoReason(q) => slipped,
           ~slipped => Fair(row, g, standing),
           RW!Refused(c, q, g, answer)
    PROVE  WritersInv'
<1>1. Acceptable(c, q, row, g, answer)
  BY DEF Acceptable, WritersInv, WriterTypes
<1>2. RW!Takes(c, q, row, g, answer) /\ snap' = snap /\ slipped' = slipped
  BY DEF RW!Refused
<1>. QED  BY <1>1, <1>2, FairStays, WriteKeeps

LEMMA SavedKeeps ==
    ASSUME WritersInv, NEW c \in Procs, NEW q, NEW r, NEW g, NEW failing, AsksWell(c, q),
           Acceptable(c, q, r, g, "done"), r # Absent, SeatOK(failing),
           ~slipped => Fair(r, g, standing \cup {r.imp}),
           RW!Saved(c, q, r, g, failing)
    PROVE  WritersInv'
<1>1. CASE RW!Takes(c, q, r, g, "done") /\ UNCHANGED <<snap, lost, slipped>>
  <2>1. standing' = standing \cup {r.imp}
    BY <1>1 DEF RW!Takes, RW!Imps
  <2>. QED  BY <1>1, <2>1, WriteKeeps
<1>2. CASE RW!Takes(c, q, row, failing, "error") /\ slipped' = (slipped \/ failing # seat) /\ snap' = snap
  <2>1. Acceptable(c, q, row, failing, "error")
    BY DEF Acceptable, WritersInv, WriterTypes
  <2>2. ~slipped' => Fair(row, failing, standing')
    BY <1>2, FairStays DEF WritersInv
  <2>. QED  BY <1>2, <2>1, <2>2, WriteKeeps
<1>. QED  BY <1>1, <1>2 DEF RW!Saved

LEMMA UncheckedKeeps ==
    ASSUME WritersInv, NEW c \in Procs, NEW q, AsksWell(c, q), RW!Unchecked(c, q)
    PROVE  WritersInv'
<1>1. SeatOK(seat) /\ (~slipped => Fair(row, seat, standing))
  BY DEF WritersInv, WriterTypes
<1>2. CASE RW!Refused(c, q, seat, "memory_not_found")
  BY <1>1, <1>2, RefusedKeeps
<1>3. CASE RW!Refused(c, q, seat, "version_conflict")
  BY <1>1, <1>3, RefusedKeeps
<1>. QED  BY <1>2, <1>3 DEF RW!Unchecked

\* What the engine is before a revision or a commit, and after it.
LEMMA RevisedSeat ==
    ASSUME NEW g, SeatOK(g), NEW e \in RW!Entries, NEW s,
           NEW h, h = RW!AGM!Revised(g, "it", e, s)
    PROVE  /\ SeatOK(h)
           /\ \/ Rank(h) = Rank(g) /\ (RW!Belief(g) # Absent => RW!Belief(h) = RW!Belief(g)) /\ RW!Belief(g) # Absent
              \/ Rank(h) = RW!AGM!Greater(Rank(g), e.imp) /\ RW!Belief(h) = e
           /\ ~RW!Wins(g, e, s) => Rank(h) = Rank(g) /\ RW!Belief(h) = RW!Belief(g) /\ RW!Belief(g) # Absent
<1>1. g \in Seats /\ e # Absent
  BY RemoteEntry DEF SeatOK
<1>2. CASE RW!Belief(g) # Absent /\ (RW!Belief(g).val = e.val \/ ~RW!Wins(g, e, s))
  <2>1. Seated(h, g, RW!Belief(g), Rank(g))
    BY <1>1, <1>2, SeatRevised
  <2>. QED  BY <1>2, <2>1 DEF Seated, SeatOK
<1>3. CASE ~(RW!Belief(g) # Absent /\ (RW!Belief(g).val = e.val \/ ~RW!Wins(g, e, s)))
  <2>1. Seated(h, g, e, RW!AGM!Greater(Rank(g), e.imp))
    BY <1>1, <1>3, SeatRevised
  <2>2. RW!Wins(g, e, s)
    BY <1>3 DEF RW!Wins
  <2>. QED  BY <1>1, <2>1, <2>2 DEF Seated, SeatOK
<1>. QED  BY <1>2, <1>3

LEMMA FairRevised ==
    ASSUME NEW g, SeatOK(g), Fair(row, g, standing), NEW e \in RW!Entries, NEW s,
           NEW h, h = RW!AGM!Revised(g, "it", e, s), NEW r, r # Absent
    PROVE  Fair(r, h, standing \cup {e.imp})
<1>1. Rank(g) \in Nat /\ e.imp \in Nat /\ e.imp # 0
  BY SeatFields, RemoteEntry DEF SeatOK
<1>2. CASE Rank(h) = Rank(g) /\ RW!Belief(g) # Absent
  BY <1>2 DEF Fair
<1>3. CASE Rank(h) = RW!AGM!Greater(Rank(g), e.imp)
  BY <1>1, <1>3 DEF Fair, RW!AGM!Greater
<1>. QED  BY <1>2, <1>3, RevisedSeat

LEMMA CommitKeeps ==
    ASSUME WritersInv, NEW c \in Procs, NEW q \in RW!Requests(c, "commit"), RW!Commit(c, q)
    PROVE  WritersInv'
<1> DEFINE e == [val |-> q.val, imp |-> q.imp, at |-> clock + 1, upd |-> clock + 1, ok |-> TRUE]
           g == IF row # Absent /\ (RW!Belief(seat) = Absent \/ row.at > RW!Belief(seat).at)
                THEN RW!Believing(seat, row) ELSE seat
           h == RW!AGM!Revised(g, "it", e, "entrenchment")
           r == IF row = Absent THEN e ELSE [e EXCEPT !.at = row.at]
<1>1. AsksWell(c, q) /\ q.op = "commit" /\ q.expected = Absent /\ q.val \in Values /\ q.imp \in RemoteLevels
  <2>1. AsksWell(c, q) /\ q.op = "commit"
    BY AskedWrites
  <2>. QED  BY <2>1 DEF AsksWell
<1>2. SeatOK(seat) /\ (~slipped => Fair(row, seat, standing)) /\ row \in RW!Entries \cup {Absent}
  BY DEF WritersInv, WriterTypes
<1>3. CASE RW!Refused(c, q, seat, "memory_exists")
  BY <1>1, <1>2, <1>3, RefusedKeeps
<1>4. CASE clock < MaxClock /\ (q.how = "create" => row = Absent)
  <2>1. e \in RW!Entries /\ e.imp = q.imp /\ e.val = q.val
    BY <1>1, <1>4, RemoteLevelsFit DEF RW!Entries, WritersInv, WriterTypes
  <2>2. r \in RW!Entries /\ r.imp = e.imp /\ r.val = q.val /\ r.upd = clock + 1
    BY <1>2, <2>1 DEF RW!Entries
  <2>3. SeatOK(g) /\ Rank(g) = Rank(seat) /\ (row = Absent => g = seat)
    <3>1. CASE g = seat
      BY <1>2, <3>1
    <3>2. CASE row # Absent /\ g = RW!Believing(seat, row)
      <4>1. Seated(g, seat, row, Rank(seat))
        BY <1>2, <3>2, SeatBelieving DEF SeatOK
      <4>. QED  BY <3>2, <4>1 DEF Seated, SeatOK
    <3>. QED  BY <3>1, <3>2
  <2>4. r # Absent
    BY <2>2, RemoteLevelsFit
  <2>. HIDE DEF e, g, r
  <2>5. SeatOK(h) /\ (~RW!Wins(g, e, "entrenchment") => Rank(h) = Rank(g) /\ RW!Belief(h) = RW!Belief(g)
                                                       /\ RW!Belief(g) # Absent)
    BY <2>1, <2>3, RevisedSeat
  <2>6. ~slipped => Fair(row, g, standing)
    BY <1>2, <2>3 DEF Fair
  <2>7. ~slipped => Fair(r, h, standing \cup {r.imp})
    BY <2>1, <2>2, <2>3, <2>4, <2>6, FairRevised
  <2>. HIDE DEF h
  <2>8. CASE RW!Saved(c, q, r, h, h)
    <3>1. Acceptable(c, q, r, h, "done")
      BY <1>1, <1>4, <2>2, <2>4, <2>5 DEF Acceptable
    <3>. QED  BY <1>1, <2>4, <2>5, <2>7, <2>8, <3>1, SavedKeeps
  <2>9. CASE ~RW!Wins(g, e, "entrenchment") /\ RW!Refused(c, q, h, "rejected")
    <3>1. ~slipped => Fair(row, h, standing)
      BY <2>5, <2>6, <2>9 DEF Fair
    <3>. QED  BY <1>1, <2>5, <2>9, <3>1, RefusedKeeps
  <2>10. IF RW!Wins(g, e, "entrenchment") THEN RW!Saved(c, q, r, h, h) ELSE RW!Refused(c, q, h, "rejected")
    BY <1>4, <2>4 DEF RW!Commit, e, g, h, r
  <2>. QED  BY <2>8, <2>9, <2>10
<1>5. clock < MaxClock
  BY DEF RW!Commit, RW!Saved, RW!Refused, RW!Takes
<1>. QED  BY <1>3, <1>4, <1>5 DEF RW!Commit

LEMMA JudgedSeat ==
    ASSUME WritersInv, row # Absent, NEW g, g = RW!Judged(seat, row)
    PROVE  SeatOK(g) /\ RW!Belief(g) = row /\ (~slipped => Fair(row, g, standing))
<1>1. row \in RW!Entries /\ SeatOK(seat) /\ row.imp \in standing /\ row.imp # 0
      /\ (~slipped => Fair(row, seat, standing))
  BY RemoteEntry DEF WritersInv, WriterTypes, Stamps
<1>2. CASE g = RW!AGM!Reconciled(seat, "it", row)
  <2>1. Seated(g, seat, row, row.imp)
    BY <1>1, <1>2, SeatReconciled DEF SeatOK
  <2>. QED  BY <1>1, <2>1 DEF Seated, SeatOK, Fair
<1>3. CASE g = RW!Believing(seat, row)
  <2>1. Seated(g, seat, row, Rank(seat))
    BY <1>1, <1>3, SeatBelieving DEF SeatOK
  <2>. QED  BY <1>1, <2>1 DEF Seated, SeatOK, Fair
<1>. QED  BY <1>2, <1>3 DEF RW!Judged

\* A revision is judged by the row, and by nothing that was not stored.
LEMMA RejectedForReason ==
    ASSUME WritersInv, row # Absent, ~slipped, NEW q \in Writes, q.how \in RW!AGM!ConflictStrategy, q.imp \in RemoteLevels,
           NEW e \in RW!Entries, e.imp = q.imp, e.at = row.at,
           NEW g, SeatOK(g), RW!Belief(g) = row, Fair(row, g, standing),
           ~RW!Wins(g, e, q.how)
    PROVE  ~RW!NoReason(q)
<1>1. /\ row \in RW!Entries /\ row.imp \in standing /\ row.imp \in Nat /\ row.at \in Nat /\ row.ok = TRUE
      /\ e.ok = TRUE /\ e.imp \in Nat /\ Rank(g) \in Nat /\ standing \subseteq Nat /\ Middle \in Nat
  <2>1. row \in RW!Entries /\ row.imp \in standing /\ standing \subseteq Nat
    BY RemoteLevelsFit DEF WritersInv, WriterTypes, Stamps
  <2>2. Rank(g) \in Nat
    BY SeatFields DEF SeatOK
  <2>3. /\ row.imp \in Nat /\ row.at \in Nat /\ row.ok = TRUE
        /\ e.ok = TRUE /\ e.imp \in Nat
    BY <2>1, RemoteEntry
  <2>. QED  BY <2>1, <2>2, <2>3, RemoteLevelsFit
<1>2. ~RW!AGM!Replaces(g, "it", e, q.how) /\ g.beliefs["it"] = row
  BY DEF RW!Wins, RW!Belief
<1>3. q.how # "recency"
  <2>1. ASSUME q.how = "recency"  PROVE ~(e.at >= row.at)
    BY <1>2, <2>1 DEF RW!AGM!Replaces
  <2>. QED  BY <1>1, <2>1
<1>4. \E i \in standing : ~(e.imp >= i)
  <2>1. CASE q.how = "entrenchment"
    <3>1. ~(e.imp >= RW!AGM!Entrenchment(g, "it"))
      BY <1>2, <2>1 DEF RW!AGM!Replaces
    <3>2. RW!AGM!Entrenchment(g, "it") \in standing
      BY DEF RW!AGM!Entrenchment, Fair, Rank
    <3>. QED  BY <3>1, <3>2
  <2>2. CASE q.how = "importance"
    <3>1. ~(e.imp >= row.imp)
      BY <1>2, <2>2 DEF RW!AGM!Replaces
    <3>. QED  BY <1>1, <3>1
  <2>3. CASE q.how = "verification"
    <3>1. ~(e.imp >= row.imp)
      BY <1>1, <1>2, <2>3 DEF RW!AGM!Replaces
    <3>. QED  BY <1>1, <3>1
  <2>. QED  BY <1>3, <2>1, <2>2, <2>3 DEF RW!AGM!ConflictStrategy
<1>. QED  BY <1>3, <1>4 DEF RW!NoReason

LEMMA ReviseKeeps ==
    ASSUME WritersInv, NEW c \in Procs, NEW q \in RW!Requests(c, "revise"), RW!Revise(c, q)
    PROVE  WritersInv'
<1> DEFINE e == [row EXCEPT !.val = q.val, !.imp = q.imp, !.upd = clock + 1]
           g == RW!Judged(seat, row)
           h == RW!AGM!Revised(g, "it", e, q.how)
<1>1. AsksWell(c, q) /\ q \in Writes /\ q.op = "revise" /\ q.how \in RW!AGM!ConflictStrategy /\ q.how # "create"
      /\ q.val \in Values /\ q.imp \in RemoteLevels
  <2>1. AsksWell(c, q) /\ q.op = "revise"
    BY AskedWrites
  <2>. QED  BY <2>1 DEF AsksWell
<1>2. CASE RW!Unchecked(c, q)
  BY <1>1, <1>2, UncheckedKeeps
<1>3. CASE RW!Checked(q) /\ clock < MaxClock
  <2>1. row \in RW!Entries /\ row # Absent /\ (q.expected # Absent => row = q.expected)
    BY <1>3 DEF RW!Checked, RW!Expected, RW!Version, WritersInv, WriterTypes
  <2>2. e \in RW!Entries /\ e.imp = q.imp /\ e.val = q.val /\ e.upd = clock + 1 /\ e.at = row.at
    <3>1. clock \in Nat /\ clock + 1 \in 1..MaxClock
      BY <1>3, RemoteLevelsFit DEF WritersInv, WriterTypes
    <3>2. e \in RW!Entries
      BY <1>1, <2>1, <3>1 DEF RW!Entries
    <3>3. e.imp = q.imp /\ e.val = q.val /\ e.upd = clock + 1 /\ e.at = row.at
      BY <2>1 DEF RW!Entries
    <3>. QED  BY <3>2, <3>3
  <2>3. SeatOK(g) /\ RW!Belief(g) = row /\ (~slipped => Fair(row, g, standing))
    BY <2>1, JudgedSeat
  <2>4. e # Absent
    BY <2>2, RemoteLevelsFit
  <2>. HIDE DEF e, g
  <2>5. SeatOK(h) /\ (~RW!Wins(g, e, q.how) => Rank(h) = Rank(g) /\ RW!Belief(h) = RW!Belief(g))
    BY <2>2, <2>3, RevisedSeat
  <2>6. ~slipped => Fair(e, h, standing \cup {e.imp})
    BY <2>2, <2>3, <2>4, FairRevised
  <2>. HIDE DEF h
  <2> DEFINE f == RW!Believing(h, e)
  <2>7. SeatOK(f) /\ Rank(f) = Rank(h)
    <3>1. Seated(f, h, e, Rank(h))
      BY <2>2, <2>5, SeatBelieving DEF SeatOK
    <3>. QED  BY <2>4, <3>1 DEF Seated, SeatOK
  <2>8. ~slipped => Fair(e, f, standing \cup {e.imp})
    BY <2>4, <2>6, <2>7 DEF Fair
  <2>. HIDE DEF f
  <2>9. CASE RW!Saved(c, q, e, f, f)
    <3>1. Acceptable(c, q, e, f, "done")
      BY <1>1, <2>1, <2>2, <2>4, <2>7 DEF Acceptable
    <3>. QED  BY <1>1, <2>4, <2>7, <2>8, <2>9, <3>1, SavedKeeps
  <2>10. CASE ~RW!Wins(g, e, q.how) /\ RW!Refused(c, q, h, "rejected")
    <3>1. ~slipped => Fair(row, h, standing)
      BY <2>1, <2>3, <2>5, <2>10 DEF Fair
    <3>2. RW!NoReason(q) => slipped
      BY <1>1, <2>1, <2>2, <2>3, <2>10, RejectedForReason
    <3>. QED  BY <1>1, <2>1, <2>5, <2>10, <3>1, <3>2, RefusedKeeps
  <2>11. RW!Saved(c, q, e, f, f) \/ (~RW!Wins(g, e, q.how) /\ RW!Refused(c, q, h, "rejected"))
    <3>1. ~RW!Unchecked(c, q)
      BY <1>3 DEF RW!Checked, RW!Unchecked
    <3>. QED  BY <3>1 DEF RW!Revise, e, g, h, f
  <2>. QED  BY <2>9, <2>10, <2>11
<1>4. RW!Unchecked(c, q) \/ (RW!Checked(q) /\ clock < MaxClock)
  BY DEF RW!Revise, RW!Saved, RW!Refused, RW!Takes
<1>. QED  BY <1>2, <1>3, <1>4

LEMMA ConfirmKeeps ==
    ASSUME WritersInv, NEW c \in Procs, NEW q \in RW!Requests(c, "confirm"), RW!Confirm(c, q)
    PROVE  WritersInv'
<1> DEFINE e == [row EXCEPT !.upd = clock + 1]
           g == RW!Believing(seat, e)
<1>1. AsksWell(c, q) /\ q.op = "confirm" /\ q.how # "create"
  <2>1. AsksWell(c, q) /\ q.op = "confirm"
    BY AskedWrites
  <2>. QED  BY <2>1 DEF AsksWell
<1>2. CASE RW!Unchecked(c, q)
  BY <1>1, <1>2, UncheckedKeeps
<1>3. CASE RW!Checked(q) /\ RW!Saved(c, q, e, g, seat)
  <2>1. row \in RW!Entries /\ row # Absent /\ (q.expected # Absent => row = q.expected) /\ row.imp \in standing
        /\ SeatOK(seat) /\ (~slipped => Fair(row, seat, standing)) /\ clock < MaxClock
    BY <1>3 DEF RW!Checked, RW!Expected, RW!Version, RW!Saved, RW!Takes, WritersInv, WriterTypes, Stamps
  <2>2. e \in RW!Entries /\ e.imp = row.imp /\ e.val = row.val /\ e.upd = clock + 1
    <3>1. clock \in Nat /\ clock + 1 \in 1..MaxClock
      BY <2>1, RemoteLevelsFit DEF WritersInv, WriterTypes
    <3>2. e \in RW!Entries
      BY <2>1, <3>1 DEF RW!Entries
    <3>3. e.imp = row.imp /\ e.val = row.val /\ e.upd = clock + 1
      BY <2>1 DEF RW!Entries
    <3>. QED  BY <3>2, <3>3
  <2>3. e # Absent
    BY <2>2, RemoteLevelsFit
  <2>. HIDE DEF e
  <2>4. SeatOK(g) /\ Rank(g) = Rank(seat)
    <3>1. Seated(g, seat, e, Rank(seat))
      BY <2>1, <2>2, SeatBelieving DEF SeatOK
    <3>. QED  BY <2>3, <3>1 DEF Seated, SeatOK
  <2>5. ~slipped => Fair(e, g, standing \cup {e.imp})
    BY <2>1, <2>3, <2>4 DEF Fair
  <2>. HIDE DEF g
  <2>6. Acceptable(c, q, e, g, "done")
    BY <1>1, <2>1, <2>2, <2>3, <2>4 DEF Acceptable
  <2>. QED  BY <1>1, <1>3, <2>1, <2>3, <2>5, <2>6, SavedKeeps
<1>. QED  BY <1>2, <1>3 DEF RW!Confirm

LEMMA ForgetKeeps ==
    ASSUME WritersInv, NEW c \in Procs, NEW q \in RW!Requests(c, "forget"), RW!Forget(c, q)
    PROVE  WritersInv'
<1> DEFINE g == RW!AGM!Contracted(seat, "it")
<1>1. AsksWell(c, q) /\ q.op = "forget" /\ q.how # "create"
  <2>1. AsksWell(c, q) /\ q.op = "forget"
    BY AskedWrites
  <2>. QED  BY <2>1 DEF AsksWell
<1>2. CASE RW!Unchecked(c, q)
  BY <1>1, <1>2, UncheckedKeeps
<1>3. CASE RW!Checked(q) /\ RW!Takes(c, q, Absent, g, "done") /\ UNCHANGED <<snap, lost, slipped>>
  <2>1. row # Absent /\ (q.expected # Absent => row = q.expected)
    BY <1>3 DEF RW!Checked, RW!Expected, RW!Version
  <2>2. SeatOK(g) /\ RW!Belief(g) = Absent /\ Rank(g) = 0
    <3>1. Seated(g, seat, Absent, 0)
      BY SeatContracted DEF WritersInv, WriterTypes
    <3>. QED  BY <3>1 DEF Seated, SeatOK
  <2>. HIDE DEF g
  <2>3. Acceptable(c, q, Absent, g, "done")
    BY <1>1, <2>1, <2>2 DEF Acceptable
  <2>4. Fair(Absent, g, standing')
    BY <2>2 DEF Fair
  <2>. QED  BY <1>1, <1>3, <2>3, <2>4, WriteKeeps
<1>. QED  BY <1>2, <1>3 DEF RW!Forget

\* Readings, snapshots, rollbacks and restarts.
LEMMA ReadingsKeep ==
    ASSUME WritersInv, NEW c \in Procs,
           RW!GiveUp(c) \/ RW!List(c) \/ RW!Recall(c) \/ RW!AttachProvenance(c) \/ RW!Snapshot
    PROVE  WritersInv'
<1>1. /\ row' = row /\ seat' = seat /\ clock' = clock /\ changed' = changed /\ marks' = marks
      /\ standing' = standing /\ slipped' = slipped /\ wrongs' = {}
      /\ snap' \in {snap, {row}} /\ (snap' = snap \/ (know' = know /\ asked' = asked))
  BY DEF RW!GiveUp, RW!List, RW!Recall, RW!AttachProvenance, RW!Snapshot, RW!ghosts
<1>2. row # Absent => row \in RW!Entries /\ row.val \in Values /\ changed \in 1..clock
  <2>1. row # Absent => row \in RW!Entries /\ changed \in 1..clock
    BY DEF WritersInv, WriterTypes, Stamps
  <2>. QED  BY <2>1, RemoteEntry
<1>3. ASSUME NEW d \in Procs
      PROVE  /\ know'[d] \in Knowings \cup {Absent} /\ asked'[d] \in Readings \cup Writes \cup {Absent}
             /\ know'[d] # Absent => KnowsWell(know'[d])
             /\ asked'[d] # Absent => \/ asked'[d] \in Readings /\ asked'[d].seen \in 1..clock
                                      \/ asked'[d] = asked[d] /\ know'[d] = know[d] /\ AsksWell(d, asked[d])
  <2>1. /\ know[d] \in Knowings \cup {Absent} /\ asked[d] \in Readings \cup Writes \cup {Absent}
        /\ know[d] # Absent => KnowsWell(know[d])
        /\ asked[d] # Absent => \/ asked[d] \in Readings /\ asked[d].seen \in 1..clock
                                \/ AsksWell(d, asked[d])
    BY DEF WritersInv, WriterTypes, ClientsKnow
  <2>2. CASE know'[d] = know[d] /\ asked'[d] = asked[d]
    BY <2>1, <2>2
  <2>3. CASE d = c /\ RW!GiveUp(c)
    <3>1. know'[d] = know[d] /\ asked'[d] = Absent
      BY <2>3 DEF RW!GiveUp, WritersInv, WriterTypes
    <3>. QED  BY <2>1, <3>1
  <2>4. CASE d = c /\ RW!List(c)
    <3>1. asked'[d] = Absent
      BY <2>4 DEF RW!List
    <3>2. know'[d] = IF row = Absent THEN Absent
                     ELSE [val |-> row.val, ver |-> row, seen |-> changed, from |-> "list"]
      BY <2>4 DEF RW!List, RW!Knowledge, RW!Version, WritersInv, WriterTypes
    <3>. QED  BY <1>2, <3>1, <3>2 DEF Knowings, KnowsWell, WritersInv, Stamps
  <2>5. CASE d = c /\ RW!Recall(c)
    <3>1. know'[d] = know[d] /\ asked'[d] = [op |-> "recall", val |-> row.val, seen |-> changed] /\ row # Absent
      BY <2>5 DEF RW!Recall, WritersInv, WriterTypes
    <3>2. asked'[d] \in Readings /\ asked'[d].seen \in 1..clock
      BY <1>2, <3>1 DEF Readings
    <3>. QED  BY <2>1, <3>1, <3>2
  <2>6. CASE d = c /\ RW!AttachProvenance(c)
    <3>1. asked[d] \in Readings /\ asked[d].seen \in 1..clock
      BY <2>1, <2>6 DEF RW!AttachProvenance, RW!Reading, AsksWell, Writes
    <3>2. asked'[d] = Absent
      BY <2>6 DEF RW!AttachProvenance, WritersInv, WriterTypes
    <3>3. know'[d] = IF row = Absent THEN Absent
                     ELSE [val |-> asked[d].val, ver |-> row, seen |-> asked[d].seen, from |-> "recall"]
      BY <2>6 DEF RW!AttachProvenance, RW!Knowledge, RW!Version, WritersInv, WriterTypes
    <3>. QED  BY <1>2, <3>1, <3>2, <3>3 DEF Knowings, KnowsWell, Readings, WritersInv, Stamps
  <2>7. (know'[d] = know[d] /\ asked'[d] = asked[d]) \/ (d = c /\ ~RW!Snapshot)
    BY DEF RW!GiveUp, RW!List, RW!Recall, RW!AttachProvenance, RW!Snapshot, WritersInv, WriterTypes
  <2>. QED  BY <2>2, <2>3, <2>4, <2>5, <2>6, <2>7
<1>4. know' = [d \in Procs |-> know'[d]] /\ asked' = [d \in Procs |-> asked'[d]]
  BY DEF RW!GiveUp, RW!List, RW!Recall, RW!AttachProvenance, RW!Snapshot, WritersInv, WriterTypes
<1>5. WriterTypes' /\ Stamps'
  <2>1. know' \in [Procs -> Knowings \cup {Absent}] /\ asked' \in [Procs -> Readings \cup Writes \cup {Absent}]
    BY <1>3, <1>4
  <2>2. snap' \subseteq RW!Entries \cup {Absent} /\ (snap' = {} \/ \E s \in snap' : snap' = {s})
        /\ \A s \in snap' : Stamped(s)
    BY <1>1 DEF WritersInv, WriterTypes, Stamps
  <2>. QED  BY <1>1, <2>1, <2>2 DEF WritersInv, WriterTypes, Stamps, Stamped
<1>6. ClientsKnow'
  BY <1>1, <1>3 DEF ClientsKnow, KnowsWell, AsksWell, Stamped
<1>. QED
  BY <1>1, <1>5, <1>6 DEF WritersInv, WritersSeeWhatTheyReplace, RW!VersionedWritesSee, RW!TakesEffectOnce,
      RW!RevisionsAreJudgedFairly

LEMMA RollbackKeeps ==
    ASSUME WritersInv, NEW r \in snap, RW!Rollback(r)
    PROVE  WritersInv'
<1> DEFINE g == RW!Synced(seat, r)
<1>1. /\ clock \in Nat /\ clock' = clock + 1 /\ clock' \in 1..MaxClock /\ snap' = snap
      /\ know' = know /\ asked' = asked /\ wrongs' = {} /\ seat' = RW!Quiet(g)
      /\ r \in RW!Entries \cup {Absent} /\ Stamped(r) /\ r # row
  BY RemoteLevelsFit DEF RW!Rollback, WritersInv, WriterTypes, Stamps
<1>2. g \in Seats /\ (IF r = Absent THEN RW!Belief(g) = Absent /\ Rank(g) = 0
                      ELSE RW!Belief(g) = r /\ Rank(g) = r.imp)
  <2>1. CASE r = Absent
    <3>1. Seated(g, seat, Absent, 0)
      BY <2>1, SeatContracted DEF RW!Synced, WritersInv, WriterTypes
    <3>. QED  BY <2>1, <3>1 DEF Seated
  <2>2. CASE r # Absent
    <3>1. Seated(g, seat, r, r.imp)
      BY <1>1, <2>2, SeatReconciled DEF RW!Synced, WritersInv, WriterTypes, SeatOK
    <3>. QED  BY <2>2, <3>1 DEF Seated
  <2>. QED  BY <2>1, <2>2
<1>3. seat' \in Seats /\ RW!Belief(seat') = RW!Belief(g) /\ Rank(seat') = Rank(g)
  <2>1. Seated(RW!Quiet(g), g, RW!Belief(g), Rank(g))
    BY <1>2, SeatQuiet
  <2>. QED  BY <1>1, <2>1 DEF Seated
<1>. HIDE DEF g
<1>4. SeatOK(seat')
  BY <1>2, <1>3 DEF SeatOK
<1>5. \/ row' = r /\ changed' = clock' /\ marks'.back = clock' /\ marks' \in [back : Nat, gone : Nat]
      \/ row' = row /\ changed' = changed /\ marks' = marks /\ slipped'
  BY <1>1 DEF RW!Rollback, WritersInv, WriterTypes
<1>6. standing' = RW!Imps(row')
  BY DEF RW!Rollback
<1>7. WriterTypes' /\ Stamps'
  <2>1. row' \in RW!Entries \cup {Absent} /\ changed' \in 0..clock' /\ marks' \in [back : Nat, gone : Nat]
    BY <1>1, <1>5 DEF WritersInv, WriterTypes
  <2>2. standing' \subseteq RemoteLevels \cup {Middle} /\ (row' # Absent => row'.imp \in standing')
    BY <1>6, <2>1, RemoteEntry DEF RW!Imps
  <2>3. row' # Absent => changed' # 0
    BY <1>1, <1>5 DEF WritersInv, Stamps
  <2>4. \A e \in RW!Entries \cup {Absent} : Stamped(e) => (e # Absent => e.upd <= clock')
    <3>1. \A e \in RW!Entries : e.upd \in Nat
      BY RemoteEntry
    <3>. QED  BY <1>1, <3>1 DEF Stamped
  <2>5. \A s \in snap : s \in RW!Entries \cup {Absent} /\ Stamped(s)
    BY DEF WritersInv, WriterTypes, Stamps
  <2>6. Stamped(row) /\ row \in RW!Entries \cup {Absent}
    BY DEF WritersInv, WriterTypes, Stamps
  <2>7. \A s \in snap : s # Absent => s.upd <= clock'
    BY <2>4, <2>5
  <2>8. row' # Absent => row'.upd <= clock'
    BY <1>1, <1>5, <2>4, <2>6
  <2>9. WriterTypes'
    BY <1>1, <1>4, <2>1, <2>2 DEF WritersInv, WriterTypes
  <2>. QED  BY <1>1, <2>2, <2>3, <2>7, <2>8, <2>9 DEF Stamps, Stamped
<1>8. ClientsKnow'
  <2>. SUFFICES ASSUME NEW d \in Procs
                PROVE  /\ (know[d] # Absent => KnowsWell(know[d]))'
                       /\ (asked[d] # Absent => \/ asked[d] \in Readings /\ asked[d].seen \in 1..clock
                                                \/ AsksWell(d, asked[d]))'
    BY DEF ClientsKnow
  <2>1. /\ know[d] \in Knowings \cup {Absent} /\ (know[d] # Absent => KnowsWell(know[d]))
        /\ asked[d] # Absent => \/ asked[d] \in Readings /\ asked[d].seen \in 1..clock
                                \/ AsksWell(d, asked[d])
    BY DEF WritersInv, WriterTypes, ClientsKnow
  <2>2. know[d] # Absent => KnowsWell(know[d])'
    <3>1. ASSUME know[d] # Absent
          PROVE  know[d].ver \in RW!Entries /\ know[d].ver.upd \in Nat /\ know[d].ver.upd <= clock
                 /\ know[d].seen \in 1..clock
      BY <2>1, <3>1, RemoteEntry DEF Knowings, KnowsWell, Stamped
    <3>2. ASSUME know[d] # Absent
          PROVE  know[d].ver.upd <= clock' /\ know[d].seen \in 1..clock'
      BY <1>1, <3>1, <3>2
    <3>3. CASE row' = row /\ changed' = changed /\ marks' = marks
      BY <1>1, <2>1, <3>2, <3>3 DEF KnowsWell, Stamped
    <3>4. CASE marks'.back = clock'
      BY <1>1, <2>1, <3>1, <3>2, <3>4 DEF KnowsWell, Stamped
    <3>. QED  BY <1>5, <3>3, <3>4
  <2>3. ASSUME asked[d] # Absent, AsksWell(d, asked[d])
        PROVE  AsksWell(d, asked[d])'
    <3>1. asked[d].since \in Nat /\ asked[d].since <= clock /\ asked[d].since < clock'
      BY <1>1, <2>3 DEF AsksWell, Writes
    <3>2. CASE row' = row /\ changed' = changed /\ marks' = marks
      BY <1>1, <2>3, <3>1, <3>2 DEF AsksWell
    <3>3. CASE marks'.back = clock'
      BY <1>1, <2>3, <3>1, <3>3 DEF AsksWell
    <3>. QED  BY <1>5, <3>2, <3>3
  <2>. QED  BY <1>1, <2>1, <2>2, <2>3
<1>9. ~slipped' => Fair(row', seat', standing')
  <2>1. CASE row' = r
    <3>1. CASE r = Absent
      BY <1>2, <1>3, <2>1, <3>1 DEF Fair
    <3>2. CASE r # Absent
      <4>1. r.imp # 0 /\ standing' = {r.imp}
        BY <1>1, <1>6, <2>1, <3>2, RemoteEntry DEF RW!Imps
      <4>. QED  BY <1>2, <1>3, <2>1, <3>2, <4>1 DEF Fair
    <3>. QED  BY <3>1, <3>2
  <2>. QED  BY <1>5, <2>1
<1>. QED
  BY <1>1, <1>7, <1>8, <1>9 DEF WritersInv, WritersSeeWhatTheyReplace, RW!VersionedWritesSee, RW!TakesEffectOnce,
     RW!RevisionsAreJudgedFairly

\* An engine that was just loaded has no rank but that of the row, or none.
LEMMA LoadedSeat ==
    ASSUME NEW r \in RW!Entries \cup {Absent},
           NEW g, g = RW!AGM!Loaded([s \in {"it"} |-> r]),
           NEW is, is = RW!Imps(r) \cup {Middle : i \in {i \in RW!Imps(r) : i < Middle}}
    PROVE  SeatOK(g) /\ Fair(r, g, is)
<1>1. r # Absent => r.imp \in Nat /\ r.imp # 0
  BY RemoteEntry
<1>2. Absent \notin RW!Entries /\ Middle \in Nat
  BY RemoteLevelsFit
<1>3. CASE r # Absent /\ r.imp >= Middle
  <2>1. g \in Seats /\ RW!Belief(g) = r /\ Rank(g) = r.imp
    BY <1>1, <1>3 DEF RW!AGM!Loaded, Seats, RW!Belief, Rank
  <2>2. r.imp \in is
    BY <1>3 DEF RW!Imps
  <2>. QED  BY <1>1, <1>3, <2>1, <2>2 DEF SeatOK, Fair
<1>4. CASE ~(r # Absent /\ r.imp >= Middle)
  <2>1. g \in Seats /\ RW!Belief(g) = Absent /\ Rank(g) = 0
    BY <1>4 DEF RW!AGM!Loaded, Seats, RW!Belief, Rank
  <2>2. r # Absent => Middle \in is
    BY <1>1, <1>2, <1>4 DEF RW!Imps
  <2>. QED  BY <2>1, <2>2 DEF SeatOK, Fair
<1>. QED  BY <1>3, <1>4

LEMMA RestartKeeps ==
    ASSUME WritersInv, RW!Restart
    PROVE  WritersInv'
<1>1. /\ row' = row /\ clock' = clock /\ changed' = changed /\ marks' = marks /\ snap' = snap
      /\ know' = know /\ asked' = asked /\ wrongs' = {}
      /\ seat' = RW!AGM!Loaded([s \in {"it"} |-> row])
      /\ standing' = RW!Imps(row) \cup {Middle : i \in {i \in RW!Imps(row) : i < Middle}}
  BY DEF RW!Restart
<1>2. SeatOK(seat') /\ Fair(row, seat', standing')
  BY <1>1, LoadedSeat DEF WritersInv, WriterTypes
<1>3. standing' \subseteq RemoteLevels \cup {Middle} /\ (row # Absent => row.imp \in standing')
  BY <1>1, RemoteEntry DEF RW!Imps, WritersInv, WriterTypes
<1>4. WriterTypes' /\ Stamps'
  BY <1>1, <1>2, <1>3 DEF WritersInv, WriterTypes, Stamps, Stamped
<1>5. ClientsKnow'
  BY <1>1 DEF WritersInv, ClientsKnow, KnowsWell, AsksWell, Stamped
<1>. QED
  BY <1>1, <1>2, <1>4, <1>5 DEF WritersInv, WritersSeeWhatTheyReplace, RW!VersionedWritesSee, RW!TakesEffectOnce,
     RW!RevisionsAreJudgedFairly

LEMMA WritersStart == RW!Init => WritersInv
<1>. SUFFICES ASSUME RW!Init PROVE WritersInv
  OBVIOUS
<1>1. /\ row = Absent /\ seat = RW!AGM!Loaded([s \in {"it"} |-> row]) /\ snap = {} /\ clock = 0
      /\ know = [c \in Procs |-> Absent] /\ asked = [c \in Procs |-> Absent]
      /\ changed = 0 /\ marks = [back |-> 0, gone |-> 0] /\ standing = {} /\ wrongs = {}
  BY DEF RW!Init
<1>2. SeatOK(seat) /\ Fair(row, seat, standing)
  <2>1. standing = RW!Imps(row) \cup {Middle : i \in {i \in RW!Imps(row) : i < Middle}}
    BY <1>1 DEF RW!Imps
  <2>. QED  BY <1>1, <2>1, LoadedSeat
<1>3. WriterTypes
  BY <1>1, <1>2, RemoteLevelsFit DEF WriterTypes
<1>. QED
  BY <1>1, <1>2, <1>3 DEF WritersInv, Stamps, Stamped, ClientsKnow, WritersSeeWhatTheyReplace,
     RW!VersionedWritesSee, RW!TakesEffectOnce, RW!RevisionsAreJudgedFairly

LEMMA WritersStep == WritersInv /\ [RW!Next]_(RW!rwvars) => WritersInv'
<1>. SUFFICES ASSUME WritersInv, [RW!Next]_(RW!rwvars) PROVE WritersInv'
  OBVIOUS
<1>1. CASE RW!Next
  <2>1. CASE \E c \in Procs : \E q \in RW!Requests(c, "commit") : RW!Commit(c, q)
    BY <2>1, CommitKeeps
  <2>2. CASE \E c \in Procs : \E q \in RW!Requests(c, "revise") : RW!Revise(c, q)
    BY <2>2, ReviseKeeps
  <2>3. CASE \E c \in Procs : \E q \in RW!Requests(c, "confirm") : RW!Confirm(c, q)
    BY <2>3, ConfirmKeeps
  <2>4. CASE \E c \in Procs : \E q \in RW!Requests(c, "forget") : RW!Forget(c, q)
    BY <2>4, ForgetKeeps
  <2>5. CASE \E c \in Procs : RW!GiveUp(c) \/ RW!List(c) \/ RW!Recall(c) \/ RW!AttachProvenance(c)
    BY <2>5, ReadingsKeep
  <2>6. CASE RW!Snapshot
    <3>1. \E c \in Procs : TRUE
      BY AloneAssumption
    <3>. QED  BY <2>6, <3>1, ReadingsKeep
  <2>7. CASE \E r \in snap : RW!Rollback(r)
    BY <2>7, RollbackKeeps
  <2>8. CASE RW!Restart
    BY <2>8, RestartKeeps
  <2>. QED  BY <1>1, <2>1, <2>2, <2>3, <2>4, <2>5, <2>6, <2>7, <2>8 DEF RW!Next
<1>2. CASE UNCHANGED RW!rwvars
  <2>1. /\ row' = row /\ seat' = seat /\ clock' = clock /\ changed' = changed /\ marks' = marks /\ snap' = snap
        /\ know' = know /\ asked' = asked /\ wrongs' = wrongs /\ standing' = standing /\ slipped' = slipped
    BY <1>2 DEF RW!rwvars, RW!ghosts
  <2>. QED
    BY <2>1 DEF WritersInv, WriterTypes, Stamps, Stamped, ClientsKnow, KnowsWell, AsksWell,
       WritersSeeWhatTheyReplace, RW!VersionedWritesSee, RW!TakesEffectOnce, RW!RevisionsAreJudgedFairly
<1>. QED  BY <1>1, <1>2

\* Remote clients replace what they have seen, repeat nothing that must happen
\* once, and are rejected for what is or was stored (runtime.py commit, revise,
\* confirm, forget; RemoteWrites.tla).
THEOREM WritersAlwaysSee == RW!Spec => []WritersSeeWhatTheyReplace
<1>1. WritersInv => WritersSeeWhatTheyReplace
  BY DEF WritersInv
<1>. QED  BY <1>1, WritersStart, WritersStep, PTL DEF RW!Spec

-----------------------------------------------------------------------------
(* All together *)

LEMMA WritersInvGives == WritersInv => RW!TypeOK
<1>. SUFFICES ASSUME WritersInv  PROVE RW!TypeOK
  OBVIOUS
<1>1. RW!Belief(seat) \in RW!Entries \cup {Absent}
  BY SeatFields DEF WritersInv, WriterTypes, SeatOK
<1>2. RW!Cardinality(snap) <= 1
  <2>1. RW!Cardinality(snap) = Cardinality(snap)
    BY DEF RW!Cardinality, Cardinality
  <2>2. CASE snap = {}
    BY <2>1, <2>2, FS_EmptySet
  <2>3. CASE \E s \in snap : snap = {s}
    <3>1. PICK s : snap = {s}
      BY <2>3
    <3>2. Cardinality({s}) = 1
      BY FS_Singleton
    <3>. QED  BY <2>1, <3>1, <3>2
  <2>. QED  BY <2>2, <2>3 DEF WritersInv, WriterTypes
<1>3. \A c \in Procs : know[c] # Absent => know[c].seen \in 1..clock
  BY DEF WritersInv, ClientsKnow, KnowsWell
<1>. QED  BY <1>1, <1>2, <1>3 DEF WritersInv, WriterTypes, RW!TypeOK

BeliefsInv ==
    /\ IInv /\ EngineInv /\ WritersInv
    /\ part = "alone" => AloneInv

LEMMA BeliefsStart == MCInit => BeliefsInv
BY InitIInv, InitEngineInv, WritersStart, AloneStart DEF MCInit, BeliefsInv

LEMMA BeliefsStep == BeliefsInv /\ [MCNext]_<<part, vars, evars, wvars>> => BeliefsInv'
<1>. SUFFICES ASSUME BeliefsInv, [MCNext]_<<part, vars, evars, wvars>>  PROVE BeliefsInv'
  OBVIOUS
<1>1. UNCHANGED vars => IInv' /\ (AloneInv => AloneInv')
  <2>1. UNCHANGED vars => IInv'
    BY NextIInv DEF BeliefsInv
  <2>2. UNCHANGED vars /\ AloneInv => AloneInv'
    BY DEF vars, AloneInv, OthersIdle, HoldsStored, Backed, Pending, Free, TypeOK
  <2>. QED  BY <2>1, <2>2
<1>2. UNCHANGED evars => EngineInv'
  BY NextEngineInv DEF BeliefsInv
<1>3. UNCHANGED wvars => WritersInv'
  <2>1. UNCHANGED wvars => UNCHANGED RW!rwvars
    BY DEF wvars, RW!rwvars, RW!ghosts
  <2>. QED  BY <2>1, WritersStep DEF BeliefsInv
<1>4. CASE part = "shared" /\ Next /\ UNCHANGED <<part, evars, wvars>>
  <2>1. IInv'
    BY <1>4, NextIInv DEF BeliefsInv
  <2>2. EngineInv' /\ WritersInv' /\ part' # "alone"
    BY <1>2, <1>3, <1>4
  <2>. QED  BY <2>1, <2>2 DEF BeliefsInv
<1>5. CASE part = "alone" /\ Solo!Next /\ UNCHANGED <<part, evars, wvars>>
  <2>1. AloneInv /\ faults \in Nat
    BY <1>5, WritesAssumption DEF BeliefsInv, AloneInv, TypeOK
  <2>2. AloneNext
    BY <1>5, <2>1, AloneIsOneOfMany
  <2>3. AloneInv'
    BY <2>1, <2>2, AloneStep
  <2>4. Next
    BY <2>2, AloneAssumption DEF AloneNext, Next
  <2>5. IInv'
    BY <2>4, NextIInv DEF BeliefsInv
  <2>6. EngineInv' /\ WritersInv'
    BY <1>2, <1>3, <1>5
  <2>. QED  BY <2>3, <2>5, <2>6 DEF BeliefsInv
<1>6. CASE part = "engine" /\ EN!Next /\ UNCHANGED <<part, vars, wvars>>
  <2>1. EngineInv'
    BY <1>6, NextEngineInv DEF BeliefsInv
  <2>2. IInv' /\ WritersInv' /\ part' # "alone"
    BY <1>1, <1>3, <1>6
  <2>. QED  BY <2>1, <2>2 DEF BeliefsInv
<1>7. CASE part = "writers" /\ RW!Next /\ UNCHANGED <<part, vars, evars>>
  <2>1. WritersInv'
    BY <1>7, WritersStep DEF BeliefsInv
  <2>2. IInv' /\ EngineInv' /\ part' # "alone"
    BY <1>1, <1>2, <1>7
  <2>. QED  BY <2>1, <2>2 DEF BeliefsInv
<1>8. CASE UNCHANGED <<part, vars, evars, wvars>>
  BY <1>1, <1>2, <1>3, <1>8 DEF BeliefsInv
<1>. QED  BY <1>4, <1>5, <1>6, <1>7, <1>8 DEF MCNext

\* Every variable of the four parts keeps its type.
THEOREM TypesAlwaysOK == MCSpec => []TypesOK
<1>1. BeliefsInv => TypesOK
  BY EngineInvGives, WritersInvGives DEF BeliefsInv, IInv, TypesOK
<1>. QED  BY <1>1, BeliefsStart, BeliefsStep, PTL DEF MCSpec

\* A process that has the file to itself believes what is stored, revives nothing
\* it forgot, and its audit rows tell what is stored, whatever it does and however
\* often it is started (stateplane.py commit_with_agm_async, forget, decay).  Keys
\* that a decay pass deleted are told apart until they are written or forgotten: of
\* those it may still believe what the newest audit row says, and no row is there
\* (apply_decay_pass, 1866-1871, neither logs nor contracts).
THEOREM AloneIsAlwaysSequential == MCSpec => []AloneIsSequential
<1>1. BeliefsInv => AloneIsSequential
  BY AloneGives DEF BeliefsInv, AloneIsSequential
<1>. QED  BY <1>1, BeliefsStart, BeliefsStep, PTL DEF MCSpec
=============================================================================
