------------------------------ MODULE AgentTurn ------------------------------
(***************************************************************************)
(* One session of an agent (core/cognitive_workspace.py,                   *)
(* integrations/agent_runtime.py, core/salience.py): what the user said,   *)
(* what tools answered and what a response is worth keeping are committed  *)
(* to a state plane, one commit after the other, and any of them may raise.*)
(* A frame remembers what the session has done.                            *)
(*                                                                         *)
(* A key stands for the hash of the text it is made of, so the memories of *)
(* a text are a function of the text: <<"user", u>> for what was said,     *)
(* <<"tool", e>> for an event, <<"kept", m>> for what was found worth      *)
(* keeping.  Others may forget memories between two calls.                 *)
(***************************************************************************)
EXTENDS Integers, Sequences, FiniteSets

SX == INSTANCE SequencesExt

CONSTANTS
    Inputs,         \* what a user may say
    Outputs,        \* what a model may answer
    Sensitive,      \* inputs and outputs that hold a secret
    Worth,          \* Worth[u]: the memories that u is worth, a sequence
    Events,         \* events of tools
    MaxRaises,      \* bound on the commits that raise
    Nothing

ConstantsFit ==
    /\ MaxRaises \in Nat
    /\ \A u \in Inputs : Worth[u] \in Seq(SX!ToSet(Worth[u]))

VARIABLES
    frame,      \* the TurnFrame of the session
    pending,    \* tool events of the session, in the order they were observed
    stored,     \* keys in the store of the plane
    doing,      \* the call under way: commits still to make, and what follows
    raises,     \* number of commits that raised
    dropped,    \* ghost: keys that others forgot since they were last committed
    missed,     \* ghost: events whose call raised before they were committed
    handed      \* ghost: memories a completed response was found to be worth

tvars == <<frame, pending, stored, doing, raises, dropped, missed, handed>>

Idle == doing = Nothing

NewFrame == [input |-> Nothing, output |-> Nothing, context |-> FALSE,
             observed |-> Nothing, salience |-> FALSE, written |-> {}]

UserKey(u)  == <<"user", u>>
ToolKey(e)  == <<"tool", e>>
KeptKey(m)  == <<"kept", m>>

-----------------------------------------------------------------------------
(* What is worth keeping, salience.py *)

\* Nothing of a turn that holds a secret, else what the text of the user is worth.
Proposed(u, o) == IF {u, o} \cap Sensitive # {} THEN <<>> ELSE Worth[u]

-----------------------------------------------------------------------------
(* Steps of a call *)

\* A text that is given replaces the one of the frame.
Heard(f, u, o) ==
    [f EXCEPT !.input = IF u = Nothing THEN @ ELSE u,
              !.output = IF o = Nothing THEN @ ELSE o]

ObserveStepsUnchecked(f, u) ==
    IF f.observed = UserKey(u) THEN <<>> ELSE <<[does |-> "observe", key |-> UserKey(u)]>>

\* The user's turn is committed, unless it is the one last observed and is still stored.
ObserveSteps(f, u) ==
    IF f.observed = UserKey(u) /\ UserKey(u) \in stored
    THEN <<>> ELSE <<[does |-> "observe", key |-> UserKey(u)]>>

\* Memories the session has written are not written again.
ProposalSteps(f, u, o) ==
    LET worth    == Proposed(u, o)
        fresh    == {i \in DOMAIN worth : KeptKey(worth[i]) \notin f.written}
        place(i) == Cardinality({j \in fresh : j < i})
    IN  [n \in 1..Cardinality(fresh) |->
            [does |-> "keep", key |-> KeptKey(worth[CHOOSE i \in fresh : place(i) = n - 1])]]

EvidenceSteps(events) ==
    [i \in DOMAIN events |-> [does |-> "evidence", key |-> ToolKey(events[i])]]

\* A call: its name, the commits it still makes, and the texts it is about.
Call(op, todo, u, o) == [op |-> op, todo |-> todo, input |-> u, output |-> o]

-----------------------------------------------------------------------------
(* Calls of the runtime *)

Init ==
    /\ frame = NewFrame /\ pending = <<>> /\ stored = {}
    /\ doing = Nothing /\ raises = 0
    /\ dropped = {} /\ missed = {} /\ handed = {}

\* before_model_call: the context is prepared, then the user's turn observed.
BeforeModelCall(u) ==
    /\ Idle
    /\ frame' = [Heard(frame, u, Nothing) EXCEPT !.context = TRUE]
    /\ doing' = Call("before", ObserveSteps(frame, u), u, Nothing)
    /\ UNCHANGED <<pending, stored, raises, dropped, missed, handed>>

\* The recall of the context raises: only the text is in the frame.
PrepareRaises(u) ==
    /\ Idle /\ raises < MaxRaises
    /\ raises' = raises + 1
    /\ frame' = Heard(frame, u, Nothing)
    /\ UNCHANGED <<pending, stored, doing, dropped, missed, handed>>

\* observe_tool_event; every event is a new one.
ObserveToolEvent(e) ==
    /\ Idle /\ e \notin SX!ToSet(pending) /\ ToolKey(e) \notin stored \cup dropped /\ e \notin missed
    /\ pending' = Append(pending, e)
    /\ UNCHANGED <<frame, stored, doing, raises, dropped, missed, handed>>

\* after_model_call: the pending events are taken and committed one by one.
AfterModelCall(u, o) ==
    /\ Idle
    /\ doing' = Call("after", EvidenceSteps(pending), u, o)
    /\ pending' = <<>>
    /\ UNCHANGED <<frame, stored, raises, dropped, missed, handed>>

AssimilateMarking ==
    /\ ~Idle /\ doing.todo = <<>> /\ doing.op = "after"
    /\ LET steps == ProposalSteps(frame, doing.input, doing.output) IN
       /\ frame' = [Heard(frame, doing.input, doing.output) EXCEPT
                        !.salience = TRUE, !.written = @ \cup {steps[i].key : i \in DOMAIN steps}]
       /\ doing' = Call("keep", steps, doing.input, doing.output)
    /\ UNCHANGED <<pending, stored, raises, dropped, missed, handed>>

\* ... then the response is assimilated: what it is worth is decided first.
Assimilate ==
    /\ ~Idle /\ doing.todo = <<>> /\ doing.op = "after"
    /\ LET heard == Heard(frame, doing.input, doing.output) IN
       /\ frame' = [heard EXCEPT !.salience = TRUE]
       /\ doing' = Call("keep", ProposalSteps(frame, doing.input, doing.output),
                        doing.input, doing.output)
    /\ UNCHANGED <<pending, stored, raises, dropped, missed, handed>>

\* finalize_turn: the steps the frame does not show yet are run, in order.
FinalizeTurn(u, o) ==
    /\ Idle
    /\ LET heard == Heard(frame, u, o) IN
       /\ frame' = [heard EXCEPT !.context = @ \/ heard.input # Nothing]
       /\ doing' = Call("finalize",
                        IF heard.input # Nothing /\ heard.observed = Nothing
                        THEN ObserveSteps(heard, heard.input) ELSE <<>>,
                        heard.input, heard.output)
    /\ UNCHANGED <<pending, stored, raises, dropped, missed, handed>>

\* ... and the response last, when there is one that was not assimilated.
FinalizeResponse ==
    /\ ~Idle /\ doing.todo = <<>> /\ doing.op = "finalize"
    /\ doing' = IF doing.input # Nothing /\ doing.output # Nothing /\ ~frame.salience
                THEN [doing EXCEPT !.op = "after"] ELSE Nothing
    /\ UNCHANGED <<frame, pending, stored, raises, dropped, missed, handed>>

\* One commit of a call.
Commit ==
    /\ ~Idle /\ doing.todo # <<>>
    /\ LET step == Head(doing.todo) IN
       /\ stored' = stored \cup {step.key}
       /\ dropped' = dropped \ {step.key}
       /\ frame' = CASE step.does = "observe"  -> [frame EXCEPT !.observed = step.key]
                     [] step.does = "keep"     -> [frame EXCEPT !.written = @ \cup {step.key}]
                     [] step.does = "evidence" -> frame
    /\ doing' = [doing EXCEPT !.todo = Tail(@)]
    /\ UNCHANGED <<pending, raises, missed, handed>>

\* A commit raises, and with it the call.
Raise ==
    /\ ~Idle /\ doing.todo # <<>> /\ raises < MaxRaises
    /\ raises' = raises + 1
    /\ missed' = missed \cup {e \in Events :
                    \E i \in DOMAIN doing.todo : doing.todo[i].key = ToolKey(e)}
    /\ doing' = Nothing
    /\ UNCHANGED <<frame, pending, stored, dropped, handed>>

\* The call returns.
Return ==
    /\ ~Idle /\ doing.todo = <<>> /\ doing.op \in {"before", "keep"}
    /\ doing' = Nothing
    /\ handed' = IF doing.op = "keep"
                 THEN handed \cup {KeptKey(m) : m \in SX!ToSet(Proposed(doing.input, doing.output))}
                 ELSE handed
    /\ UNCHANGED <<frame, pending, stored, raises, dropped, missed>>

\* Somebody forgets a memory.
ForgetElsewhere ==
    /\ Idle
    /\ \E k \in stored : stored' = stored \ {k} /\ dropped' = dropped \cup {k}
    /\ UNCHANGED <<frame, pending, doing, raises, missed, handed>>

Next ==
    \/ \E u \in Inputs : BeforeModelCall(u) \/ PrepareRaises(u)
    \/ \E e \in Events : ObserveToolEvent(e)
    \/ \E u \in Inputs, o \in Outputs : AfterModelCall(u, o)
    \/ \E u \in Inputs \cup {Nothing}, o \in Outputs \cup {Nothing} : FinalizeTurn(u, o)
    \/ Assimilate \/ FinalizeResponse \/ Commit \/ Raise \/ Return \/ ForgetElsewhere

Spec == Init /\ [][Next]_tvars

-----------------------------------------------------------------------------
(* Properties *)

StoreKeys ==
    {UserKey(u) : u \in Inputs} \cup {ToolKey(e) : e \in Events}
      \cup {KeptKey(m) : m \in UNION {SX!ToSet(Worth[u]) : u \in Inputs}}

TypeOK ==
    /\ frame.observed = Nothing \/ frame.observed \in {UserKey(u) : u \in Inputs}
    /\ frame.written \subseteq StoreKeys /\ stored \subseteq StoreKeys /\ dropped \subseteq StoreKeys
    /\ missed \subseteq Events /\ SX!ToSet(pending) \subseteq Events
    /\ raises \in 0..MaxRaises

\* When a response was assimilated without an error, everything it was found to
\* be worth is stored, or was stored and forgotten since: a commit that raised in
\* an earlier attempt does not make a later one skip it
\* (cognitive_workspace.py:166-171, written_keys).
WorthIsKept == handed \subseteq stored \cup dropped

\* When before_model_call returns, what the user said is stored, even when it
\* was said before and forgotten since (cognitive_workspace.py:112-136).
UserTurnIsStored ==
    [][~Idle /\ doing.op = "before" /\ Return => UserKey(doing.input) \in stored]_tvars

\* finalize_turn (cognitive_workspace.py:185 "Return a deterministic receipt for
\* the turn, running missing lifecycle steps"): when it returns, the turn is
\* stored and so is what it is worth.
FinalizeRunsTheTurn ==
    [][~Idle /\ doing.op = "finalize" /\ doing' = Nothing /\ doing.todo = <<>>
         /\ doing.input # Nothing =>
          UserKey(doing.input) \in stored \cup dropped]_tvars
=============================================================================
