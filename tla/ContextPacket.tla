---------------------------- MODULE ContextPacket ----------------------------
(***************************************************************************)
(* The context assembler (core/context_assembler.py): what was recalled    *)
(* for a prompt is packed into a budget of tokens, best kind first, and    *)
(* what the recall said about contradictions is kept only as far as it is  *)
(* about memories that made it into the packet.                            *)
(*                                                                         *)
(* A recalled memory is a record of its key, the rank of its kind, its     *)
(* score and the number of its words; a line of the prompt costs its words *)
(* and one more token.  Assemblies of one state plane interleave at the    *)
(* recall each of them awaits, and share the flag that keeps the           *)
(* evaluation capture quiet meanwhile.                                     *)
(***************************************************************************)
EXTENDS Integers, Sequences, FiniteSets

LOCAL SX == INSTANCE SequencesExt
LOCAL FX == INSTANCE FiniteSetsExt

CONSTANTS
    Assemblies,   \* calls of assemble that may be under way
    Recalls,      \* what a recall may answer: sets of memories
    Contrary,     \* the contradictions found: sets of keys
    Budgets,      \* budgets of tokens
    Heading,      \* tokens of the prompt without any memory
    Title,        \* tokens of the title of a section
    Caution       \* tokens of the section that warns of contradictions

VARIABLES
    suppressed,   \* StatePlane._suppress_eval_capture
    assembly      \* what each call of assemble is doing

cvars == <<suppressed, assembly>>

NoCall == [at |-> "none"]

-----------------------------------------------------------------------------
(* The packet *)

\* Kinds in the order of their rank, then the better score, then the key.
Precedes(a, b) ==
    \/ a.rank < b.rank
    \/ a.rank = b.rank /\ a.score > b.score
    \/ a.rank = b.rank /\ a.score = b.score /\ a.key < b.key

KeysOf(items) == {items[i].key : i \in DOMAIN items}

\* Only contradictions among chosen memories are warned of.
Warned(items) == \E keys \in Contrary : keys \subseteq KeysOf(items)

\* The tokens of the prompt for the chosen items, in one section per kind.
Tokens(items, warned) ==
    Heading
      + Title * Cardinality({items[i].rank : i \in DOMAIN items})
      + SX!FoldLeft(LAMBDA sum, item : sum + item.words + 1, 0, items)
      + (IF warned THEN Caution ELSE 0)

Fits(items, item, budget) == Tokens(Append(items, item), FALSE) <= budget

\* How many words of an item there is room for.
Room(items, item, budget) ==
    FX!Max({0} \cup {n \in 1..item.words : Fits(items, [item EXCEPT !.words = n], budget)})

\* One recalled memory more: it fits, or it is the first and is cut to fit, or
\* it is left out.
Packed(items, item, budget) ==
    IF Fits(items, item, budget) THEN Append(items, item)
    ELSE IF items = <<>> /\ Room(items, item, budget) > 0
    THEN <<[item EXCEPT !.words = Room(items, item, budget)]>>
    ELSE items

TrimmedOnce(items, budget) ==
    IF Tokens(items, Warned(items)) > budget /\ items # <<>>
    THEN SubSeq(items, 1, Len(items) - 1) ELSE items

\* The warning is added when everything is packed; the last items make room for it.
Trimmed(items, budget) ==
    LET Kept(n) == SubSeq(items, 1, n) IN
    Kept(FX!Max({0} \cup {n \in 1..Len(items) : Tokens(Kept(n), Warned(Kept(n))) <= budget}))

Packet(recalled, budget) ==
    Trimmed(SX!FoldLeft(LAMBDA items, item : Packed(items, item, budget), <<>>,
                        SX!SetToSortSeq(recalled, Precedes)), budget)

-----------------------------------------------------------------------------
(* assemble *)

Init == suppressed = FALSE /\ assembly = [a \in Assemblies |-> NoCall]

\* The flag is noted and set; the recall is awaited.
Begin(a) ==
    /\ assembly[a].at = "none"
    /\ \E recalled \in Recalls, budget \in Budgets :
          assembly' = [assembly EXCEPT ![a] =
              [at |-> "recall", before |-> suppressed, recalled |-> recalled, budget |-> budget]]
    /\ suppressed' = TRUE

\* The recall answers: the flag is what it was, and the packet is built.
Finish(a) ==
    /\ assembly[a].at = "recall"
    /\ suppressed' = assembly[a].before
    /\ assembly' = [assembly EXCEPT ![a] =
          [at |-> "done", recalled |-> @.recalled, budget |-> @.budget,
           items |-> Packet(@.recalled, @.budget)]]

\* The recall raises: the flag is what it was, and so does the caller.
Fail(a) ==
    /\ assembly[a].at = "recall"
    /\ suppressed' = assembly[a].before
    /\ assembly' = [assembly EXCEPT ![a] = NoCall]

Answer(a) ==
    /\ assembly[a].at = "done"
    /\ assembly' = [assembly EXCEPT ![a] = NoCall]
    /\ UNCHANGED suppressed

Next == \E a \in Assemblies : Begin(a) \/ Finish(a) \/ Fail(a) \/ Answer(a)

Spec == Init /\ [][Next]_cvars

-----------------------------------------------------------------------------
(* Properties *)

TypeOK ==
    /\ suppressed \in BOOLEAN
    /\ \A a \in Assemblies : assembly[a].at \in {"none", "recall", "done"}

Done == {a \in Assemblies : assembly[a].at = "done"}

LeftOut(call) == {m \in call.recalled : m.key \notin KeysOf(call.items)}

\* A packet never costs more than its budget, the warning of contradictions
\* among its memories included, unless there is no memory in it at all
\* (context_assembler.py:177-189, where the warning comes last).
PacketFits ==
    \A a \in Done :
        \/ assembly[a].items = <<>>
        \/ Tokens(assembly[a].items, Warned(assembly[a].items)) <= assembly[a].budget

\* Nothing is left out in favour of a memory that comes after it, as long as it
\* fits behind what comes before it; and nothing is left out when all of it fits
\* (context_assembler.py:146-175).
BestComesFirst ==
    \A a \in Done :
        LET call == assembly[a]
            all == SX!SetToSortSeq(call.recalled, Precedes) IN
        /\ \A m \in LeftOut(call), i \in DOMAIN call.items :
              Precedes(m, call.items[i]) =>
                  ~Fits(SX!SelectSeq(call.items, LAMBDA kept : Precedes(kept, m)), m, call.budget)
        /\ Tokens(all, Warned(all)) <= call.budget => call.items = all

\* What context_assembler.py:3-4 implies of the flag: when no assembly is under
\* way, recalls are captured again.
CaptureResumes == (\A a \in Assemblies : assembly[a].at # "recall") => ~suppressed
=============================================================================
