----------------------------- MODULE TimeWindow ------------------------------
(***************************************************************************)
(* "What changed today?": a question about a period is answered from the   *)
(* rows written in it (core/stateplane.py recall_time_window,              *)
(* _time_window_rows; cloud/runtime.py recall and the MCP tool fall back   *)
(* to an ordinary recall when it answers nothing).  The rows are read page *)
(* by page, newest first, while memories are written, forgotten and lapse. *)
(*                                                                         *)
(* A memory is listed if the storage filter of sources and types lets it   *)
(* through, usable if recall would show it now, and on topic if a word of  *)
(* the question that is left without its period finds it.  What a question *)
(* about the current state of one topic leaves out is in Recall.           *)
(***************************************************************************)
EXTENDS Integers, Sequences, FiniteSets

LOCAL SX == INSTANCE SequencesExt
LOCAL FX == INSTANCE FiniteSetsExt

CONSTANTS
    LastKey,     \* keys are 1..LastKey
    Intents,     \* [start, wide, end, implicit, topic]; wide is seven days before end
    PageSize,    \* TIME_WINDOW_PAGE
    Cap,         \* TIME_WINDOW_CAP
    ScanMax,     \* TIME_WINDOW_SCAN_MAX
    Limits,
    Kinds,       \* [listed, usable, topic]
    LastStamp, MaxEdits,
    None

VARIABLES
    mem,         \* [key -> [stamp, listed, usable, topic] or None]
    still,       \* ghost: keys that did not change since the question was asked
    edited,
    scan         \* the call

twvars == <<mem, still, edited, scan>>

Keys == 1..LastKey
Stamped(kind, stamp) == [stamp |-> stamp, listed |-> kind.listed, usable |-> kind.usable, topic |-> kind.topic]
Memory == {Stamped(kind, s) : kind \in Kinds, s \in 1..LastStamp}

-----------------------------------------------------------------------------
(* A page *)

\* Mutant: of the rows of one instant only those of one page are read.
AfterByStamp(a, b) == a.stamp > b.stamp

\* ORDER BY stamp, the newest first, then key.
After(a, b) == a.stamp > b.stamp \/ (a.stamp = b.stamp /\ a.key < b.key)

Row(k) == [key |-> k, stamp |-> mem[k].stamp, usable |-> mem[k].usable, topic |-> mem[k].topic]

\* list_page with both bounds; the lower one is inclusive, the upper one is not.
Page(start, end, cursor) ==
    LET there == {Row(k) : k \in {k \in Keys : mem[k] # None /\ mem[k].listed
                                                /\ start <= mem[k].stamp /\ mem[k].stamp < end}}
        rest == {r \in there : cursor = None \/ After(cursor, r)}
        order == SX!SortSeq(SX!SetToSeq(rest), LAMBDA a, b : After(a, b) \/ (a.stamp = b.stamp /\ a.key < b.key))
    IN SubSeq(order, 1, FX!Min({PageSize, Len(order)}))

\* A row that was moved between two pages keeps its first place, with what was
\* read of it last.
Distinct(rows) ==
    LET Last(key) == rows[FX!Max({j \in DOMAIN rows : rows[j].key = key})]
        places == SX!SelectSeq([i \in DOMAIN rows |-> i],
                               LAMBDA i : \A j \in 1..(i - 1) : rows[j].key # rows[i].key)
    IN [i \in DOMAIN places |-> Last(rows[places[i]].key)]

-----------------------------------------------------------------------------
(* The call *)

Init ==
    /\ mem \in [Keys -> Memory \cup {None}]
    /\ \A k \in Keys : mem[k] # None => mem[k].stamp < LastStamp
    /\ still = {} /\ edited = 0 /\ scan = [pc |-> "idle"]

Ask(intent, limit) ==
    /\ scan.pc = "idle"
    /\ scan' = [pc |-> "page", intent |-> intent, limit |-> limit, start |-> intent.start,
                cursor |-> None, rows |-> <<>>, read |-> 0, budget |-> ScanMax,
                cut |-> FALSE, widened |-> FALSE, answer |-> None]
    /\ still' = Keys
    /\ UNCHANGED <<mem, edited>>

\* Mutant: a window that fills the cap is taken for whole.
ScanOfCapped(rows, page, read) ==
    IF Len(rows) >= Cap THEN [over |-> TRUE, rows |-> SubSeq(rows, 1, Cap), cut |-> Len(rows) > Cap]
    ELSE IF Len(page) < PageSize THEN [over |-> TRUE, rows |-> rows, cut |-> FALSE]
    ELSE [over |-> read >= scan.budget, rows |-> rows, cut |-> TRUE]

\* Where the scan of one window ends: rows, cut short or not, rows read.
ScanOf(rows, page, read) ==
    IF Len(rows) > Cap THEN [over |-> TRUE, rows |-> SubSeq(rows, 1, Cap), cut |-> TRUE]
    ELSE IF Len(page) < PageSize THEN [over |-> TRUE, rows |-> rows, cut |-> FALSE]
    ELSE [over |-> read >= scan.budget, rows |-> rows, cut |-> TRUE]

\* Topic matches first, in whatever order they rank; alone if no period was stated.
Ordered(rows) ==
    LET Hit(r) == scan.intent.topic /\ r.topic
        others == IF scan.intent.implicit /\ scan.intent.topic THEN <<>>
                  ELSE SX!SelectSeq(rows, LAMBDA r : ~Hit(r))
    IN {h \o others : h \in SX!SetToSeqs({r \in SX!ToSet(rows) : Hit(r)})}

Useless(rows) ==
    \/ rows = <<>>
    \/ scan.intent.implicit /\ scan.intent.topic /\ \A i \in DOMAIN rows : ~rows[i].topic

Answer(rows, cut) ==
    \E order \in Ordered(rows) :
        scan' = [scan EXCEPT !.pc = "done", !.rows = rows, !.cut = cut,
                             !.answer = SubSeq(order, 1, FX!Min({scan.limit, Len(order)}))]

\* Read a page; at the end of a window answer, look further back, or give up.
ReadPage ==
    LET page == Page(scan.start, scan.intent.end, scan.cursor)
        read == scan.read + Len(page)
        all == scan.rows \o SX!SelectSeq(page, LAMBDA r : r.usable)
        end == ScanOf(all, page, read)
        rows == Distinct(end.rows)
    IN
    /\ scan.pc = "page"
    /\ \/ /\ ~end.over
          /\ scan' = [scan EXCEPT !.rows = all, !.read = read, !.cursor = page[Len(page)]]
       \/ /\ end.over /\ ~Useless(rows) /\ Answer(rows, end.cut)
       \/ /\ end.over /\ Useless(rows)
          /\ scan.intent.implicit /\ ~scan.widened /\ scan.budget > read
          /\ scan' = [scan EXCEPT !.start = scan.intent.wide, !.widened = TRUE, !.cursor = None,
                                  !.rows = <<>>, !.read = 0, !.budget = @ - read]
       \/ /\ end.over /\ Useless(rows)
          /\ scan.intent.implicit /\ (scan.widened \/ scan.budget <= read)
          /\ scan' = [scan EXCEPT !.pc = "done", !.rows = <<>>, !.cut = end.cut]
       \/ /\ end.over /\ Useless(rows) /\ ~scan.intent.implicit
          /\ Answer(<<>>, end.cut)
    /\ UNCHANGED <<mem, still, edited>>

-----------------------------------------------------------------------------
(* Meanwhile *)

\* A write is stamped now, which no period ends after.
Edit(k, m) ==
    /\ scan.pc = "page" /\ edited < MaxEdits
    /\ mem' = [mem EXCEPT ![k] = m]
    /\ still' = still \ {k} /\ edited' = edited + 1
    /\ UNCHANGED scan

Write(k) == \E kind \in Kinds : Edit(k, Stamped(kind, LastStamp))

Forget(k) == mem[k] # None /\ Edit(k, None)

\* It is superseded, or its validity begins or ends.
Lapse(k) == mem[k] # None /\ \E m \in Memory :
    m = [mem[k] EXCEPT !.usable = ~@] /\ Edit(k, m)

\* A rollback writes an older state back with its old stamp.
Restore(k) == \E kind \in Kinds, s \in 1..(LastStamp - 1) : Edit(k, Stamped(kind, s))

Next ==
    \/ \E intent \in Intents, limit \in Limits : Ask(intent, limit)
    \/ ReadPage
    \/ \E k \in Keys : Write(k) \/ Forget(k) \/ Lapse(k) \/ Restore(k)

Spec == Init /\ [][Next]_twvars

-----------------------------------------------------------------------------
(* Properties *)

TypeOK ==
    /\ mem \in [Keys -> Memory \cup {None}] /\ still \subseteq Keys /\ edited \in 0..MaxEdits
    /\ scan.pc \in {"idle", "page", "done"}
    /\ scan.pc # "idle" => Len(scan.rows) <= Cap + PageSize /\ scan.budget \in 1..ScanMax

\* Rows of the window that did not change and that recall would show.
Steady(start) ==
    {k \in still : mem[k] # None /\ mem[k].listed /\ mem[k].usable
                   /\ start <= mem[k].stamp /\ mem[k].stamp < scan.intent.end}

Told == {scan.rows[i].key : i \in DOMAIN scan.rows}

\* A window is whole unless the answer says that it was cut short; then only older
\* rows are missing.  The page that is read next never skips a row that stayed
\* where it was, whatever moves around it (stateplane.py:1162-1209).
WindowIsWhole ==
    scan.pc = "done" /\ scan.answer # None =>
        \A k \in Steady(scan.start) \ Told :
            /\ scan.cut
            /\ \A i \in DOMAIN scan.rows : scan.rows[i].key \in still => After(scan.rows[i], Row(k))

\* No row comes twice, and those that stayed where they were come newest first
\* (stateplane.py:1162-1209, 1259-1266).
WindowIsOrdered ==
    scan.pc = "done" =>
        \A i, j \in DOMAIN scan.rows : i < j =>
            /\ scan.rows[i].key # scan.rows[j].key
            /\ {scan.rows[i].key, scan.rows[j].key} \subseteq still => After(scan.rows[i], scan.rows[j])

\* Ordinary recall takes over only if there was nothing to tell of the last day,
\* nor, if the reading did not take too long, of the last week
\* (stateplane.py:1253-1281).
FallsBackForNothing ==
    scan.pc = "done" /\ scan.answer = None =>
        \A k \in Steady(scan.start) : scan.cut \/ (scan.intent.topic /\ ~mem[k].topic)
=============================================================================
