---------------------------- MODULE AppendOnlyLog ---------------------------
(***************************************************************************)
(* What a tamper-evident log promises its readers, whoever writes it: the  *)
(* entries have one order, and all that ever happens to it is that another *)
(* entry is added at the end.  Writers, locks, clocks, failures and the    *)
(* removal of payloads are details of the logs that implement it.          *)
(***************************************************************************)
EXTENDS Sequences

CONSTANT Entries
VARIABLE log

Init == log = << >>

Add(e) == log' = Append(log, e)

Next == \E e \in Entries : Add(e)

Spec == Init /\ [][Next]_log
=============================================================================
