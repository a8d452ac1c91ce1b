---------------------------- MODULE MCAuditTrail ----------------------------
(* Two processes share one log; the log and the clock are cut short. *)
EXTENDS AuditTrail, TLC

Symmetry == Permutations(Procs)
=============================================================================
