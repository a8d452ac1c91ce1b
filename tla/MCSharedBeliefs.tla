-------------------------- MODULE MCSharedBeliefs --------------------------
(* One or two processes work on one key; the number of writes is cut short. *)
EXTENDS SharedBeliefs, TLC

Symmetry == Permutations(Procs) \cup Permutations(Values)
=============================================================================
