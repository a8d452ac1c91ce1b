--------------------------- MODULE MCCloudRuntime ---------------------------
(* A few calls on one or two projects. *)
EXTENDS CloudRuntime, TLC

Symmetry == Permutations(Calls) \cup Permutations(Projects)
=============================================================================
