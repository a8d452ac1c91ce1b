-------------------------- MODULE MCHostedProject --------------------------
(* Two keys and one snapshot file. *)
EXTENDS HostedProject, TLC

Symmetry == Permutations(Keys)
=============================================================================
