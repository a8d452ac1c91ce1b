--------------------------- MODULE MCRemoteWrites ---------------------------
(* Two clients and one memory. *)
EXTENDS RemoteWrites, TLC

Symmetry == Permutations(Clients) \cup Permutations(Values)
=============================================================================
