--------------------------- MODULE MCActivityStats ---------------------------
(* Values for the constants of ActivityStats. *)
EXTENDS ActivityStats, TLC

CONSTANTS t1, t2

Symmetry == Permutations(Tasks)
=============================================================================
