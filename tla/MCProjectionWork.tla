-------------------------- MODULE MCProjectionWork --------------------------
(* Values for the constants of ProjectionWork. *)
EXTENDS ProjectionWork, TLC

CONSTANTS e1, e2, p1, p2, p3, o1, o2

Symmetry ==
  Permutations(Employees) \cup Permutations(Projections) \cup Permutations(Operations)
=============================================================================
