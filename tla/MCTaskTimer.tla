---------------------------- MODULE MCTaskTimer ----------------------------
(* Values for the constants of TaskTimer. *)
EXTENDS TaskTimer, TLC

CONSTANTS e1, e2, t1, t2, l1, l2, l3

Symmetry == Permutations(Employees) \cup Permutations(Tasks) \cup Permutations(LogIds)
=============================================================================
