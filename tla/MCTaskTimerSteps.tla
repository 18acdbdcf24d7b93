-------------------------- MODULE MCTaskTimerSteps --------------------------
(* Values for the constants of TaskTimerSteps. *)
EXTENDS TaskTimerSteps, TLC

CONSTANTS e1, e2, t1, t2, l1, l2, l3, r1, r2

Symmetry == Permutations(Employees) \cup Permutations(Tasks)
              \cup Permutations(LogIds) \cup Permutations(Requests)
=============================================================================
