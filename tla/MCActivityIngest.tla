-------------------------- MODULE MCActivityIngest --------------------------
(* Values for the constants of ActivityIngest. *)
EXTENDS ActivityIngest, TLC

CONSTANTS u1, e1, e2, e3, r1, c1, c2, a1

\* All events are one user's.
Owners == [e \in Events |-> u1]
=============================================================================
