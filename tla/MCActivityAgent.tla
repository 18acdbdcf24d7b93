--------------------------- MODULE MCActivityAgent ---------------------------
(* Values for the constants of ActivityAgent. *)
EXTENDS ActivityAgent, TLC
CONSTANTS e1, e2
=============================================================================
