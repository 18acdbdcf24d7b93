---------------------------- MODULE MCAuthSession ----------------------------
(* Values for the constants of AuthSession. *)
EXTENDS AuthSession

CONSTANTS u1, r1, r2, k1, k2
=============================================================================
