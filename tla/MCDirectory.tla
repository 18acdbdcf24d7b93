----------------------------- MODULE MCDirectory -----------------------------
\* Symmetry: a user, an e-mail address or a request is like any other.
EXTENDS Directory, TLC
CONSTANTS u1, u2, m1, m2, c1, t1, g1, g2, n1, n2, d1, r1, r2

Symmetry == Permutations(Users) \cup Permutations(Emails) \cup Permutations(Teams)
              \cup Permutations(TeamNames) \cup Permutations(Requests)
=============================================================================
