-------------------------- MODULE MCGroupBalances --------------------------
(* GroupBalances on a small instance: two users, of whom one is a member and *)
(* the other may join, an expense, two settlements, two requests in flight.  *)
EXTENDS GroupBalances, TLC

CONSTANTS u1, u2, e1, s1, s2, r1, r2

Symmetry == Permutations(Users) \cup Permutations(Settlements) \cup Permutations(Requests)
=============================================================================
