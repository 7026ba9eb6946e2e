---------------------------- MODULE MCGroupFund ----------------------------
(* GroupFund on a small instance: an owner and a member, at most two       *)
(* expenses, two requests in flight.                                       *)
EXTENDS GroupFund, TLC

CONSTANTS owner, member, e1, e2, r1, r2

Symmetry == Permutations(Expenses) \cup Permutations(Requests)
=============================================================================
