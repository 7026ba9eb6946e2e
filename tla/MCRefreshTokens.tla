-------------------------- MODULE MCRefreshTokens --------------------------
(* RefreshTokens on a small instance: five tokens, enough for two logins    *)
(* and two refreshes of each at once, and three requests in flight.         *)
EXTENDS RefreshTokens, TLC

CONSTANTS t1, t2, t3, t4, t5, r1, r2, r3

Symmetry == Permutations(Tokens) \cup Permutations(Requests)
=============================================================================
