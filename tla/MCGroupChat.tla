----------------------------- MODULE MCGroupChat -----------------------------
(* The chat on a small instance: two generations with one recommendation   *)
(* each and a message, two of which can be under way at once.              *)
EXTENDS GroupChat, TLC

CONSTANTS m1, b1, b2, t1, c1, c2, r1, r2

BatchOfRec == [c \in Recs |-> IF c = c2 THEN b2 ELSE b1]

Symmetry == Permutations(Requests)
=============================================================================
