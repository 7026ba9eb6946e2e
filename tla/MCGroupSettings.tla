-------------------------- MODULE MCGroupSettings --------------------------
(* GroupSettings on a small instance: two updates in flight, two currencies, *)
(* three dates, and bodies that change one thing or everything.              *)
EXTENDS GroupSettings, TLC

CONSTANTS r1, r2, usd, vnd

MCDates == 1..3

Nothing == [currency |-> Absent, startDate |-> Absent, endDate |-> Absent]

MCPatches ==
    {[Nothing EXCEPT !.currency = c] : c \in Currencies}
      \cup {[Nothing EXCEPT !.startDate = d] : d \in {1, 2, None}}
      \cup {[Nothing EXCEPT !.endDate = d] : d \in {2, 3, None}}
      \cup {[currency |-> vnd, startDate |-> 2, endDate |-> 3]}

Symmetry == Permutations(Requests)
=============================================================================
