------------------------- MODULE MCExpenseSplitter -------------------------
(* ExpenseSplitter on every call with small amounts and up to four people.  *)
EXTENDS ExpenseSplitter

CONSTANTS MaxAmount, MaxClaim, MaxShares, MaxPeople

Lists(S) == UNION {[1..k -> S] : k \in 0..MaxPeople}

Claimant == [allowed : {TRUE}, amount : 0..MaxClaim, shares : {1}]

Sharer == [allowed : {TRUE}, amount : {0}, shares : 1..MaxShares]

Stranger == [allowed |-> FALSE, amount |-> 1, shares |-> 1]

ExactCalls == [type : {"EXACT"}, amount : Cent..MaxAmount, participants : Lists(Claimant)]

SharesCalls == [type : {"SHARES"}, amount : Cent..MaxAmount, participants : Lists(Sharer)]

StrangerCalls ==
    [type : {"EXACT", "SHARES"}, amount : {Cent},
     participants : {<<Stranger>>, <<[allowed |-> TRUE, amount |-> 1, shares |-> 1], Stranger>>}]

AllCalls == ExactCalls \cup SharesCalls \cup StrangerCalls
=============================================================================
