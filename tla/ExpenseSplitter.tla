-------------------------- MODULE ExpenseSplitter --------------------------
(***************************************************************************)
(* How an expense is divided (expense-splitter, money, and the amounts the *)
(* expense and its splits are stored with).                                *)
(*                                                                         *)
(* Amounts of requests are numbers with any digits; they are counted here  *)
(* in units of which Cent make a cent.  The code computes with doubles:    *)
(* the rounding of an exact half may go either way there (1.005 * 100 is   *)
(* 100.49999999999999), everything else rounds as the exact number does.   *)
(***************************************************************************)
EXTENDS Integers, Sequences, Functions

CONSTANTS Cent,           \* units in a cent
          Inputs          \* the calls: type, amount and participants

Participant == [allowed : BOOLEAN, amount : Nat, shares : Nat \ {0}]

ASSUME SplitterAssumption ==
    /\ Cent \in Nat \ {0}
    /\ Inputs \subseteq [type : {"EXACT", "SHARES"}, amount : Nat,
                         participants : Seq(Participant)]

VARIABLES in,             \* the request
          out             \* pending, refused, or the rows written

splitVars == <<in, out>>

Pending == [status |-> "pending", amount |-> 0, splits |-> <<>>]
Refused == [status |-> "refused", amount |-> 0, splits |-> <<>>]

SplitInit == in \in Inputs /\ out = Pending
-----------------------------------------------------------------------------
\* Math.round(a / b), for a \in Nat.
Round(a, b) ==
    LET q == a \div b
        r == a % b
    IN  IF 2 * r < b THEN {q} ELSE IF 2 * r > b THEN {q + 1} ELSE {q, q + 1}

\* A Decimal(18, 2) column rounds a half up.
Stored(a) == (2 * a + Cent) \div (2 * Cent)

\* Money.of keeps whole cents.
TotalCents == Round(in.amount, Cent)

Count == Len(in.participants)

SharesOf(k) == in.participants[k].shares

TotalShares == SumFunction([k \in 1..Count |-> SharesOf(k)])

Accepted == Count > 0 /\ \A k \in 1..Count : in.participants[k].allowed

\* Slip: the remainder is dropped.
Reconciled_Not(c, total) == c

\* The rows with the last one such that they add up to total.
Reconciled(c, total) == [c EXCEPT ![Len(c)] = @ + (total - SumFunction(c))]

\* Slip: a discrepancy is a cent for each pair of participants.
Close_Pairs(c, total) == SumFunction(c) - total \in (-Count * Count)..(Count * Count)

\* One cent of discrepancy is allowed for each participant.
Close(c, total) == SumFunction(c) - total \in (-Count)..Count

\* The amounts the participants claim, in cents.
Claims == {c \in [1..Count -> UNION {Round(in.participants[k].amount, Cent) : k \in 1..Count}] :
             \A k \in 1..Count : c[k] \in Round(in.participants[k].amount, Cent)}

splitExact ==
    /\ in.type = "EXACT"
    /\ \E total \in TotalCents, c \in Claims :
         out' = IF Close(c, total)
                THEN [status |-> "stored", amount |-> Stored(in.amount),
                      splits |-> Reconciled(c, total)]
                ELSE Refused

\* Slip: Math.floor for Math.round.
Portions_Floor(total) ==
    {[k \in 1..Count |-> IF k = Count THEN 0 ELSE (total * SharesOf(k)) \div TotalShares]}

\* Everybody's share but the last one's, which is what is left.
Portions(total) ==
    {c \in [1..Count -> 0..total] :
       /\ c[Count] = 0
       /\ \A k \in 1..(Count - 1) : c[k] \in Round(total * SharesOf(k), TotalShares)}

splitByShares ==
    /\ in.type = "SHARES"
    /\ \E total \in TotalCents : \E c \in Portions(total) :
         out' = [status |-> "stored", amount |-> Stored(in.amount),
                 splits |-> Reconciled(c, total)]

Split ==
    /\ out = Pending
    /\ Accepted
    /\ splitExact \/ splitByShares
    /\ UNCHANGED in

\* No participant, or one who is not an active member.
Refuse ==
    /\ out = Pending
    /\ ~Accepted
    /\ out' = Refused
    /\ UNCHANGED in

SplitNext == Split \/ Refuse

SplitSpec == SplitInit /\ [][SplitNext]_splitVars
-----------------------------------------------------------------------------
IsStored == out.status = "stored"

\* 'Reconcile remainder to the last participant to ensure exact match': the splits
\* of an expense add up to its amount in whole cents, whatever is rounded, and to
\* the amount that is stored if that was whole cents to begin with.  (Of half a cent
\* the column and Math.round may make different cents.)
SplitsAddUp ==
    IsStored =>
      /\ SumFunction(out.splits) \in TotalCents
      /\ in.amount % Cent = 0 => SumFunction(out.splits) = out.amount

Distance(x, y) == IF x < y THEN y - x ELSE x - y

\* EXACT: everybody but the last participant is charged what they claimed to the
\* nearest cent, the last one within a cent for each participant of it.
ClaimsKept ==
    IsStored /\ in.type = "EXACT" =>
      \A k \in 1..Count :
        2 * Distance(Cent * out.splits[k], in.participants[k].amount)
          <= IF k < Count THEN Cent ELSE (2 * Count + 1) * Cent

\* SHARES: nobody is charged more than half a cent off their proportion, but the
\* last participant, who bears the rounding of the others.
FairShares ==
    IsStored /\ in.type = "SHARES" =>
      \E total \in TotalCents : \A k \in 1..Count :
        2 * Distance(out.splits[k] * TotalShares, total * SharesOf(k))
          <= IF k < Count THEN TotalShares ELSE (Count - 1) * TotalShares
=============================================================================
