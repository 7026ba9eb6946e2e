---------------------------- MODULE FundAccount ----------------------------
(***************************************************************************)
(* What a group fund promises, with no request, transaction or read in     *)
(* flight: an account whose balance is at every moment what its ledger     *)
(* says, that is never overdrawn, and in which each expense holds one      *)
(* charge that is replaced or released as a whole.                         *)
(*                                                                         *)
(* GroupFund implements this specification when edits of one expense do    *)
(* not overlap.                                                            *)
(***************************************************************************)
EXTENDS Integers

CONSTANTS Expenses,       \* the expenses a group may record
          Amounts         \* the amounts of money, in cents

VARIABLES balance,        \* the money in the fund
          ledger,         \* total of the ledger rows of each type
          charged         \* the part of the EXPENSE rows each expense holds

accountVars == <<balance, ledger, charged>>

Balanced(b, l) == b = l.CONTRIBUTION - l.REFUND - l.EXPENSE

AccountInit ==
    /\ balance = 0
    /\ ledger = [CONTRIBUTION |-> 0, REFUND |-> 0, EXPENSE |-> 0]
    /\ charged = [e \in Expenses |-> 0]

\* Money only enters as a contribution ...
Deposit ==
    \E a \in Amounts :
        /\ balance' = balance + a
        /\ ledger' = [ledger EXCEPT !.CONTRIBUTION = @ + a]
        /\ UNCHANGED charged

\* ... and only leaves as a withdrawal ...
Payout ==
    \E a \in Amounts :
        /\ balance >= a
        /\ balance' = balance - a
        /\ ledger' = [ledger EXCEPT !.REFUND = @ + a]
        /\ UNCHANGED charged

\* ... or as the charge of an expense.  Creating, editing and deleting an
\* expense are one operation here: its charge becomes c (0: none).
Recharge(e, c) ==
    /\ balance + charged[e] >= c
    /\ balance' = balance + charged[e] - c
    /\ charged' = [charged EXCEPT ![e] = c]
    /\ ledger' = [ledger EXCEPT !.EXPENSE = @ - charged[e] + c]

AccountNext ==
    \/ Deposit
    \/ Payout
    \/ \E e \in Expenses, c \in Amounts \cup {0} : Recharge(e, c)

AccountSpec == AccountInit /\ [][AccountNext]_accountVars
=============================================================================
