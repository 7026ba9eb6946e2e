-------------------------- MODULE MCDebtSimplifier --------------------------
(* DebtSimplifier on a small instance.                                      *)
EXTENDS DebtSimplifier

CONSTANTS p1, p2, p3, p4

\* None, one payment of p1 or p2 to p3, and two of p1 to p3.
PendingPayment(p, c) == [from |-> p, to |-> p3, amount |-> c]
AnyPending == {<<>>, <<PendingPayment(p2, 2)>>,
               <<PendingPayment(p1, 1), PendingPayment(p1, 2)>>}
=============================================================================
