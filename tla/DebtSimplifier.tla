--------------------------- MODULE DebtSimplifier ---------------------------
(***************************************************************************)
(* Who pays whom to settle a group (debt-simplifier, and the subtraction   *)
(* of pending payments in settlements.service).                            *)
(*                                                                         *)
(* Amounts are whole cents here and doubles in the code.  The balances     *)
(* come from Decimal(18,2) columns, and a sum or difference of such        *)
(* doubles is a whole number of cents up to an error far below one cent,   *)
(* which shows in two places only: a remainder of one cent may compare     *)
(* below 0.01 or not, and a difference that should be zero may be a little *)
(* more.  Both are choices of the model.                                   *)
(***************************************************************************)
EXTENDS Integers, Sequences, FiniteSets, Functions

CONSTANTS People,         \* the members of the group
          MaxBalance,     \* bound on a balance, in cents
          PendingLists    \* lists of pending settlements, newest first

ASSUME SimplifierAssumption ==
    /\ IsFiniteSet(People) /\ People # {}
    /\ MaxBalance \in Nat
    /\ PendingLists \subseteq Seq([from : People, to : People, amount : Nat \ {0}])

VARIABLES initial,        \* the balances simplify is given
          balance,        \* what the matching has left of them
          debtors,        \* sorted, largest debt first
          creditors,      \* sorted, largest credit first
          i, j,           \* the debtor and the creditor that are matched next
          settlements,    \* the payments proposed, less what is pending
          proposed,       \* the payments proposed, as the matching returned them
          pending,        \* the group's pending settlements
          n,              \* the one that is subtracted next
          pc

input == <<initial, pending>>

sorted == <<debtors, creditors>>

simplifyVars == <<input, balance, sorted, i, j, settlements, proposed, n, pc>>

abs(x) == IF x < 0 THEN -x ELSE x

\* cut: something was subtracted from the amount.
Payment == [from : People, to : People, amount : Int, cut : BOOLEAN]

SimplifyInit ==
    /\ initial \in [People -> (-MaxBalance)..MaxBalance]
    /\ balance = initial
    /\ debtors = <<>> /\ creditors = <<>>
    /\ i = 1 /\ j = 1
    /\ settlements = <<>>
    /\ proposed = <<>>
    /\ pending \in PendingLists
    /\ n = 1
    /\ pc = "sort"
-----------------------------------------------------------------------------
\* The lists of all of S.
Orderings(S) ==
    {s \in [1..Cardinality(S) -> S] :
        /\ \A k, l \in DOMAIN s : s[k] = s[l] => k = l
        /\ \A p \in S : \E k \in DOMAIN s : s[k] = p}

\* Slip: debts of two cents are left alone, too.
Debtors_Wide == {p \in People : balance[p] < -2}

\* Balances of at most a cent are left alone.
Debtors == {p \in People : balance[p] < -1}
Creditors == {p \in People : balance[p] > 1}

\* Equal balances come in the order of the query, which has no ORDER BY.
Sort ==
    /\ pc = "sort"
    /\ debtors' \in {s \in Orderings(Debtors) :
                       \A k, l \in DOMAIN s : k < l => balance[s[k]] <= balance[s[l]]}
    /\ creditors' \in {s \in Orderings(Creditors) :
                         \A k, l \in DOMAIN s : k < l => balance[s[k]] >= balance[s[l]]}
    /\ pc' = "match"
    /\ UNCHANGED <<input, balance, i, j, settlements, proposed, n>>

\* Slip: what is settled to the last cent does not count as settled.
After_Strict(k, x) == IF x < 0 THEN {k + 1} ELSE {k}

\* The index after k when x cents are left: it moves on if that is below 0.01.
After(k, x) == IF x < 1 THEN {k + 1} ELSE IF x = 1 THEN {k, k + 1} ELSE {k}

\* Slip: the larger of debt and credit is settled.
Settled_Larger == IF abs(balance[debtors[i]]) > balance[creditors[j]]
                  THEN abs(balance[debtors[i]]) ELSE balance[creditors[j]]

Settled == IF abs(balance[debtors[i]]) < balance[creditors[j]]
           THEN abs(balance[debtors[i]]) ELSE balance[creditors[j]]

Propose == IF Settled > 0
           THEN Append(settlements, [from |-> debtors[i], to |-> creditors[j],
                                     amount |-> Settled, cut |-> FALSE])
           ELSE settlements

\* Slip: the creditor keeps the balance it had.
Pay_KeepsCredit == [balance EXCEPT ![debtors[i]] = @ + Settled]

Pay == [balance EXCEPT ![debtors[i]] = @ + Settled, ![creditors[j]] = @ - Settled]

\* One turn of the loop.
Match ==
    /\ pc = "match"
    /\ i <= Len(debtors) /\ j <= Len(creditors)
    /\ settlements' = Propose
    /\ balance' = Pay
    /\ i' \in After(i, abs(balance[debtors[i]]) - Settled)
    /\ j' \in After(j, balance[creditors[j]] - Settled)
    /\ UNCHANGED <<input, sorted, proposed, n, pc>>

Matched ==
    /\ pc = "match"
    /\ i > Len(debtors) \/ j > Len(creditors)
    /\ proposed' = settlements
    /\ pc' = "hide"
    /\ UNCHANGED <<input, balance, sorted, i, j, settlements, n>>
-----------------------------------------------------------------------------
(***************************************************************************)
(* getOptimizedSettlements: pending payments are subtracted from the first *)
(* proposal with the same payer and payee, which is dropped when nothing   *)
(* is left of it.                                                          *)
(***************************************************************************)

Matches(k) ==
    settlements[k].from = pending[n].from /\ settlements[k].to = pending[n].to

Left(k) == settlements[k].amount - pending[n].amount

\* amount <= 0: a second subtraction that leaves zero may leave a little more.
NothingLeft(k) == IF Left(k) = 0 /\ settlements[k].cut THEN BOOLEAN ELSE {Left(k) <= 0}

Drop(k) == SubSeq(settlements, 1, k - 1) \o SubSeq(settlements, k + 1, Len(settlements))

\* Slip: the proposal is shown as it was.
Reduce_Not(k) == settlements

Reduce(k) == [settlements EXCEPT ![k] = [from |-> settlements[k].from,
                                         to |-> settlements[k].to,
                                         amount |-> Left(k), cut |-> TRUE]]

HidePending ==
    /\ pc = "hide"
    /\ n <= Len(pending)
    /\ n' = n + 1
    /\ \/ \E k \in DOMAIN settlements :
            /\ Matches(k)
            /\ \A l \in 1..(k - 1) : ~Matches(l)
            /\ \E drop \in NothingLeft(k) :
                 settlements' = IF drop THEN Drop(k) ELSE Reduce(k)
       \/ /\ \A k \in DOMAIN settlements : ~Matches(k)
          /\ UNCHANGED settlements
    /\ UNCHANGED <<input, balance, sorted, i, j, proposed, pc>>

Return ==
    /\ pc = "hide"
    /\ n > Len(pending)
    /\ pc' = "done"
    /\ UNCHANGED <<input, balance, sorted, i, j, settlements, proposed, n>>

SimplifyNext == Sort \/ Match \/ Matched \/ HidePending \/ Return

SimplifySpec == SimplifyInit /\ [][SimplifyNext]_simplifyVars

\* The function runs to its end once it is called.
FairSimplifySpec == SimplifySpec /\ WF_simplifyVars(SimplifyNext)
-----------------------------------------------------------------------------
\* Nobody is asked for more than their debt or promised more than their credit,
\* and who is neither debtor nor creditor is left out.
NobodyOverpays ==
    \A p \in People :
      \/ initial[p] <= balance[p] /\ balance[p] <= 0
      \/ 0 <= balance[p] /\ balance[p] <= initial[p]

\* What p pays and gets by the proposals.
Pays(p) == SumFunction([k \in DOMAIN settlements |->
                          IF settlements[k].from = p THEN settlements[k].amount ELSE 0])
Gets(p) == SumFunction([k \in DOMAIN settlements |->
                          IF settlements[k].to = p THEN settlements[k].amount ELSE 0])

\* The proposals are what the matching took off the balances: a member who makes
\* and receives the payments proposed is left with what the matching left.
ProposalsExplainBalances ==
    pc \in {"sort", "match"} =>
      \A p \in People : balance[p] = initial[p] + Pays(p) - Gets(p)

DebtLeft == [p \in People |-> IF balance[p] < 0 THEN -balance[p] ELSE 0]
CreditLeft == [p \in People |-> IF balance[p] > 0 THEN balance[p] ELSE 0]

\* When the balances of the group sum to zero, what is left to pay when the
\* proposals are paid is less than a cent per member.
LeftoverBounded ==
    pc \in {"hide", "done"} /\ SumFunction(initial) = 0 =>
      /\ SumFunction(DebtLeft) < Cardinality(People)
      /\ SumFunction(CreditLeft) < Cardinality(People)

\* The amounts of a list of payments, but for those not of f to t.
Between(list, f, t) == [k \in DOMAIN list |->
                          IF list[k].from = f /\ list[k].to = t THEN list[k].amount ELSE 0]

AmountIn(list, f, t) == SumFunction(Between(list, f, t))

\* What is shown between two members is what was proposed less what is pending
\* between them, and never less than nothing.
PendingSubtracted ==
    pc = "done" =>
      \A f, t \in People :
        AmountIn(settlements, f, t) =
          IF AmountIn(pending, f, t) < AmountIn(proposed, f, t)
          THEN AmountIn(proposed, f, t) - AmountIn(pending, f, t) ELSE 0

\* Each turn of the loop finishes a debtor or a creditor, so the proposals are
\* fewer than the debtors and creditors together.
FewPayments ==
    pc = "match" =>
      /\ Len(settlements) <= (i - 1) + (j - 1)
      /\ settlements # <<>> => Len(settlements) < Len(debtors) + Len(creditors)

\* When the matching ends, all debtors or all creditors it was about are settled
\* to the last cent or the one before.
OneSideSettled ==
    pc \in {"hide", "done"} =>
      \/ \A k \in DOMAIN debtors : balance[debtors[k]] \in {-1, 0}
      \/ \A k \in DOMAIN creditors : balance[creditors[k]] \in {0, 1}

\* The function returns.
Returns == <>(pc = "done")
=============================================================================
