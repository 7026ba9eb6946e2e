----------------------------- MODULE GroupFund -----------------------------
(***************************************************************************)
(* The fund of one group: its balance, the FundTransaction ledger and the  *)
(* expenses paid from it (groups.service/groups.repository for             *)
(* contributions and withdrawals, expenses.service/expenses.repository for *)
(* the expenses).                                                          *)
(*                                                                         *)
(* A $transaction is one atomic step, taken when it commits.  PostgreSQL   *)
(* runs it at READ COMMITTED; whatever it writes it has locked: the        *)
(* group_funds row first, then the expense row, in every transaction, so   *)
(* two transactions that touch the same row commit one after the other and *)
(* never wait for each other in a cycle.  What a request reads BEFORE its  *)
(* transaction writes is not protected, and is a step of its own here.     *)
(*                                                                         *)
(* The fund row is created with the group (groups.repository create), so   *)
(* "fund not found" cannot happen and the lookups of its id read nothing   *)
(* that changes.  A refused request leaves the state as it was; it is an   *)
(* action only where a step of the request already happened.               *)
(***************************************************************************)
EXTENDS Integers

CONSTANTS Members,        \* users who are active members of the group
          Owners,         \* those with role OWNER
          Expenses,       \* identifiers of expense rows
          Requests,       \* update/delete requests the server has in flight
          Amounts,        \* amounts a request may carry, in cents
          Absent,         \* an optional field the request leaves out
          MaxContributed  \* bound: total of the contributions

ASSUME FundAssumption ==
    /\ Owners \subseteq Members
    /\ Amounts \subseteq Nat \ {0}
    /\ Absent \notin Amounts
    /\ Absent \notin {"PERSONAL", "GROUP_FUND"}
    /\ Absent \notin Expenses

VARIABLES balance,        \* group_funds.balance
          ledger,         \* SUM(amount) of fund_transactions, by type
          charged,        \* SUM(amount) of the EXPENSE rows of each expense
          expense,        \* the expenses table, with its payers and splits
          req             \* the update and delete requests in flight

vars == <<balance, ledger, charged, expense, req>>

Sources == {"PERSONAL", "GROUP_FUND"}

Cents == Amounts \cup {0}

\* A row of expenses: paid is the total of its expense_payers, owed the total
\* of its expense_splits.
Row == [status : {"none", "live", "deleted"}, source : Sources,
        amount : Cents, paid : Nat, owed : Nat, createdBy : Members \cup {Absent}]

NoRow == [status |-> "none", source |-> "PERSONAL", amount |-> 0,
          paid |-> 0, owed |-> 0, createdBy |-> Absent]

\* The fields of UpdateExpenseDto the fund and the shares depend on; splits is
\* the total of the recalculated splits, Absent when they are left alone.
Patch == [amount : Amounts \cup {Absent}, source : Sources \cup {Absent},
          splits : Nat \cup {Absent}]

NoPatch == [amount |-> Absent, source |-> Absent, splits |-> Absent]

\* What a request has read of its expense.
Snapshot == [source : Sources, amount : Cents]

NoSnapshot == [source |-> "PERSONAL", amount |-> 0]

Request == [pc : {"idle", "update_checked", "update_read", "delete_checked",
                  "delete_read"},
            id : Expenses \cup {Absent}, patch : Patch, old : Snapshot]

Idle == [pc |-> "idle", id |-> Absent, patch |-> NoPatch, old |-> NoSnapshot]

TypeOK ==
    /\ balance \in Int
    /\ ledger \in [CONTRIBUTION : Nat, REFUND : Nat, EXPENSE : Int]
    /\ charged \in [Expenses -> Nat]
    /\ expense \in [Expenses -> Row]
    /\ req \in [Requests -> Request]
    /\ \A r \in Requests : req[r].pc # "idle" => req[r].id \in Expenses
-----------------------------------------------------------------------------
(***************************************************************************)
(* Helpers.                                                                *)
(***************************************************************************)

Live(e) == expense[e].status = "live"

Seen(e) == [source |-> expense[e].source, amount |-> expense[e].amount]

MayEdit(u, e) == u = expense[e].createdBy \/ u \in Owners

\* a ?? b
OrElse(a, b) == IF a = Absent THEN b ELSE a

\* payers are written for PERSONAL expenses only: the creator pays it all
PaidBy(source, amount) == IF source = "PERSONAL" THEN amount ELSE 0

FundPart(source, amount) == IF source = "GROUP_FUND" THEN amount ELSE 0

\* the fund can pay for part c once it got back part b
Covers(b, c) == balance + b >= c

\* request r goes on to pc, having read old of its expense
Advance(r, pc, old) ==
    [req EXCEPT ![r] = [pc |-> pc, id |-> @.id, patch |-> @.patch, old |-> old]]

Done(r) == [req EXCEPT ![r] = Idle]
-----------------------------------------------------------------------------
Init ==
    /\ balance = 0
    /\ ledger = [CONTRIBUTION |-> 0, REFUND |-> 0, EXPENSE |-> 0]
    /\ charged = [e \in Expenses |-> 0]
    /\ expense = [e \in Expenses |-> NoRow]
    /\ req = [r \in Requests |-> Idle]

(***************************************************************************)
(* Requests that are one transaction.                                      *)
(***************************************************************************)

Contribute(u, a) ==
    /\ u \in Members
    /\ ledger.CONTRIBUTION + a <= MaxContributed
    /\ balance' = balance + a
    /\ ledger' = [ledger EXCEPT !.CONTRIBUTION = @ + a]
    /\ UNCHANGED <<charged, expense, req>>

\* Slip: the decrement loses its balance condition.
Withdraw_Unguarded(u, a) ==
    /\ u \in Owners
    /\ balance' = balance - a
    /\ ledger' = [ledger EXCEPT !.REFUND = @ + a]
    /\ UNCHANGED <<charged, expense, req>>

Withdraw(u, a) ==
    /\ u \in Owners
    /\ balance >= a
    /\ balance' = balance - a
    /\ ledger' = [ledger EXCEPT !.REFUND = @ + a]
    /\ UNCHANGED <<charged, expense, req>>

\* Expense, payers, splits, guarded decrement and ledger row commit together.
CreateExpense(u, e, source, a) ==
    LET part == FundPart(source, a) IN
    /\ u \in Members
    /\ expense[e].status = "none"
    /\ Covers(0, part)
    /\ expense' = [expense EXCEPT ![e] =
                     [status |-> "live", source |-> source, amount |-> a,
                      paid |-> PaidBy(source, a), owed |-> a, createdBy |-> u]]
    /\ balance' = balance - part
    /\ charged' = [charged EXCEPT ![e] = @ + part]
    /\ ledger' = [ledger EXCEPT !.EXPENSE = @ + part]
    /\ UNCHANGED req

(***************************************************************************)
(* updateExpense: the service reads the expense and computes new splits,   *)
(* the repository reads it again (both outside the transaction), then the  *)
(* transaction refunds what was read and charges the new amount.           *)
(***************************************************************************)

\* A new amount always recalculates the splits; resplit stands for new splits
\* or a new splitType, for which the total is the amount the service read.
UpdateCheck(r, u, e, amount, source, resplit) ==
    /\ req[r].pc = "idle"
    /\ u \in Members
    /\ Live(e)
    /\ MayEdit(u, e)
    /\ LET splits == IF resplit \/ amount # Absent
                     THEN OrElse(amount, expense[e].amount)
                     ELSE Absent
       IN  req' = [req EXCEPT ![r] =
                     [pc |-> "update_checked", id |-> e, old |-> NoSnapshot,
                      patch |-> [amount |-> amount, source |-> source,
                                 splits |-> splits]]]
    /\ UNCHANGED <<balance, ledger, charged, expense>>

\* oldExpense: findFirstOrThrow finds live rows only.
UpdateRead(r) ==
    /\ req[r].pc = "update_checked"
    /\ LET e == req[r].id IN
         req' = IF Live(e)
                THEN Advance(r, "update_read", Seen(e))
                ELSE Done(r)
    /\ UNCHANGED <<balance, ledger, charged, expense>>

\* Slip: the payers keep the amount that was read.
UpdatedRow_OldPayers(row, patch, old) ==
    [row EXCEPT !.amount = OrElse(patch.amount, @),
                !.source = OrElse(patch.source, @),
                !.paid = PaidBy(OrElse(patch.source, old.source), old.amount),
                !.owed = OrElse(patch.splits, @)]

UpdatedRow(row, patch, old) ==
    LET newAmount == OrElse(patch.amount, old.amount)
        newSource == OrElse(patch.source, old.source)
    IN  [row EXCEPT !.amount = OrElse(patch.amount, @),
                    !.source = OrElse(patch.source, @),
                    !.paid = PaidBy(newSource, newAmount),
                    !.owed = OrElse(patch.splits, @)]

\* Slip: a new funding source is stored but not charged.
NewPart_OldSource(patch, old) ==
    FundPart(old.source, OrElse(patch.amount, old.amount))

\* The part of the fund an update asks for.
NewPart(patch, old) ==
    FundPart(OrElse(patch.source, old.source), OrElse(patch.amount, old.amount))

\* Slip: the old EXPENSE row is not deleted.
ChargeAfter_KeepsRows(e, old, part) == charged[e] + part

\* deleteMany drops every EXPENSE row of e, if the old source was the fund
ChargeAfter(e, old, part) ==
    (IF old.source = "GROUP_FUND" THEN 0 ELSE charged[e]) + part

UpdateCommit(r) ==
    LET e == req[r].id
        patch == req[r].patch
        old == req[r].old
        refund == FundPart(old.source, old.amount)
        part == NewPart(patch, old)
    IN
    /\ req[r].pc = "update_read"
    /\ Covers(refund, part)
    /\ balance' = balance + refund - part
    /\ charged' = [charged EXCEPT ![e] = ChargeAfter(e, old, part)]
    /\ ledger' = [ledger EXCEPT !.EXPENSE = @ - charged[e] + ChargeAfter(e, old, part)]
    /\ expense' = [expense EXCEPT ![e] = UpdatedRow(@, patch, old)]
    /\ req' = Done(r)

\* The transaction rolls back as a whole: 'Insufficient group fund balance for
\* update', or a statement that fails (a payer an overlapping update inserted,
\* a lost connection).
UpdateRollback(r) ==
    /\ req[r].pc = "update_read"
    /\ req' = Done(r)
    /\ UNCHANGED <<balance, ledger, charged, expense>>

(***************************************************************************)
(* deleteExpense: checked by the service, read inside the transaction      *)
(* without a lock, then refunded and marked deleted.                       *)
(***************************************************************************)

DeleteCheck(r, u, e) ==
    /\ req[r].pc = "idle"
    /\ u \in Members
    /\ Live(e)
    /\ MayEdit(u, e)
    /\ req' = [req EXCEPT ![r] = [pc |-> "delete_checked", id |-> e,
                                   patch |-> NoPatch, old |-> NoSnapshot]]
    /\ UNCHANGED <<balance, ledger, charged, expense>>

DeleteRead(r) ==
    /\ req[r].pc = "delete_checked"
    /\ LET e == req[r].id IN
         req' = IF Live(e)
                THEN Advance(r, "delete_read", Seen(e))
                ELSE Done(r)
    /\ UNCHANGED <<balance, ledger, charged, expense>>

DeleteCommit(r) ==
    LET e == req[r].id
        old == req[r].old
    IN
    /\ req[r].pc = "delete_read"
    /\ balance' = balance + FundPart(old.source, old.amount)
    /\ charged' = [charged EXCEPT ![e] = ChargeAfter(e, old, 0)]
    /\ ledger' = [ledger EXCEPT !.EXPENSE = @ - charged[e] + ChargeAfter(e, old, 0)]
    /\ expense' = [expense EXCEPT ![e].status = "deleted"]
    /\ req' = Done(r)

DeleteRollback(r) ==
    /\ req[r].pc = "delete_read"
    /\ req' = Done(r)
    /\ UNCHANGED <<balance, ledger, charged, expense>>

\* The process stops: open transactions roll back, requests are gone.
ServerCrash ==
    /\ \E r \in Requests : req[r].pc # "idle"
    /\ req' = [r \in Requests |-> Idle]
    /\ UNCHANGED <<balance, ledger, charged, expense>>
-----------------------------------------------------------------------------
Money == \E u \in Members, a \in Amounts : Contribute(u, a) \/ Withdraw(u, a)

Create == \E u \in Members, e \in Expenses, s \in Sources, a \in Amounts :
            CreateExpense(u, e, s, a)

Update(r) ==
    \/ \E u \in Members, e \in Expenses, a \in Amounts \cup {Absent},
          s \in Sources \cup {Absent}, resplit \in BOOLEAN :
            UpdateCheck(r, u, e, a, s, resplit)
    \/ UpdateRead(r)
    \/ UpdateCommit(r)
    \/ UpdateRollback(r)

Delete(r) ==
    \/ \E u \in Members, e \in Expenses : DeleteCheck(r, u, e)
    \/ DeleteRead(r)
    \/ DeleteCommit(r)
    \/ DeleteRollback(r)

Next ==
    \/ Money
    \/ Create
    \/ \E r \in Requests : Update(r) \/ Delete(r)
    \/ ServerCrash

Spec == Init /\ [][Next]_vars

\* The environment under which the edits of any ONE expense are made one after
\* the other; everything else still interleaves freely.
EditsDoNotOverlap ==
    \A r1, r2 \in Requests :
      r1 # r2 /\ req[r1].pc # "idle" /\ req[r2].pc # "idle"
        => req[r1].id # req[r2].id

SerialNext == Next /\ EditsDoNotOverlap'

SerialSpec == Init /\ [][SerialNext]_vars
-----------------------------------------------------------------------------
\* The account of the fund: its balance and ledger are the stored ones, and an
\* expense holds the charge the ledger has for it.
Account == INSTANCE FundAccount
             WITH Expenses <- Expenses, Amounts <- Amounts,
                  balance <- balance, ledger <- ledger, charged <- charged

(***************************************************************************)
(* Properties of every interleaving.                                       *)
(***************************************************************************)

\* The fund is never overdrawn, whatever overlaps: each decrement re-checks
\* balance >= amount in the row it updates (there is no CHECK in the schema).
BalanceNonNegative == balance >= 0

(***************************************************************************)
(* Properties when edits of one expense do not overlap.                    *)
(***************************************************************************)

\* The balance is what the ledger adds up to: contributions minus withdrawals
\* minus the charges of expenses, after every sequence of requests.
Reconciled == Account!Balanced(balance, ledger)

\* The ledger charges an expense its amount exactly while it is live and paid
\* from the fund: an edit that changes amount or source, and a delete, leave no
\* stale, missing or doubled EXPENSE row behind.
ChargesMatchExpenses ==
    \A e \in Expenses :
      charged[e] = IF Live(e) THEN FundPart(expense[e].source, expense[e].amount)
                              ELSE 0

\* A live expense is paid in full and split in full, so that it moves the
\* balances of the members by a total of zero.
SharesCoverAmount ==
    \A e \in Expenses :
      Live(e) => /\ expense[e].owed = expense[e].amount
                 /\ expense[e].paid = PaidBy(expense[e].source, expense[e].amount)

\* What an edit in flight has read stays true until it commits: its expense is
\* live, the row the repository read is still the row, and the recalculated
\* splits add up to the amount the row will have.
RequestsSeeTheRow ==
    \A r \in Requests :
      LET e == req[r].id
          patch == req[r].patch
      IN  /\ req[r].pc # "idle" => Live(e)
          /\ req[r].pc \in {"update_read", "delete_read"} => req[r].old = Seen(e)
          /\ req[r].pc \in {"update_checked", "update_read"} =>
               IF patch.splits = Absent
               THEN patch.amount = Absent
               ELSE patch.splits = OrElse(patch.amount, expense[e].amount)

\* The inductive invariant the theorems about SerialSpec rest on.
SerialInv ==
    /\ TypeOK
    /\ EditsDoNotOverlap
    /\ RequestsSeeTheRow
    /\ Reconciled
    /\ ChargesMatchExpenses
    /\ SharesCoverAmount

\* Contributions, withdrawals and edits are the operations of an account
\* (FundAccount), each taking effect in one step.
AccountRefined == Account!AccountSpec
=============================================================================
