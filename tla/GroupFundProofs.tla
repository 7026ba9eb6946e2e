-------------------------- MODULE GroupFundProofs --------------------------
(***************************************************************************)
(* Proofs about GroupFund for every set of members, expenses, requests and *)
(* amounts: type correctness and a fund that is never overdrawn in every   *)
(* interleaving; reconciliation of balance, ledger and expenses, and the   *)
(* implementation of FundAccount, when edits of one expense do not overlap.*)
(***************************************************************************)
EXTENDS GroupFund, TLAPS

LEMMA PartType == ASSUME NEW s, NEW a \in Nat PROVE FundPart(s, a) \in Nat
  BY DEF FundPart

LEMMA PaidType == ASSUME NEW s, NEW a \in Nat PROVE PaidBy(s, a) \in Nat
  BY DEF PaidBy

\* What the records of a request and a row contain.
LEMMA Unpack ==
  ASSUME TypeOK
  PROVE  /\ \A r \in Requests : req[r] \in Request
         /\ \A e \in Expenses : expense[e] \in Row /\ charged[e] \in Nat
  BY DEF TypeOK

LEMMA IdleType == Idle \in Request
  BY DEF Idle, Request, NoPatch, Patch, NoSnapshot, Snapshot, Sources, Cents

\* The part of TypeOK about requests in flight.
ReqOK(q) ==
    /\ q \in [Requests -> Request]
    /\ \A r \in Requests : q[r].pc # "idle" => q[r].id \in Expenses

LEMMA DoneType ==
  ASSUME TypeOK, NEW r \in Requests PROVE ReqOK(Done(r))
  BY IdleType DEF Done, TypeOK, ReqOK, Idle

LEMMA AdvanceType ==
  ASSUME TypeOK, NEW r \in Requests, req[r].pc # "idle",
         NEW o \in Snapshot, NEW pc \in {"update_read", "delete_read"}
  PROVE  ReqOK(Advance(r, pc, o))
  BY DEF Advance, TypeOK, ReqOK, Request

LEMMA NewRequestType ==
  ASSUME TypeOK, NEW r \in Requests, NEW e \in Expenses, NEW p \in Patch,
         NEW pc \in {"update_checked", "delete_checked"}
  PROVE  ReqOK([req EXCEPT ![r] = [pc |-> pc, id |-> e, patch |-> p,
                                   old |-> NoSnapshot]])
  BY DEF TypeOK, ReqOK, Request, NoSnapshot, Snapshot, Sources, Cents

LEMMA SeenType ==
  ASSUME TypeOK, NEW e \in Expenses PROVE Seen(e) \in Snapshot
  BY DEF TypeOK, Seen, Snapshot, Row

LEMMA CentsType == Cents \subseteq Nat
  BY FundAssumption DEF Cents

LEMMA NewPartType ==
  ASSUME NEW p \in Patch, NEW o \in Snapshot
  PROVE  NewPart(p, o) \in Cents
  BY DEF NewPart, FundPart, OrElse, Patch, Snapshot, Cents

LEMMA UpdatedRowType ==
  ASSUME NEW p \in Patch, NEW o \in Snapshot, NEW row \in Row
  PROVE  UpdatedRow(row, p, o) \in Row
  <1>1. OrElse(p.amount, o.amount) \in Nat /\ OrElse(p.amount, row.amount) \in Cents
    BY CentsType DEF OrElse, Patch, Snapshot, Row, Cents
  <1>2. OrElse(p.source, row.source) \in Sources
    BY DEF OrElse, Patch, Row
  <1>3. OrElse(p.splits, row.owed) \in Nat
    BY DEF OrElse, Patch, Row
  <1>4. PaidBy(OrElse(p.source, o.source), OrElse(p.amount, o.amount)) \in Nat
    BY <1>1, PaidType
  <1> QED
    BY <1>1, <1>2, <1>3, <1>4 DEF UpdatedRow, Row

LEMMA InitType == Init => TypeOK
  BY IdleType DEF Init, TypeOK, NoRow, Row, Sources, Idle, Cents


LEMMA NewPatchType ==
  ASSUME TypeOK, NEW e \in Expenses, NEW a \in Amounts \cup {Absent},
         NEW s \in Sources \cup {Absent}, NEW resplit \in BOOLEAN
  PROVE  [amount |-> a, source |-> s,
          splits |-> IF resplit \/ a # Absent THEN OrElse(a, expense[e].amount)
                                              ELSE Absent] \in Patch
  <1>1. OrElse(a, expense[e].amount) \in Nat
    BY CentsType DEF OrElse, TypeOK, Row, Cents
  <1> QED
    BY <1>1 DEF Patch

LEMMA ChargeAfterType ==
  ASSUME TypeOK, NEW e \in Expenses, NEW o, NEW p \in Nat
  PROVE  ChargeAfter(e, o, p) \in Nat
  BY DEF TypeOK, ChargeAfter

LEMMA NextType == TypeOK /\ [Next]_vars => TypeOK'
  <1> SUFFICES ASSUME TypeOK, [Next]_vars PROVE TypeOK'
    OBVIOUS
  <1>1. ASSUME NEW u \in Members, NEW a \in Amounts,
               Contribute(u, a) \/ Withdraw(u, a)
        PROVE  TypeOK'
    BY <1>1, FundAssumption DEF TypeOK, Contribute, Withdraw
  <1>2. ASSUME NEW u \in Members, NEW e \in Expenses, NEW s \in Sources,
               NEW a \in Amounts, CreateExpense(u, e, s, a)
        PROVE  TypeOK'
    <2>1. a \in Nat /\ FundPart(s, a) \in Nat /\ PaidBy(s, a) \in Nat
      BY FundAssumption, PartType, PaidType
    <2> QED
      BY <1>2, <2>1 DEF TypeOK, CreateExpense, Row, Cents
  <1>3. ASSUME NEW r \in Requests, Update(r) PROVE TypeOK'
    <2>1. ASSUME NEW u \in Members, NEW e \in Expenses,
                 NEW a \in Amounts \cup {Absent}, NEW s \in Sources \cup {Absent},
                 NEW resplit \in BOOLEAN, UpdateCheck(r, u, e, a, s, resplit)
          PROVE  TypeOK'
      <3>1. ReqOK(req')
        BY <2>1, NewPatchType, NewRequestType DEF UpdateCheck
      <3> QED
        BY <2>1, <3>1 DEF UpdateCheck, TypeOK, ReqOK
    <2>2. CASE UpdateRead(r)
      <3>1. req[r].id \in Expenses /\ Seen(req[r].id) \in Snapshot
        BY <2>2, SeenType DEF UpdateRead, TypeOK
      <3>2. ReqOK(req')
        BY <2>2, <3>1, DoneType, AdvanceType DEF UpdateRead
      <3> QED
        BY <2>2, <3>2 DEF UpdateRead, TypeOK, ReqOK
    <2>3. CASE UpdateCommit(r)
      <3> DEFINE e == req[r].id
                 part == NewPart(req[r].patch, req[r].old)
                 refund == FundPart(req[r].old.source, req[r].old.amount)
      <3>1. /\ e \in Expenses /\ req[r].patch \in Patch
            /\ req[r].old \in Snapshot /\ req[r].old.amount \in Nat
        BY <2>3, CentsType DEF UpdateCommit, TypeOK, Request, Snapshot
      <3>2. part \in Nat /\ refund \in Nat
        BY <3>1, CentsType, NewPartType, PartType
      <3>3. ChargeAfter(e, req[r].old, part) \in Nat
        BY <3>1, <3>2, ChargeAfterType
      <3>4. UpdatedRow(expense[e], req[r].patch, req[r].old) \in Row
        BY <3>1, UpdatedRowType DEF TypeOK
      <3>5. ReqOK(req')
        BY <2>3, DoneType DEF UpdateCommit
      <3> HIDE DEF e, part, refund
      <3> QED
        BY <2>3, <3>1, <3>2, <3>3, <3>4, <3>5
           DEF UpdateCommit, TypeOK, ReqOK, e, part, refund
    <2>4. CASE UpdateRollback(r)
      BY <2>4, DoneType DEF UpdateRollback, TypeOK, ReqOK
    <2> QED
      BY <1>3, <2>1, <2>2, <2>3, <2>4 DEF Update
  <1>4. ASSUME NEW r \in Requests, Delete(r) PROVE TypeOK'
    <2>1. ASSUME NEW u \in Members, NEW e \in Expenses, DeleteCheck(r, u, e)
          PROVE  TypeOK'
      <3>1. ReqOK(req')
        BY <2>1, NewRequestType DEF DeleteCheck, NoPatch, Patch
      <3> QED
        BY <2>1, <3>1 DEF DeleteCheck, TypeOK, ReqOK
    <2>2. CASE DeleteRead(r)
      <3>1. req[r].id \in Expenses /\ Seen(req[r].id) \in Snapshot
        BY <2>2, SeenType DEF DeleteRead, TypeOK
      <3>2. ReqOK(req')
        BY <2>2, <3>1, DoneType, AdvanceType DEF DeleteRead
      <3> QED
        BY <2>2, <3>2 DEF DeleteRead, TypeOK, ReqOK
    <2>3. CASE DeleteCommit(r)
      <3>1. /\ req[r].id \in Expenses /\ req[r].old.amount \in Nat
        BY <2>3, CentsType DEF DeleteCommit, TypeOK, Request, Snapshot
      <3>2. FundPart(req[r].old.source, req[r].old.amount) \in Nat
        BY <3>1, PartType
      <3>3. ChargeAfter(req[r].id, req[r].old, 0) \in Nat
        BY <3>1, ChargeAfterType
      <3>4. [expense[req[r].id] EXCEPT !.status = "deleted"] \in Row
        BY <3>1 DEF TypeOK, Row
      <3>5. ReqOK(req')
        BY <2>3, DoneType DEF DeleteCommit
      <3> QED
        BY <2>3, <3>1, <3>2, <3>3, <3>4, <3>5 DEF DeleteCommit, TypeOK, ReqOK
    <2>4. CASE DeleteRollback(r)
      BY <2>4, DoneType DEF DeleteRollback, TypeOK, ReqOK
    <2> QED
      BY <1>4, <2>1, <2>2, <2>3, <2>4 DEF Delete
  <1>5. CASE ServerCrash
    BY <1>5, IdleType DEF ServerCrash, TypeOK, Idle
  <1>6. CASE UNCHANGED vars
    BY <1>6 DEF vars, TypeOK
  <1> QED
    BY <1>1, <1>2, <1>3, <1>4, <1>5, <1>6 DEF Next, Money, Create

\* Every reachable state is well typed: in particular no ledger total of
\* contributions or withdrawals, no charge and no amount is ever negative.
THEOREM TypeCorrect == Spec => []TypeOK
  BY InitType, NextType, PTL DEF Spec
-----------------------------------------------------------------------------
(***************************************************************************)
(* The fund is never overdrawn.                                            *)
(***************************************************************************)

LEMMA NextNonNegative ==
  TypeOK /\ BalanceNonNegative /\ [Next]_vars => BalanceNonNegative'
  <1> SUFFICES ASSUME TypeOK, BalanceNonNegative, [Next]_vars
               PROVE  BalanceNonNegative'
    OBVIOUS
  <1> USE DEF BalanceNonNegative
  <1>1. ASSUME NEW u \in Members, NEW a \in Amounts,
               Contribute(u, a) \/ Withdraw(u, a)
        PROVE  BalanceNonNegative'
    BY <1>1, FundAssumption DEF TypeOK, Contribute, Withdraw
  <1>2. ASSUME NEW u \in Members, NEW e \in Expenses, NEW s \in Sources,
               NEW a \in Amounts, CreateExpense(u, e, s, a)
        PROVE  BalanceNonNegative'
    <2>1. FundPart(s, a) \in Nat
      BY FundAssumption, PartType
    <2> QED
      BY <1>2, <2>1 DEF TypeOK, CreateExpense, Covers
  <1>3. ASSUME NEW r \in Requests, Update(r) PROVE BalanceNonNegative'
    <2>1. ASSUME UpdateCommit(r) PROVE BalanceNonNegative'
      <3> DEFINE part == NewPart(req[r].patch, req[r].old)
                 refund == FundPart(req[r].old.source, req[r].old.amount)
      <3>1. /\ req[r].patch \in Patch
            /\ req[r].old \in Snapshot /\ req[r].old.amount \in Nat
        BY CentsType DEF TypeOK, Request, Snapshot
      <3>2. part \in Nat /\ refund \in Nat
        BY <3>1, CentsType, NewPartType, PartType
      <3>3. balance + refund >= part /\ balance' = balance + refund - part
        BY <2>1 DEF UpdateCommit, Covers
      <3> HIDE DEF part, refund
      <3> QED
        BY <3>2, <3>3 DEF TypeOK
    <2> QED
      BY <1>3, <2>1 DEF Update, UpdateCheck, UpdateRead, UpdateRollback
  <1>4. ASSUME NEW r \in Requests, Delete(r) PROVE BalanceNonNegative'
    <2>1. ASSUME DeleteCommit(r) PROVE BalanceNonNegative'
      <3>1. req[r].old.amount \in Nat
        BY CentsType DEF TypeOK, Request, Snapshot
      <3>2. FundPart(req[r].old.source, req[r].old.amount) \in Nat
        BY <3>1, PartType
      <3> QED
        BY <2>1, <3>2 DEF DeleteCommit, TypeOK
    <2> QED
      BY <1>4, <2>1 DEF Delete, DeleteCheck, DeleteRead, DeleteRollback
  <1>5. CASE ServerCrash
    BY <1>5 DEF ServerCrash
  <1>6. CASE UNCHANGED vars
    BY <1>6 DEF vars
  <1> QED
    BY <1>1, <1>2, <1>3, <1>4, <1>5, <1>6 DEF Next, Money, Create

\* However requests interleave, and however stale what they have read, the
\* fund is never overdrawn: the condition on each decrement is enough.
THEOREM NeverOverdrawn == Spec => []BalanceNonNegative
  <1>1. Init => BalanceNonNegative
    BY DEF Init, BalanceNonNegative
  <1> QED
    BY <1>1, InitType, NextType, NextNonNegative, PTL DEF Spec
-----------------------------------------------------------------------------
(***************************************************************************)
(* Reconciliation when edits of one expense do not overlap.                *)
(***************************************************************************)

\* An edit in flight is the only one of its expense.
LEMMA OnlyEdit ==
  ASSUME SerialInv, NEW r \in Requests, NEW q \in Requests, q # r,
         req[r].pc # "idle", req[q].pc # "idle"
  PROVE  req[q].id # req[r].id
  BY DEF SerialInv, EditsDoNotOverlap

LEMMA InitSerial == Init => SerialInv
  <1> SUFFICES ASSUME Init PROVE SerialInv
    OBVIOUS
  <1>1. TypeOK
    BY InitType
  <1>2. EditsDoNotOverlap /\ RequestsSeeTheRow
    BY DEF Init, EditsDoNotOverlap, RequestsSeeTheRow, Idle
  <1>3. Reconciled
    BY DEF Init, Reconciled, Account!Balanced
  <1>4. ChargesMatchExpenses /\ SharesCoverAmount
    BY DEF Init, ChargesMatchExpenses, SharesCoverAmount, Live, NoRow
  <1> QED
    BY <1>1, <1>2, <1>3, <1>4 DEF SerialInv

\* Steps that touch requests only.
LEMMA FundUntouched ==
  ASSUME SerialInv, UNCHANGED <<balance, ledger, charged, expense>>
  PROVE  Reconciled' /\ ChargesMatchExpenses' /\ SharesCoverAmount'
  BY DEF SerialInv, Reconciled, Account!Balanced, ChargesMatchExpenses,
         SharesCoverAmount, Live

LEMMA MoneyStep ==
  ASSUME SerialInv, NEW u \in Members, NEW a \in Amounts,
         Contribute(u, a) \/ Withdraw(u, a)
  PROVE  RequestsSeeTheRow' /\ Reconciled' /\ ChargesMatchExpenses'
         /\ SharesCoverAmount'
  <1> USE DEF SerialInv
  <1>1. a \in Int
    BY FundAssumption
  <1>2. Reconciled'
    BY <1>1 DEF Contribute, Withdraw, TypeOK, Reconciled, Account!Balanced
  <1>3. UNCHANGED <<charged, expense, req>>
    BY DEF Contribute, Withdraw
  <1> QED
    BY <1>2, <1>3 DEF RequestsSeeTheRow, ChargesMatchExpenses,
                      SharesCoverAmount, Live, Seen

LEMMA CreateStep ==
  ASSUME SerialInv, NEW u \in Members, NEW e \in Expenses, NEW s \in Sources,
         NEW a \in Amounts, CreateExpense(u, e, s, a)
  PROVE  RequestsSeeTheRow' /\ Reconciled' /\ ChargesMatchExpenses'
         /\ SharesCoverAmount'
  <1> USE DEF SerialInv
  <1> DEFINE part == FundPart(s, a)
  <1>1. a \in Nat /\ part \in Nat
    BY FundAssumption, PartType
  <1>2. charged[e] = 0 /\ ~Live(e)
    BY DEF CreateExpense, ChargesMatchExpenses, Live
  <1>3. /\ expense'[e].status = "live" /\ expense'[e].source = s
        /\ expense'[e].amount = a /\ expense'[e].owed = a
        /\ expense'[e].paid = PaidBy(s, a) /\ charged'[e] = part
        /\ \A f \in Expenses \ {e} : /\ expense'[f] = expense[f]
                                     /\ charged'[f] = charged[f]
    BY <1>1, <1>2 DEF CreateExpense, TypeOK
  <1>4. Reconciled'
    BY <1>1 DEF CreateExpense, TypeOK, Reconciled, Account!Balanced
  <1>5. ChargesMatchExpenses'
    BY <1>3 DEF ChargesMatchExpenses, Live
  <1>6. SharesCoverAmount'
    BY <1>3 DEF SharesCoverAmount, Live
  <1>7. RequestsSeeTheRow'
    <2>1. \A r \in Requests : req[r].pc # "idle" =>
            /\ req[r].id \in Expenses \ {e}
            /\ expense'[req[r].id] = expense[req[r].id]
      BY <1>2, <1>3 DEF RequestsSeeTheRow, TypeOK
    <2>2. req' = req
      BY DEF CreateExpense
    <2> QED
      BY <2>1, <2>2 DEF RequestsSeeTheRow, Live, Seen, TypeOK
  <1> QED
    BY <1>4, <1>5, <1>6, <1>7

\* A step that changes only request r, and leaves it idle or seeing its row.
LEMMA RequestStep ==
  ASSUME SerialInv, NEW r \in Requests, NEW new \in Request,
         UNCHANGED <<balance, ledger, charged, expense>>,
         req' = [req EXCEPT ![r] = new],
         new.pc # "idle" => Live(new.id),
         new.pc \in {"update_read", "delete_read"} => new.old = Seen(new.id),
         new.pc \in {"update_checked", "update_read"} =>
           IF new.patch.splits = Absent
           THEN new.patch.amount = Absent
           ELSE new.patch.splits = OrElse(new.patch.amount, expense[new.id].amount)
  PROVE  RequestsSeeTheRow'
  <1>1. req'[r] = new /\ \A q \in Requests \ {r} : req'[q] = req[q]
    BY DEF SerialInv, TypeOK
  <1>2. expense' = expense
    OBVIOUS
  <1>3. RequestsSeeTheRow
    BY DEF SerialInv
  <1> QED
    BY <1>1, <1>2, <1>3 DEF RequestsSeeTheRow, Live, Seen

LEMMA DoneStep ==
  ASSUME SerialInv, NEW r \in Requests, req' = Done(r),
         UNCHANGED <<balance, ledger, charged, expense>>
  PROVE  RequestsSeeTheRow'
  BY RequestStep, IdleType DEF Done, Idle

LEMMA AdvanceStep ==
  ASSUME SerialInv, NEW r \in Requests, NEW pc \in {"update_read", "delete_read"},
         req[r].pc = IF pc = "update_read" THEN "update_checked" ELSE "delete_checked",
         req' = Advance(r, pc, Seen(req[r].id)),
         UNCHANGED <<balance, ledger, charged, expense>>
  PROVE  RequestsSeeTheRow'
  <1> DEFINE new == [pc |-> pc, id |-> req[r].id, patch |-> req[r].patch,
                     old |-> Seen(req[r].id)]
  <1>1. TypeOK /\ RequestsSeeTheRow
    BY DEF SerialInv
  <1>2. req[r].id \in Expenses /\ req[r] \in Request
    BY <1>1 DEF TypeOK
  <1>3. new \in Request
    BY <1>1, <1>2, SeenType DEF Request
  <1>4. req' = [req EXCEPT ![r] = new]
    BY DEF Advance
  <1> QED
    BY <1>1, <1>3, <1>4, RequestStep DEF RequestsSeeTheRow

\* A commit of request r replaces the row of its expense e and its charge; the
\* other requests in flight are about other expenses.
LEMMA CommitStep ==
  ASSUME SerialInv, NEW r \in Requests, req[r].pc # "idle",
         NEW row \in Row, NEW c \in Nat,
         expense' = [expense EXCEPT ![req[r].id] = row],
         charged' = [charged EXCEPT ![req[r].id] = c],
         req' = Done(r),
         c = IF row.status = "live" THEN FundPart(row.source, row.amount) ELSE 0,
         row.status = "live" => /\ row.owed = row.amount
                                /\ row.paid = PaidBy(row.source, row.amount)
  PROVE  RequestsSeeTheRow' /\ ChargesMatchExpenses' /\ SharesCoverAmount'
  <1> DEFINE e == req[r].id
  <1>1. TypeOK /\ RequestsSeeTheRow /\ ChargesMatchExpenses /\ SharesCoverAmount
    BY DEF SerialInv
  <1>2. /\ e \in Expenses
        /\ expense'[e] = row /\ charged'[e] = c
        /\ \A f \in Expenses \ {e} : expense'[f] = expense[f] /\ charged'[f] = charged[f]
    BY <1>1 DEF TypeOK
  <1>3. ChargesMatchExpenses' /\ SharesCoverAmount'
    <2> HIDE DEF e
    <2> QED
      BY <1>1, <1>2 DEF ChargesMatchExpenses, SharesCoverAmount, Live
  <1>4. ASSUME NEW q \in Requests, q # r, req[q].pc # "idle"
        PROVE  req[q].id \in Expenses \ {e}
    BY <1>1, <1>4, OnlyEdit DEF TypeOK
  <1>5. req'[r] = Idle /\ \A q \in Requests \ {r} : req'[q] = req[q]
    BY <1>1 DEF Done, TypeOK
  <1>6. RequestsSeeTheRow'
    <2> SUFFICES ASSUME NEW q \in Requests, req'[q].pc # "idle"
                 PROVE  /\ q # r /\ req'[q] = req[q] /\ req[q].pc # "idle"
                        /\ expense'[req[q].id] = expense[req[q].id]
      BY <1>1 DEF RequestsSeeTheRow, Live, Seen
    <2>1. q # r /\ req'[q] = req[q]
      BY <1>5 DEF Idle
    <2> QED
      BY <2>1, <1>2, <1>4
  <1> QED
    BY <1>3, <1>6

LEMMA UpdateStep ==
  ASSUME SerialInv, NEW r \in Requests, Update(r)
  PROVE  RequestsSeeTheRow' /\ Reconciled' /\ ChargesMatchExpenses'
         /\ SharesCoverAmount'
  <1>0. TypeOK /\ RequestsSeeTheRow /\ Reconciled /\ ChargesMatchExpenses
        /\ SharesCoverAmount
    BY DEF SerialInv
  <1>1. ASSUME NEW u \in Members, NEW e \in Expenses,
               NEW a \in Amounts \cup {Absent}, NEW s \in Sources \cup {Absent},
               NEW resplit \in BOOLEAN, UpdateCheck(r, u, e, a, s, resplit)
        PROVE  RequestsSeeTheRow'
    <2> DEFINE splits == IF resplit \/ a # Absent THEN OrElse(a, expense[e].amount)
                                                  ELSE Absent
               patch == [amount |-> a, source |-> s, splits |-> splits]
               new == [pc |-> "update_checked", id |-> e, old |-> NoSnapshot,
                       patch |-> patch]
    <2>1. patch \in Patch
      BY <1>0, NewPatchType
    <2>2. new \in Request
      BY <2>1 DEF Request, Snapshot, NoSnapshot, Sources, Cents
    <2>3. /\ req' = [req EXCEPT ![r] = new] /\ Live(e)
          /\ UNCHANGED <<balance, ledger, charged, expense>>
      BY <1>1 DEF UpdateCheck
    <2>4. IF splits = Absent THEN a = Absent
                             ELSE splits = OrElse(a, expense[e].amount)
      BY FundAssumption DEF OrElse
    <2> HIDE DEF splits
    <2> QED
      BY <2>2, <2>3, <2>4, RequestStep
  <1>2. ASSUME UpdateRead(r) PROVE RequestsSeeTheRow'
    BY <1>2, DoneStep, AdvanceStep DEF UpdateRead
  <1>3. ASSUME UpdateRollback(r) PROVE RequestsSeeTheRow'
    BY <1>3, DoneStep DEF UpdateRollback
  <1>4. ASSUME UpdateCommit(r)
        PROVE  RequestsSeeTheRow' /\ Reconciled' /\ ChargesMatchExpenses'
               /\ SharesCoverAmount'
    <2> DEFINE e == req[r].id
               patch == req[r].patch
               old == req[r].old
               refund == FundPart(old.source, old.amount)
               part == NewPart(patch, old)
               row == UpdatedRow(expense[e], patch, old)
    <2>1. /\ e \in Expenses /\ patch \in Patch /\ old \in Snapshot
          /\ old.amount \in Nat /\ req[r].pc = "update_read" /\ expense[e] \in Row
      BY <1>0, <1>4, CentsType DEF UpdateCommit, TypeOK, Request, Snapshot
    <2>2. part \in Nat /\ refund \in Nat /\ row \in Row
      BY <2>1, CentsType, NewPartType, PartType, UpdatedRowType
    <2>3. Live(e) /\ old = Seen(e)
      BY <1>0, <2>1 DEF RequestsSeeTheRow
    <2>4. refund = charged[e]
      BY <1>0, <2>1, <2>3 DEF ChargesMatchExpenses, Seen
    <2>5. ChargeAfter(e, old, part) = part
      BY <2>2, <2>4 DEF ChargeAfter, FundPart
    <2>6. Reconciled'
      <3>1. /\ balance' = balance + refund - part
            /\ ledger' = [ledger EXCEPT !.EXPENSE = @ - refund + part]
        BY <1>4, <2>4, <2>5 DEF UpdateCommit
      <3> HIDE DEF refund, part
      <3> QED
        BY <3>1, <1>0, <2>2 DEF TypeOK, Reconciled, Account!Balanced
    <2>7. /\ row.status = "live"
          /\ row.amount = OrElse(patch.amount, old.amount)
          /\ row.source = OrElse(patch.source, old.source)
          /\ row.paid = PaidBy(row.source, row.amount)
      BY <2>1, <2>3 DEF UpdatedRow, Seen, Live, Row
    <2>8. row.owed = row.amount
      <3>1. row.owed = OrElse(patch.splits, expense[e].owed)
        BY <2>1 DEF UpdatedRow, Row
      <3>2. expense[e].owed = expense[e].amount
        BY <1>0, <2>1, <2>3 DEF SharesCoverAmount
      <3>3. IF patch.splits = Absent THEN patch.amount = Absent
            ELSE patch.splits = OrElse(patch.amount, expense[e].amount)
        BY <1>0, <2>1 DEF RequestsSeeTheRow
      <3> QED
        BY <3>1, <3>2, <3>3, <2>3, <2>7 DEF OrElse, Seen
    <2>9. part = FundPart(row.source, row.amount)
      BY <2>7 DEF NewPart
    <2>10. /\ expense' = [expense EXCEPT ![e] = row]
           /\ charged' = [charged EXCEPT ![e] = part]
           /\ req' = Done(r)
      BY <1>4, <2>5 DEF UpdateCommit
    <2> HIDE DEF row, part
    <2> QED
      BY <2>1, <2>2, <2>6, <2>7, <2>8, <2>9, <2>10, CommitStep
  <1>5. UpdateCommit(r) \/ UNCHANGED <<balance, ledger, charged, expense>>
    BY DEF Update, UpdateCheck, UpdateRead, UpdateRollback
  <1> QED
    BY <1>1, <1>2, <1>3, <1>4, <1>5, FundUntouched DEF Update

LEMMA DeleteStep ==
  ASSUME SerialInv, NEW r \in Requests, Delete(r)
  PROVE  RequestsSeeTheRow' /\ Reconciled' /\ ChargesMatchExpenses'
         /\ SharesCoverAmount'
  <1>0. TypeOK /\ RequestsSeeTheRow /\ Reconciled /\ ChargesMatchExpenses
    BY DEF SerialInv
  <1>1. ASSUME NEW u \in Members, NEW e \in Expenses, DeleteCheck(r, u, e)
        PROVE  RequestsSeeTheRow'
    <2> DEFINE new == [pc |-> "delete_checked", id |-> e, patch |-> NoPatch,
                       old |-> NoSnapshot]
    <2>1. new \in Request
      BY DEF Request, NoPatch, Patch, Snapshot, NoSnapshot, Sources, Cents
    <2> QED
      BY <1>1, <2>1, RequestStep DEF DeleteCheck
  <1>2. ASSUME DeleteRead(r) PROVE RequestsSeeTheRow'
    BY <1>2, DoneStep, AdvanceStep DEF DeleteRead
  <1>3. ASSUME DeleteCommit(r)
        PROVE  RequestsSeeTheRow' /\ Reconciled' /\ ChargesMatchExpenses'
               /\ SharesCoverAmount'
    <2> DEFINE e == req[r].id
               old == req[r].old
               refund == FundPart(old.source, old.amount)
               row == [expense[e] EXCEPT !.status = "deleted"]
    <2>1. /\ e \in Expenses /\ old.amount \in Nat /\ req[r].pc = "delete_read"
          /\ expense[e] \in Row
      BY <1>0, <1>3, CentsType DEF DeleteCommit, TypeOK, Request, Snapshot
    <2>2. refund \in Nat /\ row \in Row /\ row.status = "deleted"
      BY <2>1, PartType DEF Row
    <2>3. Live(e) /\ old = Seen(e)
      BY <1>0, <2>1 DEF RequestsSeeTheRow
    <2>4. refund = charged[e]
      BY <1>0, <2>1, <2>3 DEF ChargesMatchExpenses, Seen
    <2>5. ChargeAfter(e, old, 0) = 0
      BY <2>4 DEF ChargeAfter, FundPart
    <2>6. Reconciled'
      <3>1. /\ balance' = balance + refund
            /\ ledger' = [ledger EXCEPT !.EXPENSE = @ - refund + 0]
        BY <1>3, <2>4, <2>5 DEF DeleteCommit
      <3> HIDE DEF refund
      <3> QED
        BY <3>1, <1>0, <2>2 DEF TypeOK, Reconciled, Account!Balanced
    <2>7. /\ expense' = [expense EXCEPT ![e] = row]
          /\ charged' = [charged EXCEPT ![e] = 0]
          /\ req' = Done(r)
      <3>1. expense' = [expense EXCEPT ![e] = [@ EXCEPT !.status = "deleted"]]
        BY <1>3 DEF DeleteCommit
      <3> QED
        BY <1>3, <2>5, <3>1 DEF DeleteCommit
    <2> HIDE DEF row
    <2> QED
      BY <2>1, <2>2, <2>6, <2>7, CommitStep
  <1>4. DeleteCommit(r) \/ UNCHANGED <<balance, ledger, charged, expense>>
    BY DEF Delete, DeleteCheck, DeleteRead, DeleteRollback
  <1>5. ASSUME DeleteRollback(r) PROVE RequestsSeeTheRow'
    BY <1>5, DoneStep DEF DeleteRollback
  <1> QED
    BY <1>1, <1>2, <1>3, <1>4, <1>5, FundUntouched DEF Delete

LEMMA NextSerial == SerialInv /\ [SerialNext]_vars => SerialInv'
  <1> SUFFICES ASSUME SerialInv, [SerialNext]_vars PROVE SerialInv'
    OBVIOUS
  <1>1. TypeOK'
    BY NextType DEF SerialInv, SerialNext
  <1>2. EditsDoNotOverlap'
    BY DEF SerialInv, SerialNext, EditsDoNotOverlap, vars
  <1>3. RequestsSeeTheRow' /\ Reconciled' /\ ChargesMatchExpenses'
        /\ SharesCoverAmount'
    <2>1. CASE Money
      BY <2>1, MoneyStep DEF Money
    <2>2. CASE Create
      BY <2>2, CreateStep DEF Create
    <2>3. CASE \E r \in Requests : Update(r) \/ Delete(r)
      BY <2>3, UpdateStep, DeleteStep
    <2>4. CASE ServerCrash
      <3>1. RequestsSeeTheRow'
        BY <2>4 DEF ServerCrash, RequestsSeeTheRow, Idle
      <3> QED
        BY <2>4, <3>1, FundUntouched DEF ServerCrash
    <2>5. CASE UNCHANGED vars
      <3>1. RequestsSeeTheRow'
        BY <2>5 DEF vars, SerialInv, RequestsSeeTheRow, Live, Seen
      <3> QED
        BY <2>5, <3>1, FundUntouched DEF vars
    <2> QED
      BY <2>1, <2>2, <2>3, <2>4, <2>5 DEF SerialNext, Next
  <1> QED
    BY <1>1, <1>2, <1>3 DEF SerialInv

LEMMA SerialInvariant == SerialSpec => []SerialInv
  BY InitSerial, NextSerial, PTL DEF SerialSpec

\* The balance of the fund is what its ledger adds up to, for any number of
\* members, expenses, amounts and concurrent requests, as long as no two edits
\* of one expense overlap.
THEOREM FundReconciles == SerialSpec => []Reconciled
  <1>1. SerialInv => Reconciled
    BY DEF SerialInv
  <1> QED
    BY <1>1, SerialInvariant, PTL

\* Under the same condition the ledger charges exactly the live expenses paid
\* from the fund, each its current amount.
THEOREM LedgerMatchesExpenses == SerialSpec => []ChargesMatchExpenses
  <1>1. SerialInv => ChargesMatchExpenses
    BY DEF SerialInv
  <1> QED
    BY <1>1, SerialInvariant, PTL

\* Under the same condition every live expense is paid and split in full.
THEOREM SharesAlwaysCover == SerialSpec => []SharesCoverAmount
  <1>1. SerialInv => SharesCoverAmount
    BY DEF SerialInv
  <1> QED
    BY <1>1, SerialInvariant, PTL
-----------------------------------------------------------------------------
(***************************************************************************)
(* GroupFund implements FundAccount when edits do not overlap.             *)
(***************************************************************************)

LEMMA InitAccount == Init => Account!AccountInit
  BY DEF Init, Account!AccountInit

\* The values a Recharge of expense e to c gives the account.
LEMMA IsRecharge ==
  ASSUME NEW e \in Expenses, NEW c \in Cents, TypeOK,
         balance + charged[e] >= c,
         balance' = balance + charged[e] - c,
         charged' = [charged EXCEPT ![e] = c],
         ledger' = [ledger EXCEPT !.EXPENSE = @ - charged[e] + c]
  PROVE  Account!AccountNext
  <1>1. Account!Recharge(e, c)
    BY DEF Account!Recharge
  <1> QED
    BY <1>1 DEF Account!AccountNext, Cents

LEMMA MoneyAccount ==
  ASSUME SerialInv, NEW u \in Members, NEW a \in Amounts,
         Contribute(u, a) \/ Withdraw(u, a)
  PROVE  Account!AccountNext
  BY DEF Contribute, Withdraw, Account!AccountNext, Account!Deposit, Account!Payout

LEMMA CreateAccount ==
  ASSUME SerialInv, NEW u \in Members, NEW e \in Expenses, NEW s \in Sources,
         NEW a \in Amounts, CreateExpense(u, e, s, a)
  PROVE  Account!AccountNext
  <1> DEFINE part == FundPart(s, a)
  <1>1. part \in Cents /\ part \in Nat
    BY CentsType DEF FundPart, Cents
  <1>2. TypeOK /\ charged[e] = 0
    BY DEF SerialInv, CreateExpense, ChargesMatchExpenses, Live
  <1>3. /\ balance + 0 >= part /\ balance' = balance - part
        /\ charged' = [charged EXCEPT ![e] = @ + part]
        /\ ledger' = [ledger EXCEPT !.EXPENSE = @ + part]
    BY DEF CreateExpense, Covers
  <1> HIDE DEF part
  <1>4. /\ charged[e] + part = part
        /\ ledger.EXPENSE - charged[e] + part = ledger.EXPENSE + part
        /\ balance + charged[e] = balance + 0 /\ balance + 0 = balance
    BY <1>1, <1>2 DEF TypeOK
  <1>5. /\ charged' = [charged EXCEPT ![e] = part]
        /\ ledger' = [ledger EXCEPT !.EXPENSE = @ - charged[e] + part]
    BY <1>3, <1>4
  <1>6. /\ balance + charged[e] >= part
        /\ balance' = balance + charged[e] - part
    BY <1>1, <1>2, <1>3 DEF TypeOK
  <1> QED
    BY <1>1, <1>2, <1>5, <1>6, IsRecharge

\* A commit of an edit is one Recharge of its expense.
LEMMA EditAccount ==
  ASSUME SerialInv, BalanceNonNegative, NEW r \in Requests, Update(r) \/ Delete(r)
  PROVE  Account!AccountNext \/ UNCHANGED Account!accountVars
  <1>0. TypeOK /\ RequestsSeeTheRow /\ ChargesMatchExpenses
    BY DEF SerialInv
  <1> DEFINE e == req[r].id
             old == req[r].old
             refund == FundPart(old.source, old.amount)
  <1>1. ASSUME req[r].pc \in {"update_read", "delete_read"}
        PROVE  /\ e \in Expenses /\ req[r].patch \in Patch /\ old \in Snapshot
               /\ refund \in Nat /\ refund = charged[e]
    <2>1. /\ e \in Expenses /\ req[r].patch \in Patch /\ old \in Snapshot
          /\ old.amount \in Nat
      BY <1>0, <1>1, CentsType DEF TypeOK, Request, Snapshot
    <2>2. Live(e) /\ old = Seen(e)
      BY <1>0, <1>1 DEF RequestsSeeTheRow
    <2> QED
      BY <1>0, <2>1, <2>2, PartType DEF ChargesMatchExpenses, Seen
  <1>2. ASSUME UpdateCommit(r) PROVE Account!AccountNext
    <2> DEFINE part == NewPart(req[r].patch, old)
    <2>1. req[r].pc = "update_read"
      BY <1>2 DEF UpdateCommit
    <2>2. part \in Cents /\ part \in Nat
      BY <1>1, <2>1, NewPartType, CentsType
    <2>3. ChargeAfter(e, old, part) = part
      BY <1>1, <2>1, <2>2 DEF ChargeAfter, FundPart
    <2>4. /\ balance + refund >= part /\ balance' = balance + refund - part
          /\ charged' = [charged EXCEPT ![e] = part]
          /\ ledger' = [ledger EXCEPT !.EXPENSE = @ - charged[e] + part]
      BY <1>2, <2>3 DEF UpdateCommit, Covers
    <2> HIDE DEF part
    <2> QED
      BY <1>0, <1>1, <2>1, <2>2, <2>4, IsRecharge
  <1>3. ASSUME DeleteCommit(r) PROVE Account!AccountNext
    <2>1. req[r].pc = "delete_read"
      BY <1>3 DEF DeleteCommit
    <2>2. ChargeAfter(e, old, 0) = 0
      BY <1>1, <2>1 DEF ChargeAfter, FundPart
    <2>3. /\ balance' = balance + refund
          /\ charged' = [charged EXCEPT ![e] = 0]
          /\ ledger' = [ledger EXCEPT !.EXPENSE = @ - charged[e] + 0]
      BY <1>3, <2>2 DEF DeleteCommit
    <2>4. balance + charged[e] >= 0 /\ balance' = balance + charged[e] - 0
      BY <1>0, <1>1, <2>1, <2>3 DEF BalanceNonNegative, TypeOK
    <2> QED
      BY <1>0, <1>1, <2>1, <2>3, <2>4, IsRecharge DEF Cents
  <1>4. UpdateCommit(r) \/ DeleteCommit(r) \/ UNCHANGED <<balance, ledger, charged>>
    BY DEF Update, UpdateCheck, UpdateRead, UpdateRollback,
           Delete, DeleteCheck, DeleteRead, DeleteRollback
  <1> QED
    BY <1>2, <1>3, <1>4 DEF Account!accountVars

LEMMA StepAccount ==
  SerialInv /\ BalanceNonNegative /\ [SerialNext]_vars
    => [Account!AccountNext]_(Account!accountVars)
  <1> SUFFICES ASSUME SerialInv, BalanceNonNegative, [SerialNext]_vars
               PROVE  Account!AccountNext \/ UNCHANGED Account!accountVars
    OBVIOUS
  <1>1. CASE Money
    BY <1>1, MoneyAccount DEF Money
  <1>2. CASE Create
    BY <1>2, CreateAccount DEF Create
  <1>3. CASE \E r \in Requests : Update(r) \/ Delete(r)
    BY <1>3, EditAccount
  <1>4. CASE ServerCrash \/ UNCHANGED vars
    BY <1>4 DEF ServerCrash, vars, Account!accountVars
  <1> QED
    BY <1>1, <1>2, <1>3, <1>4 DEF SerialNext, Next

\* With edits of one expense made one after the other, everything the fund
\* does is what an account may do: deposit, pay out what it holds, or replace
\* the charge of one expense.
THEOREM FundIsAccount == SerialSpec => AccountRefined
  <1>1. SerialSpec => Spec
    <2>1. [SerialNext]_vars => [Next]_vars
      BY DEF SerialNext
    <2> QED
      BY <2>1, PTL DEF SerialSpec, Spec
  <1>2. SerialSpec => []BalanceNonNegative
    BY <1>1, NeverOverdrawn, PTL
  <1> QED
    BY <1>2, InitAccount, StepAccount, SerialInvariant, PTL
       DEF SerialSpec, AccountRefined, Account!AccountSpec
=============================================================================
