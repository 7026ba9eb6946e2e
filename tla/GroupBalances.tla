--------------------------- MODULE GroupBalances ---------------------------
(***************************************************************************)
(* What the members of a group owe each other, and the copy of it in the   *)
(* cache (expenses.service getGroupBalance, settlements.service,           *)
(* cache.service).                                                         *)
(*                                                                         *)
(* A write changes the tables and then deletes the cached balances; a read *)
(* that finds none queries the tables and then stores what it found.  Both *)
(* are two steps, and nothing orders those of one request and another.  A  *)
(* user who joins the group gets a row in the query and deletes nothing.   *)
(*                                                                         *)
(* Amounts are in whole cents: what a payer is given and what is split are *)
(* then the same (SplitsAddUp of ExpenseSplitter), but for an edit of an   *)
(* expense that overlaps another, which may write the payers of one amount *)
(* and leave the splits of another (GroupFund has its reads and writes).   *)
(***************************************************************************)
EXTENDS Integers, FiniteSets, Functions

CONSTANTS Users,          \* the users of the service
          Expenses,       \* identifiers of expenses rows
          Settlements,    \* identifiers of settlements rows
          Amounts,        \* amounts of requests, in cents
          MaxSpent,       \* bound on what expenses make anybody owe
          Requests,       \* requests the server has in flight
          Empty           \* nothing cached, no user, no expense

ASSUME BalancesAssumption ==
    /\ IsFiniteSet(Users) /\ IsFiniteSet(Settlements)
    /\ Amounts \subseteq Nat \ {0}
    /\ Empty \notin Users \cup Expenses
    /\ \A S \in SUBSET Users : Empty \notin [S -> Int]

VARIABLES joined,         \* users with a row in group_members: members, past ones too
          expense,        \* the expenses of the group: which exist
          spent,          \* paid less owed, over those that are PERSONAL
          settlement,     \* the settlements table
          cache,          \* the entry group:<id>:settlement
          req,            \* requests in flight
          uneven,         \* an edit missed another write of its expense (for the properties)
          doubtful        \* what is cached, or about to be, may be stale (for the properties)

tables == <<joined, expense, spent, settlement>>

vars == <<tables, cache, req, uneven, doubtful>>

Row == [status : {"none", "PENDING", "COMPLETED", "CANCELLED"},
        from : Users \cup {Empty}, to : Users \cup {Empty}, amount : Amounts \cup {0}]

NoRow == [status |-> "none", from |-> Empty, to |-> Empty, amount |-> 0]

\* What getGroupBalance returns, and what is cached of it.
IsCopy(c) == \E S \in SUBSET Users : c \in [S -> Int]

\* An edit has read its expense and then writes; a write invalidates at its end; a
\* read that missed queries and then fills.
Request(copies) == [op : {"idle", "edit", "invalidate", "query", "fill"},
                    expense : Expenses \cup {Empty}, crossed : BOOLEAN, value : copies]

Idle == [op |-> "idle", expense |-> Empty, crossed |-> FALSE, value |-> Empty]

TypeOK ==
    /\ joined \subseteq Users
    /\ expense \in [Expenses -> {"none", "live", "deleted"}]
    /\ spent \in [Users -> Int]
    /\ settlement \in [Settlements -> Row]
    /\ cache = Empty \/ IsCopy(cache)
    /\ req = [r \in Requests |-> req[r]]
    /\ \A r \in Requests :
         /\ req[r] \in Request({req[r].value})
         /\ IF req[r].op = "fill" THEN IsCopy(req[r].value) ELSE req[r].value = Empty
    /\ uneven \in BOOLEAN
    /\ doubtful \in BOOLEAN

\* createGroup: the creator is the one member.
Init ==
    /\ \E creator \in Users : joined = {creator}
    /\ expense = [e \in Expenses |-> "none"]
    /\ spent = [u \in Users |-> 0]
    /\ settlement = [s \in Settlements |-> NoRow]
    /\ cache = Empty
    /\ req = [r \in Requests |-> Idle]
    /\ uneven = FALSE
    /\ doubtful = FALSE
-----------------------------------------------------------------------------
\* The amount of a row of the settlements table if the row is one of those that count.
AmountIf(row, counts) == IF counts THEN row.amount ELSE 0

\* Slip: what was asked for counts as paid.
PaidBy_Asked(st, m) ==
    SumFunction([s \in Settlements |->
        AmountIf(st[s], st[s].status \in {"PENDING", "COMPLETED"} /\ st[s].from = m)])

\* What m paid, and was paid, by the COMPLETED rows of the settlements table st.
PaidBy(st, m) ==
    SumFunction([s \in Settlements |->
        AmountIf(st[s], st[s].status = "COMPLETED" /\ st[s].from = m)])

PaidTo(st, m) ==
    SumFunction([s \in Settlements |->
        AmountIf(st[s], st[s].status = "COMPLETED" /\ st[s].to = m)])

\* getGroupBalance: one row for each row of group_members, past members' too.
getGroupBalance(who, sp, st) == [m \in who |-> sp[m] + PaidBy(st, m) - PaidTo(st, m)]

Balances == getGroupBalance(joined, spent, settlement)

InFlight(op, value) == [op |-> op, expense |-> Empty, crossed |-> FALSE, value |-> value]

Start(r, op) ==
    /\ req[r].op = "idle"
    /\ req' = [req EXCEPT ![r] = InFlight(op, Empty)]

Finish(r) == req' = [req EXCEPT ![r] = Idle]

(***************************************************************************)
(* Writes.                                                                 *)
(***************************************************************************)

\* addMember and acceptInvitation add a row, which is never removed; the balances
\* stay cached.
Join(u) ==
    /\ u \notin joined
    /\ joined' = joined \cup {u}
    /\ UNCHANGED <<expense, spent, settlement, cache, req>>

\* The payer's rows change by a and a sharer's by b; the two may be the same user.
Moved(payer, sharer, a, b) ==
    /\ {payer, sharer} \subseteq joined
    /\ spent' = [u \in Users |-> spent[u] + (IF u = payer THEN a ELSE 0)
                                          - (IF u = sharer THEN b ELSE 0)]
    /\ \A u \in {payer, sharer} : spent'[u] \in (-MaxSpent)..MaxSpent
    /\ UNCHANGED <<joined, settlement, cache>>

CreateExpense(r, e, payer, sharer, a) ==
    /\ expense[e] = "none"
    /\ Start(r, "invalidate")
    /\ Moved(payer, sharer, a, a)
    /\ expense' = [expense EXCEPT ![e] = "live"]

\* updateExpense reads the expense, and its repository once more, before it writes.
EditRead(r, e) ==
    /\ expense[e] = "live"
    /\ req[r].op = "idle"
    /\ req' = [req EXCEPT ![r] = [InFlight("edit", Empty) EXCEPT !.expense = e]]
    /\ UNCHANGED <<tables, cache>>

\* Request r has written expense e, and the edits in flight had read it before.
Wrote(r, e) ==
    req' = [q \in Requests |->
              IF q = r THEN InFlight("invalidate", Empty)
              ELSE IF req[q].op = "edit" /\ req[q].expense = e
                   THEN [req[q] EXCEPT !.crossed = TRUE] ELSE req[q]]

Changes == {0} \cup Amounts \cup {-a : a \in Amounts}

\* One transaction: payers, and splits unless it leaves those as they are.
EditCommit(r, payer, sharer, a, b) ==
    /\ req[r].op = "edit"
    /\ a # b => req[r].crossed \/ uneven
    /\ expense[req[r].expense] = "deleted" => a = 0 /\ b = 0
    /\ Moved(payer, sharer, a, b)
    /\ Wrote(r, req[r].expense)
    /\ UNCHANGED expense

\* Refused, or rolled back.
EditFails(r) ==
    /\ req[r].op = "edit"
    /\ Finish(r)
    /\ UNCHANGED <<tables, cache>>

\* softDelete: the query no longer counts its payers and splits.
DeleteExpense(r, e, payer, sharer, a, b) ==
    /\ expense[e] = "live"
    /\ req[r].op = "idle"
    /\ a # b => uneven
    /\ Moved(payer, sharer, a, b)
    /\ Wrote(r, e)
    /\ expense' = [expense EXCEPT ![e] = "deleted"]

\* requestSettlement looks at the payer's membership only.
RequestSettlement(r, s, payer, payee, a) ==
    /\ payer \in joined
    /\ payer # payee
    /\ settlement[s].status = "none"
    /\ Start(r, "invalidate")
    /\ settlement' = [settlement EXCEPT ![s] =
                        [status |-> "PENDING", from |-> payer, to |-> payee, amount |-> a]]
    /\ UNCHANGED <<joined, expense, spent, cache>>

\* Slip: the cached balances are kept.
CompleteSettlement_NoDel(r, s, u) ==
    /\ settlement[s].status # "none"
    /\ settlement[s].to = u
    /\ req[r].op = "idle"
    /\ settlement' = [settlement EXCEPT ![s].status = "COMPLETED"]
    /\ UNCHANGED <<joined, expense, spent, cache, req>>

\* By the payee, whatever the status.  The check reads only what never changes.
CompleteSettlement(r, s, u) ==
    /\ settlement[s].status # "none"
    /\ settlement[s].to = u
    /\ Start(r, "invalidate")
    /\ settlement' = [settlement EXCEPT ![s].status = "COMPLETED"]
    /\ UNCHANGED <<joined, expense, spent, cache>>

\* By the payer, whatever the status.
CancelSettlement(r, s, u) ==
    /\ settlement[s].status # "none"
    /\ settlement[s].from = u
    /\ Start(r, "invalidate")
    /\ settlement' = [settlement EXCEPT ![s].status = "CANCELLED"]
    /\ UNCHANGED <<joined, expense, spent, cache>>

\* The last step of every write.
Invalidate(r) ==
    /\ req[r].op = "invalidate"
    /\ cache' = Empty
    /\ Finish(r)
    /\ UNCHANGED tables

\* The answer to the commit is lost, or findFirstOrThrow after it fails: the request
\* ends there.
InvalidateSkipped(r) ==
    /\ req[r].op = "invalidate"
    /\ Finish(r)
    /\ UNCHANGED <<tables, cache>>

(***************************************************************************)
(* The cache.                                                              *)
(***************************************************************************)

\* getOrSet; a read that finds the entry returns it and changes nothing.
ReadMiss(r) ==
    /\ cache = Empty
    /\ Start(r, "query")
    /\ UNCHANGED <<tables, cache>>

Query(r) ==
    /\ req[r].op = "query"
    /\ req' = [req EXCEPT ![r] = InFlight("fill", Balances)]
    /\ UNCHANGED <<tables, cache>>

Fill(r) ==
    /\ req[r].op = "fill"
    /\ cache' = req[r].value
    /\ Finish(r)
    /\ UNCHANGED tables

\* The query fails.
ReadFails(r) ==
    /\ req[r].op = "query"
    /\ Finish(r)
    /\ UNCHANGED <<tables, cache>>

\* The entry lives 120 seconds.
Expire ==
    /\ cache # Empty
    /\ cache' = Empty
    /\ UNCHANGED <<tables, req>>

\* The cache is in the memory of the process.
ServerCrash ==
    /\ cache # Empty \/ \E r \in Requests : req[r].op # "idle"
    /\ cache' = Empty
    /\ req' = [r \in Requests |-> Idle]
    /\ UNCHANGED tables

ExpenseWrite(r) ==
    \E p, q \in joined :
      \/ \E e \in Expenses, a \in Amounts : CreateExpense(r, e, p, q, a)
      \/ \E a, b \in Changes :
           \/ EditCommit(r, p, q, a, b)
           \/ \E e \in Expenses : DeleteExpense(r, e, p, q, a, b)

SettlementWrite(r) ==
    \E s \in Settlements, u \in Users :
      \/ \E p \in Users, a \in Amounts : RequestSettlement(r, s, p, u, a)
      \/ CompleteSettlement(r, s, u)
      \/ CancelSettlement(r, s, u)

Edit(r) == (\E e \in Expenses : EditRead(r, e)) \/ EditFails(r)

End(r) == Invalidate(r) \/ InvalidateSkipped(r)

Read(r) == ReadMiss(r) \/ Query(r) \/ Fill(r) \/ ReadFails(r)

Steps ==
    \/ \E u \in Users : Join(u)
    \/ \E r \in Requests :
         ExpenseWrite(r) \/ SettlementWrite(r) \/ Edit(r) \/ End(r) \/ Read(r)
    \/ Expire
    \/ ServerCrash

\* A read has queried and has not stored what it found.
ReadInFlight == \E r \in Requests : req[r].op = "fill"

\* An edit is committed that missed another write of its expense.
MissedWrite ==
    \E r \in Requests : req[r].op = "edit" /\ req[r].crossed /\ req'[r].op = "invalidate"

\* Doubt begins with a change of the money under a read, or with an entry that is not
\* deleted after a write, and is over when nothing is cached and no read is about to
\* store anything.
Recorded ==
    /\ uneven' = (uneven \/ MissedWrite)
    /\ doubtful' = \/ ReadInFlight /\ <<spent, settlement>>' # <<spent, settlement>>
                   \/ cache # Empty /\ \E r \in Requests : InvalidateSkipped(r)
                   \/ doubtful /\ ~(cache' = Empty /\ ~ReadInFlight')

Next == Steps /\ Recorded

Spec == Init /\ [][Next]_vars
-----------------------------------------------------------------------------
\* The balances of the members sum to what was paid to users who are not members,
\* which nobody's balance shows (to zero when nobody paid such a user), whatever is
\* spent, edited, settled and cancelled and whoever joins in between, as long as no
\* edit was committed that had missed another write of its expense.
BalancesSum ==
    ~uneven =>
      SumFunction(Balances) = SumFunction([u \in Users \ joined |-> PaidTo(settlement, u)])

\* No write is between its tables and its '// Invalidate cache'.
AllInvalidated == \A r \in Requests : req[r].op # "invalidate"

\* What a copy says of a member is what the tables say; who joined since it was
\* queried is not in it.
Current(copy) ==
    /\ DOMAIN copy \subseteq joined
    /\ \A m \in DOMAIN copy : copy[m] = Balances[m]

\* After the writes invalidated, the cached balances are those of the tables for
\* everybody in them, however many joined since.  They are stale only when the money
\* changed between the query of a read and its store or a write failed after its
\* commit, and then only until the entry is next deleted or expires with no such read
\* under way.
CacheIsCurrent == AllInvalidated /\ ~doubtful /\ cache # Empty => Current(cache)

\* The inductive invariant behind CacheIsCurrent: what a read is about to store is
\* current, and so is what is cached, or a write is about to delete it.
FillsAreCurrent == \A r \in Requests : req[r].op = "fill" => Current(req[r].value)

CachedOrDoomed == cache = Empty \/ Current(cache) \/ ~AllInvalidated

BalancesInv == TypeOK /\ (~doubtful => FillsAreCurrent /\ CachedOrDoomed)
=============================================================================
