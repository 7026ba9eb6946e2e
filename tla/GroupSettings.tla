--------------------------- MODULE GroupSettings ---------------------------
(***************************************************************************)
(* The settings of one group: its currency and the dates of its trip       *)
(* (groups.service updateGroup, groups.repository update).                 *)
(*                                                                         *)
(* An update reads the group, may count what was ever paid in it, decides, *)
(* and then writes the columns it was given.  None of these share a        *)
(* transaction, so money may be recorded, expenses deleted, and other      *)
(* updates may write, in between.  Requests of users who are no owner end  *)
(* at the read and are left out; who is one is the matter of Membership.   *)
(***************************************************************************)
EXTENDS Integers, FiniteSets

CONSTANTS Requests,       \* updates the server has in flight
          Currencies,
          Dates,
          Patches,        \* the bodies updates are sent with
          None,           \* a column that is null
          Absent          \* a field the body does not have

ASSUME DatesAssumption == Dates \subseteq Int /\ None \notin Dates /\ Absent \notin Dates
ASSUME CurrenciesAssumption == None \notin Currencies /\ Absent \notin Currencies
ASSUME SentinelAssumption == None # Absent

\* UpdateGroupDto: an absent field leaves its column alone, null clears a date.
Patch == [currency : Currencies \cup {Absent},
          startDate : Dates \cup {None, Absent}, endDate : Dates \cup {None, Absent}]

ASSUME PatchesAssumption == Patches \subseteq Patch

VARIABLES group,          \* the row of the group
          money,          \* the kinds of transactions the group has rows of that count
          req             \* updates in flight

vars == <<group, money, req>>

Kinds == {"expense", "settlement", "fundTransaction"}
Columns == {"currency", "dates"}

Group == [currency : Currencies, startDate : Dates \cup {None},
          endDate : Dates \cup {None}, deleted : BOOLEAN]

\* What an update goes by: its body, the kinds it counted to zero, and, for the
\* properties, the kinds of which there was at some moment since it read the group
\* no row, and the columns others wrote since.
Idle == [op |-> "idle"]
InFlight == [op : {"count", "write"}, dto : Patches, counted : SUBSET Kinds,
             absent : SUBSET Kinds, missed : SUBSET Columns]

TypeOK ==
    /\ group \in Group
    /\ money \in SUBSET Kinds
    /\ req \in [Requests -> {Idle} \cup InFlight]

\* The check of updateGroup, and of the DTO on the two dates it is given.
DatesInOrder(g) ==
    g.startDate # None /\ g.endDate # None => g.startDate < g.endDate

Init ==
    /\ group \in {g \in Group : ~g.deleted /\ DatesInOrder(g)}
    /\ money = {}
    /\ req = [r \in Requests |-> Idle]
-----------------------------------------------------------------------------
OrElse(field, column) == IF field = Absent THEN column ELSE field

\* Slip: the dates are compared only when the body has both.
Patched_BodyOnly(dto, g) ==
    [g EXCEPT !.startDate = OrElse(dto.startDate, None),
              !.endDate = OrElse(dto.endDate, None)]

\* nextStartDate and nextEndDate: what the dates are going to be.
Patched(dto, g) ==
    [g EXCEPT !.startDate = OrElse(dto.startDate, @), !.endDate = OrElse(dto.endDate, @)]

\* The columns repository.update sends: those that are not undefined.
Written(dto, g) ==
    [g EXCEPT !.currency = OrElse(dto.currency, @),
              !.startDate = OrElse(dto.startDate, @), !.endDate = OrElse(dto.endDate, @)]

Changed(g, h) ==
    {c \in Columns : \/ c = "currency" /\ g.currency # h.currency
                     \/ c = "dates" /\ <<g.startDate, g.endDate>> # <<h.startDate, h.endDate>>}

\* updateGroup up to its first count.  A body that would put the dates out of
\* order is refused whatever the counts say.  Only another currency is counted for.
UpdateRead(r, dto) ==
    /\ req[r] = Idle
    /\ ~group.deleted
    /\ DatesInOrder(Patched(dto, group))
    /\ req' = [req EXCEPT ![r] =
                 [op |-> IF dto.currency \in {Absent, group.currency} THEN "write" ELSE "count",
                  dto |-> dto, counted |-> {}, absent |-> Kinds \ money, missed |-> {}]]
    /\ UNCHANGED <<group, money>>

\* Slip: contributions and withdrawals are not counted.
CountedAll_NoFund(counted) == Kinds \ {"fundTransaction"} \subseteq counted

CountedAll(counted) == counted = Kinds

\* hasFinancialTransactions: three counts at once; the soft-delete extension leaves
\* deleted expenses out of theirs.  One that is not zero refuses the update.
Count(r, k) ==
    /\ req[r].op = "count"
    /\ k \notin req[r].counted
    /\ LET counted == req[r].counted \cup {k}
       IN  req' = [req EXCEPT ![r] = IF k \in money THEN Idle
                                     ELSE [@ EXCEPT !.op = IF CountedAll(counted) THEN "write" ELSE "count",
                                                    !.counted = counted]]
    /\ UNCHANGED <<group, money>>

\* groupsRepository.update by id: the row may have been deleted, or written by
\* others, since it was read.
UpdateWrite(r) ==
    /\ req[r].op = "write"
    /\ group' = Written(req[r].dto, group)
    /\ req' = [q \in Requests |->
                 IF q = r \/ req[q] = Idle THEN Idle
                 ELSE [req[q] EXCEPT !.missed = @ \cup Changed(group, group')]]
    /\ UNCHANGED money

\* A statement of an update fails.
UpdateFails(r) ==
    /\ req[r] # Idle
    /\ req' = [req EXCEPT ![r] = Idle]
    /\ UNCHANGED <<group, money>>

\* createExpense, requestSettlement, or a contribution or withdrawal commits.  They
\* look at the group before; none looks at its currency.
RecordMoney(k) ==
    /\ money' = money \cup {k}
    /\ UNCHANGED <<group, req>>

\* softDelete of the last expense there is.  With it, as with an update, goes the
\* expense's row of fund_transactions, but never the last of those: a fund is only
\* charged what contributions put into it, and contributions stay, as settlements do.
DeleteExpenses ==
    /\ "expense" \in money
    /\ money' = money \ {"expense"}
    /\ req' = [r \in Requests |-> IF req[r] = Idle THEN Idle
                                  ELSE [req[r] EXCEPT !.absent = @ \cup {"expense"}]]
    /\ UNCHANGED group

deleteGroup ==
    /\ ~group.deleted
    /\ group' = [group EXCEPT !.deleted = TRUE]
    /\ UNCHANGED <<money, req>>

ServerCrash ==
    /\ req' = [r \in Requests |-> Idle]
    /\ UNCHANGED <<group, money>>

Next ==
    \/ \E r \in Requests :
         \/ \E dto \in Patches : UpdateRead(r, dto)
         \/ \E k \in Kinds : Count(r, k)
         \/ UpdateWrite(r)
         \/ UpdateFails(r)
    \/ \E k \in Kinds : RecordMoney(k)
    \/ DeleteExpenses
    \/ deleteGroup
    \/ ServerCrash

Spec == Init /\ [][Next]_vars
-----------------------------------------------------------------------------
\* Update r ends in this step, as only its write does when the row changes.
Ends(r) == req[r].op = "write" /\ req'[r] = Idle

\* While a group has transactions, amounts mean what its currency says.  A currency
\* is then only changed by an update during which none of the kinds of rows there are
\* was there all the time (what is recorded behind the update's counts is not seen,
\* nor is an expense deleted before them), or that compared its currency with one
\* another update replaced.
CurrencyKept ==
    [][ group'.currency # group.currency /\ money # {} =>
          \E r \in Requests :
            Ends(r) /\ (money \subseteq req[r].absent \/ "currency" \in req[r].missed) ]_vars

\* Updates that each change one date of the trip leave its start before its end,
\* whatever was recorded or deleted meanwhile, unless one wrote between the read and
\* the write of another.
DatesStayOrdered ==
    [][ "dates" \in Changed(group, group') =>
          \/ DatesInOrder(group')
          \/ \E r \in Requests : Ends(r) /\ "dates" \in req[r].missed ]_vars

(***************************************************************************)
(* The inductive invariant behind both: what a request in flight may still *)
(* rely on.                                                                *)
(***************************************************************************)

\* A kind of which there were rows ever since a request read the group is still to
\* be counted by it, and the request is not going to change the currency it read.
CurrencyDecided ==
    \A r \in Requests, k \in Kinds :
      req[r] # Idle /\ k \notin req[r].absent =>
        /\ k \in money /\ k \notin req[r].counted
        /\ req[r].op = "write" /\ "currency" \notin req[r].missed =>
             req[r].dto.currency \in {Absent, group.currency}

\* What a request checked of the dates still holds while nobody wrote them.
DatesDecided ==
    \A r \in Requests :
      req[r] # Idle /\ "dates" \notin req[r].missed => DatesInOrder(Patched(req[r].dto, group))

SettingsInv == TypeOK /\ CurrencyDecided /\ DatesDecided
=============================================================================
