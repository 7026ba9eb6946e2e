# Verification of the Nexora backend

Nexora plans group trips: groups of users keep a fund, record expenses and settle what they owe,
plan itineraries with an AI model, and talk. The backend is a NestJS application over PostgreSQL
(through Prisma); this directory holds TLA+ models of its core logic, TLC configurations that check
them on small instances, and TLAPS proofs of the properties that matter most.

Paths below are relative to the application's `src/` unless they begin with `prisma/`.

    tlc -config GroupFundEdits.cfg MCGroupFund      # one run; PROJECT.json lists them all
    tlapm GroupFundProofs.tla                       # the proofs of one module

## 1. The system

One Node.js process serves HTTP and WebSocket requests. A request runs alone between two `await`s;
at each `await` any other request may run. All lasting state is in PostgreSQL, reached at the
default isolation level, READ COMMITTED. Three consequences shape every model:

- **A single statement is atomic**, and an `UPDATE ... WHERE` looks at its condition again after it
  waited for a row lock. Code that puts its check in the `WHERE` clause (the fund's guarded decrement, the
  deleted-row count of a token) is protected; code that reads, decides and then writes is not.
- **A `$transaction` is atomic but not serializable**: what is read before it, or inside it without a
  lock, may have changed when it writes.
- **A crash loses everything in memory**: requests in flight and the cache go, open transactions roll
  back, statements that committed stay.

| component | code | state | operations | what makes it correct |
|---|---|---|---|---|
| Group fund and expenses | `modules/expenses`, `modules/groups` (contribute, withdraw) | `group_funds.balance`, `fund_transactions`, `expenses` with payers and splits | contribute, withdraw, create/update/delete an expense | balance = ledger; never overdrawn; one charge per live fund expense; payers and splits add up |
| Group membership and invitations | `modules/groups` | `group_members`, `group_invitations`, `groups.deletedAt` | create, add, remove, leave, set role, delete, invite, accept, reject | somebody owns the group; owners are not evicted; member limit; who left stays out; accepted means joined |
| Group settings | `modules/groups` (updateGroup, uploadAvatar) | group row, avatar object | update, upload with rollback | the currency does not change while there are transactions, deleted expenses not counted; the trip's dates stay in order; a row names a picture that is there |
| Refresh tokens | `modules/auth` | `refresh_tokens` | login, refresh (rotate), reuse detection, logout, expiry | one token per session; a revoked session stays revoked |
| Accounts and login providers | `modules/auth`, `modules/users` | `users`, `user_profiles`, `user_auth_accounts`, cached profiles | register, Google, Mezon, link, change username, read profile | a login is answered with the user its identity stays linked to; the cached profile is current |
| Expense splitter and money | `modules/expenses/domain`, `shared/common/value-objects` | none (functions) | split by exact amounts, by shares | splits add up to the cent, are fair, keep claims |
| Balances and their cache | `modules/expenses` (getGroupBalance), `shared/infrastructure/cache` | in-memory cache | getOrSet, del after each write | what is cached of a member is what is stored; balances sum to zero |
| Settlements | `modules/settlements` | `settlements` | request, complete, cancel, optimized view | only completed payments count; pending ones are not proposed again |
| Debt simplifier | `modules/settlements/domain` | none (function) | match debtors and creditors | nobody overpays; everybody settled to within a cent |
| Itineraries | `modules/itinerary` | `itineraries`, `itinerary_items` | create, add, move (pushes later activities), delete, AI edit, publish | activities keep a positive length; a move clears its day and disturbs no more than it must |
| AI planning | `modules/ai/planning`, `modules/ai/providers` | none | generate, modify | what is accepted of an answer is a plan |
| Recommendations | `modules/recommendations`, `modules/ai/recommendation` | `recommendations`, `recommendation_likes` | trigger, generate, delete, like, unlike, read | every generation that ends is seen to end; likes shown are likes stored |
| Group chat | `modules/group-chat` | `group_messages`, rooms | join, leave, send, read | the room hears messages in the order of the history |
| Notifications and realtime | `modules/notifications`, `shared/realtime` | `notifications`, rooms of users, mock queue | emit, store, read by page, mark read | a notification never says what did not happen, and catches up with what did |
| Request pipeline | guards, pipes, filters | none | check one request | - |
| Adapters and operations | storage, AI clients, configuration, migrations | none | I/O | - |

**How they interact.** Membership gates every other component: each request loads the group with its
active members first. Expenses write the fund's balance and ledger in their own transaction, call
the splitter before it and delete the cached balances after it. Settlements read balances that
expenses and completed settlements make, run them through the debt simplifier and subtract pending
payments. Itineraries call the planning service, which calls the model for seconds between reading
the activities and replacing them. Everything announces what it did through an in-process event
emitter to notifications and sockets, after its commit. Recommendations announce their generation in
the chat's room and store a chat message about each batch.

**What is hard here.** Check-then-write over two statements (membership, account creation, group
currency); rows read before the transaction that depends on them (expense edits, itinerary updates);
several statements that are no transaction (accepting an invitation, rotating a token); a
cache filled with what was read before it was invalidated; doubles compared with tolerances, and
rounding that has to add up; objects in a storage that shares no transaction with the rows that name them;
lists that change between two of their pages; long calls between a read and a write; crashes between
any two of these.
`PROJECT.json` lists each hazard at its line with the properties that watch it.

## 2. The modules

Each model keeps all of the control of the code it stands for (guards, early returns, the order of
statements, what commits together) and abstracts data: users and rows are model values, money is
whole cents, texts are left out. The `map` in `PROJECT.json` gives the source lines of each definition.
Definitions named `X_Something` with the comment "Slip" are small mistakes, kept to make sure that each
property notices one; nothing uses them.

| module | extends / uses | models |
|---|---|---|
| `GroupFund` | INSTANCE `FundAccount` | the fund, its ledger, the expenses paid from it, and edits of them in flight |
| `FundAccount` | - | the abstract account that `GroupFund` implements |
| `Membership` | - | members, roles, invitations and deletion of one group |
| `GroupSettings` | - | the currency and the dates of one group, and the updates of them in flight |
| `Uploads` | - | pictures of groups, users and settlements: the storage, the rows, what undoes what |
| `RefreshTokens` | INSTANCE `UserSessions` | the refresh tokens of one user, across their sessions |
| `UserSessions` | - | the abstract sessions that `RefreshTokens` implements |
| `GroupBalances` | - | settlements, balances of the members and the cached copy |
| `DebtSimplifier` | - | `simplify` and the subtraction of pending payments |
| `ExpenseSplitter` | - | both ways to split, with rounding, and what the columns store |
| `Notifications` | EXTENDS `Membership` | the notifications about invitations, composed with the requests that cause them |
| `Accounts` | - | users, the identities linked to them, and the cached profiles |
| `GroupChat` | - | the room of a group's chat: messages, generations of recommendations, likes |
| `Itinerary` | - | the activities of an itinerary: updates that push others, AI edits |
| `Pages` | - | a client that reads a list page by page, by cursor or by offset, while it changes |
| `MC...` | the module of that name | constants and symmetry for TLC |
| `...Proofs` | the module of that name, `TLAPS` | the theorems. `MembershipProofs` has those of `Notifications` too, `GroupSettingsProofs` those of `Uploads`, `GroupChatProofs` those of `Pages`; `MoneyProofs` those of `GroupBalances`, `DebtSimplifier` and `ExpenseSplitter` |

### GroupFund

A fund transaction locks the fund's row before the expense's row, so two of them commit one
after the other, and each is one atomic step, taken at its commit: `Contribute`, `Withdraw`,
`CreateExpense`. An update is three steps, because it reads twice before it writes: `UpdateCheck` (the
service: rights, new splits), `UpdateRead` (`oldExpense` in the repository), `UpdateCommit` or
`UpdateRollback`. A delete likewise: its `findFirst` is inside the transaction but takes no lock.
`req` holds what a request in flight has read. The expense row is reduced to its status, source,
amount, creator and the totals of its payers and splits; the ledger to the total of each type and
the total charged for each expense.

`SerialSpec` is the same system in an environment that makes the edits of any *one* expense one
after the other; everything else still overlaps. Without it the code loses money (section 5), so the
reconciliation properties are stated for `SerialSpec` and the rest for `Spec`.

### Membership

Every operation is a check (`AddCheck`, `LeaveCheck`, ...) on a loaded copy of the group and a write
(`AddWrite`, ...) that does not look again. Accepting an invitation has two writes (`AcceptAdd`,
`AcceptMark`), in no transaction. A write needs nothing of whose request it is, so a request in flight
is its operation, its target, its role and its invitation. `since` is a history variable that no guard reads: what
each request missed since its check, that is who joined (an add), who first became or stopped being an owner (a leave,
a change of role), whether its target was promoted (a removal). With it the properties hold in every interleaving and say
exactly what an outdated check lets happen: who takes the last owner away (`OwnerRemains`), how an owner is evicted
(`OwnerNeverEvicted`), by how much an add exceeds the limit (`AddKeepsLimit`).

### Notifications

The composition of `Membership` with the listeners of its events. A request's write emits an event when it
succeeded (`InviteAndEmit`, `AcceptAndEmit`, `RejectAndEmit`); the listeners `onGroupInvited` and
`onGroupInvitationResponded` take events one by one, in any order, and write on their own. A crash
drops the events in memory, a listener that fails logs and drops its event. An invitation is
answered only by somebody who was told its token, and that is in the notification only (`CheckTold`).
Every step is a step of `Membership` or leaves its variables alone, so that the properties of
`Membership` are checked in this composition. `missed` and `crossed` are history variables.

### GroupSettings

`updateGroup` is `UpdateRead` (the group, the checks of rights and dates), one `Count` for each of the three counts
that go out at once when the currency would change, and `UpdateWrite`, which writes the columns the body has
by the group's id. Between them others write: `RecordMoney` is a committed expense, settlement or fund
transaction, `deleteGroup` a deletion. `money` has the kinds of rows the counts would find. The soft-delete extension of
the Prisma client adds `deletedAt: null` to every count, so deleted expenses are not among them, and `DeleteExpenses` deletes the last one
there is. The other two kinds never go back to none: settlements are not deleted, and a fund is only charged what contributions,
which stay, have put into it. An update that is not of an owner ends at the read; name, description and
budget goal are left out, because nothing depends on them. Each update carries two things for the properties only:
`absent` (kinds of which there was no row at some moment since it read the group) and `missed` (columns others wrote since it read).

### Uploads

The three uploads with one shape: `Begin` computes the key, `Store` puts the object, `WriteRow` writes its URL, and
`AfterFailure` says who rolls back: the two avatars do, the evidence of a settlement does not. `StoreFails` is a refused
picture or the 15 seconds of the storage client, after which the object may be there all the same;
`WriteFails` includes a commit whose answer is lost. A group has one key, the others have the clock in theirs, and
`now` ticks whenever it likes. `over` is for the properties.

### RefreshTokens

A refresh is `RefreshFind`, `RefreshRevoke` (deletes its row; the count says who won), and
`CreateToken`, or `RefreshRevokeAll` for who lost. `session` records which login a token goes back
to and `ended` (history) whether a session was revoked, and if so, whether that happened in the
middle of one of its rotations. Sessions are not stored by the program: both variables are there for the
properties and for the refinement.

`UserSessions` says what the tokens promise without a request or a count in sight: a session has one token at a
time, which is turned in once, and renewed once; revocation ends all but those that are being renewed, and
a session that is over stays over. `SessionsRefined` maps the token of a session to the one row it has, and its renewal to
the request that won the deletion.

### Accounts

A registration or login is one step per statement: `Login` (findByProvider), `FindByEmail`,
`generateUniqueUsername`, then `CreateUser` (user, profile and account are one nested insert), or
`linkAuthAccount` and `ClearProfile`. Google and Mezon take the same way with another provider. The
unique indexes of the schema are the guards of the inserts. The email is what the provider says at
this login, or made from the identity, and may differ from one login to the next. An identity may also run into
the index on (user, provider), when its email is that of a user with another identity of the provider: no check looks at
that one, and no other request is needed for it. An update may name the user's own name. `QueryProfile` and
`StoreProfile` are the two halves of `getOrSet`. `session` (history) records every answer;
`twoEmails` and `raced` are conditions of properties, and `alone` has the requests that were in flight alone since they began.

### GroupChat

What is stored and what is broadcast are separate: `log` and `said` for messages, `likes` and
`likesShown` for likes. Every request writes first and speaks in a later step, so that others come in
between. `TriggerGeneration` to `SayMessage` is `triggerRecommendationGeneration`, with
`GenerationFails` for each way its `try` can end early: the `finally` speaks in the same step. `room`
and `shown` are the sockets in the room and what their indicator shows. The broadcast of the
recommendations themselves is left out. The check of membership is that of the code: a row in
`group_members`, which who left still has.

### GroupBalances

Every write changes tables in one step and deletes the cache entry in a second one (`Invalidate`), or ends without
(`InvalidateSkipped`): `create` and `update` read the expense again after their commit, and when that throws the `del` is
skipped. A read is `ReadMiss`, `Query`, `Fill`. The query has a row for each row of `group_members`, so that a `Join`
changes it; `addMember` and `acceptInvitation` delete another key. Expenses are reduced to what they move between two users, in whole cents,
in which payers and splits agree (`SplitsAddUp` of `ExpenseSplitter`; that an amount with fractions of a cent breaks this is in section 5).
An edit reads first (`EditRead`) and commits later (`EditCommit`); one that missed another write of its
expense may write the payers of one amount beside the splits of another, as `GroupFund` shows in detail, and so may whatever
follows it. A settlement goes from any status to COMPLETED by its payee and to CANCELLED by its payer, as in the code; its payee
need not be a member. Two history variables: `uneven` says that such an edit was committed, `doubtful` that money changed
between the query of a read and its store or that a write left a cached entry behind, until the entry is gone with no such read under way.

### DebtSimplifier, ExpenseSplitter

The code of both uses doubles. Whole cents are exact in the models; the places where an error of
the last bit decides a branch are nondeterministic choices: a remainder of one cent compared with
0.01, a difference that should be zero, `Math.round` of an exact half. `DebtSimplifier` is the loop
with its indices, one turn a step; equal balances come in any order. `ExpenseSplitter` counts
amounts in fractions of a cent (`Cent` units), so that amounts with more than two digits occur.

### Itinerary

Stored activities are their start and end, as offsets from the first midnight. `UpdateRead` is
`updateItineraryItem` up to its transaction, where a start or end the request does not give is taken
from the row; `UpdateBegin` its first statement and the query of the day, from which
`applyCollisionBasedShift` (`Writes`, a fold of `Ripple`) computes what it writes; `UpdateCommit` those
writes. `Ask` reads for the prompt, `ReplaceBegin` is the answer with its validation and the snapshot
of `deleteMany`, `ReplaceCommit` the deletion of that snapshot and the new rows. Locks of a
`deleteMany` are left out, which allows more behaviours than the database does.

### Pages

`list` is one of the four lists a client pages through. `GetMessages` asks by cursor (what is before the oldest
message it has); the others ask by page number, with the rows (`QueryRows`) and the total (`QueryTotal`) queried
at once and answered together. `Insert`, `Delete` and `Touch` are what changes the lists: messages and
notifications only come; recommendations and notifications may come as a batch; a group the user joins comes with the time it has, one that is updated
moves to the front. A row takes its `createdAt` before it is visible, so an insert may be at any place. The pages by offset are
ordered by one timestamp and nothing else, and the rows of a batch share it: `Swap` lets two neighbours change places
between any two queries, in a list that nobody writes to. Which rows are tied is left open, so that more swaps happen
than the database could make; each counts as one row gone and one come. `Without` is a list but some rows. `wanted`, `gone`, `come` and
`late` count for the properties what happened since the first page. Left out are the cached pages of expenses, and two
messages of one `createdAt` on either side of a cursor.

## 3. What the runs check

| run | instance | states | shows |
|---|---|---|---|
| `GroupFundEdits` | 2 members, 2 expenses, 2 requests, amounts 1-2, at most 3 contributed | 132,000 | balance = ledger, one charge per expense, payers and splits cover the amount, `FundAccount` (which is never overdrawn) implemented |
| `Membership` (of `MCNotifications`) | 3 users, limit 2, 1 invitation, 2 requests, all events | 653,000 | accepted means joined, who left stays out; the last owner goes, an owner is evicted and the limit is exceeded only by a request that missed what made it so; a notification never runs ahead of what it tells, and catches up when nothing is lost and no answers crossed |
| `Tokens` | 5 tokens, 3 requests | 48,000 | one token per session, a session revoked between rotations stays revoked, `UserSessions` implemented |
| `Accounts` | 2 users, 2 emails, 2 usernames, 3 identities of 2 providers, 2 requests | 1,389,000 | a login is answered with the user it is linked to for good; a request alone in flight finds room in the unique indexes it looked at; the cached profile is current |
| `Balances` | 2 users, of whom one may join, 1 expense, 2 settlements, 2 requests, 1 cent | 434,000 | balances sum to zero (or to what users outside the group got) until an edit missed another, the cached balance of each member in the copy is current |
| `Debt` | 4 people, balances from -4 to 4 cents, pending lists up to 2 | 210,000 | nobody overpays, proposals explain balances, less than a cent each left, pending subtracted, it returns |
| `Splitter` | up to 4 people, half cents up to 4.5 cents | 70,000 | splits add up, claims kept, shares fair |
| `Itinerary` | 3 activities, 2 days of 3 hours, 2 requests, 10 answers of the model | 516,000 | times in order, plans ordered across days, a move clears its day and moves only what collides |
| `GroupChat` | 1 socket, 2 generations of 1 recommendation, 1 message, 2 requests | 1,323,000 | the indicator goes off, messages are heard in order and once, likes shown are likes stored |
| `Settings` | 2 updates, 2 currencies, 3 dates, bodies that change one thing or all | 2,098,000 | the currency is kept while there are transactions but for updates that ran while a kind of them was absent, or raced; dates stay in order outside a race |
| `Uploads` | 3 uploads for a group, a user and a settlement, the clock ticks once | 184,000 | a row shows the picture it was written for unless a rival disturbed it, no picture is left over without a cause |
| `Pages` | 4 lists of up to 4 rows, 2 on a page, 2 moves of rows | 461,000 | messages are read exactly once and in order, what paging by offset may miss and repeat, with rows of one time in any order |

**Why these bounds are enough to see the interesting cases.** Two requests are the least that
overlap, and every race here is between two; the tokens get three, so that a rotation, its loser and a
logout meet. Two expenses show that one's edits do not touch the other's charge. Amounts of 1 and 2
with 3 contributed make the fund too small, exactly enough, and enough. A limit of two members is
reached by one join, exceeded by the next, and with three users there is always somebody to join.
Four people and four cents give every pattern of matching with two debtors and two creditors, three
to one, and balances within the tolerance of a cent. Up to four participants and amounts up
to four and a half cents include remainders in both directions and more participants than cents. Two emails and
two usernames let every check of an account be overtaken, and three identities of two providers give a second
identity of one provider and one of another. One
socket in the room is enough, because what a broadcast does to one does not depend on the others. Three
activities are the shortest chain of pushes with something to stop at, and the second day shows
that a push across midnight does not go on there. `Latest` bounds how far activities are pushed and
`MaxContributed`, `MaxSpent`, `MaxBalance` what is moved; nothing in the code depends on them. Two currencies and
three dates let an update put either date before or after the other, or clear it. Three uploads let
one overtake another and a third fail, and one tick of the clock gives keys that differ and keys that
do not. Four rows and pages of two give a full page and another, with room for a batch that comes in between, and two moves carry
a row over a place between pages and another back. One cent and two settlements to and from either user
give every sign of a balance, as nothing in `GroupBalances` compares amounts; one expense can be edited by both requests. The set
`Answers` of `MCItinerary` has two plans that are accepted and one that is refused for each reason there is.

Six runs turn deadlock checking off, because their system may stop: the two algorithms return; a deleted group
refuses everything; a fund at `MaxContributed` with all expenses deleted and nothing left has nothing to do; every
upload is over; the client has its last page. The others are checked for deadlock.

**Fairness.** Two modules state liveness. `DebtSimplifier` (`Returns`) has weak fairness of its
next step: `simplify` is a synchronous function, nothing else runs before it returns, so it takes its next
step whenever there is one. `Uploads` (`PicturesAccounted`) has weak fairness of each upload that has begun: the storage
client gives up after its timeout and a statement ends, one way or the other, unless the process stops, which is
a step of the model; nobody has to upload anything. The other modules state none: a request may fail or its client may go
away at every `await`, the process may stop for good, and no retry or background job exists that would
be obliged to go on.

## 4. What is proved

The theorems hold for every value of the constants: any number of members, tokens, requests and
expenses, any amounts, any length of a history. They assume what the `ASSUME`s of the modules say and no more: amounts are
positive whole cents, null values differ from the others, the users, members, settlements and activities there are,
the people to settle and an answer of the model are finite, and a page has at least one row.

| theorem | says | argument |
|---|---|---|
| `GroupFundProofs!TypeCorrect` | types, all interleavings | inductive |
| `NeverOverdrawn` | `balance >= 0`, all interleavings | inductive with `TypeOK`: every decrement is guarded in the step that makes it |
| `FundReconciles`, `LedgerMatchesExpenses`, `SharesAlwaysCover` | the books, when edits of one expense do not overlap | `SerialInv` |
| `FundIsAccount` | `GroupFund` implements `FundAccount` under the same assumption | under `SerialInv` every commit is one `Recharge` and every other step of a request a stutter |
| `MembershipProofs!MembershipTypeCorrect` | types | inductive |
| `GroupKeepsOwner`, `OwnersAreNotEvicted` | how the last owner goes and how an owner is evicted, all interleavings | `OwnerInv` |
| `AcceptedAreMembers`, `OneAccept`, `LeftStaysLeft` | invitations and joins, all interleavings; a user is added once in a behaviour | `AcceptInv`; the unique key of `group_members` |
| `AddsKeepLimit` | an add exceeds the limit by no more than joined since its check, all interleavings | `OwnerInv` |
| `ListenersKeepOut` | `Notifications` implements `Membership` | each of its steps is one of `Membership` or leaves its variables alone, so the theorems above hold of the composition, which is what the run checks |
| `NoticesTypeCorrect`, `NoticesTellTheTruth` | types; a notification never says what did not happen, all interleavings | `TruthInv` |
| `NoticesComeTrue` | a notification catches up, when no event is missed and no answers cross | `CatchUpInv` |
| `GroupSettingsProofs!SettingsTypeCorrect`, `CurrencyIsKept`, `DatesAreOrdered` | the settings, all interleavings | `SettingsInv` |
| `UploadsTypeCorrect`, `RowsShowTheirPicture` | a row names a picture that is stored and its own, but for uploads that write over one name or undo each other | `PicturesInv` |
| `RefreshTokensProofs!TokensTypeCorrect`, `RotationKeepsOneSession` | one stored token per login, however refreshes race | `SessionInv` |
| `RevocationIsFinal` | a session revoked between rotations never has a token again | `SessionInv /\ RevokedInv` |
| `TokensAreSessions` | `RefreshTokens` implements `UserSessions` | under `SessionInv` the won deletion is one `TurnIn`, the insert one `Renew`, and every other step of a refresh a stutter |
| `MoneyProofs!CachedBalancesAreCurrent` | the cache, whoever joins, outside a race or a skipped invalidation | `BalancesInv` |
| `BalancesTypeCorrect`, `BalancesAddUp` | types; balances sum to what was paid to users who are not members, until an edit missed another | `BooksInv` |
| `SettlingNeverOverpays`, `SettlingIsShort`, `SettlingIsComplete` | the matching, for any number of people and any balances | `MatchInv` |
| `ProposalsAreExact` | paying the proposals leaves everybody with what the matching left them | `ExplainInv` |
| `SettlingLeavesCents` | less than a cent per member is left, if the balances sum to zero | `LeftoverInv` |
| `PendingIsSubtracted` | between two people is shown what was proposed less what is pending, never less than nothing | `PendingInv` |
| `SplittingAddsUp`, `SplittingKeepsClaims`, `SplittingIsFair` | splits add up to the cent, keep claims, are fair, for every amount and any number of participants | `SplitsInv` |
| `AccountsProofs!AccountsTypeCorrect` | types | inductive with `LoginInv` |
| `LoginsAreLinked` | the answer to a login, unless an identity logs in under two emails at once | `LoginInv` |
| `CachedProfilesAreCurrent` | the cached profile, outside a race | `ProfileInv` |
| `IndexesAreNotNeeded` | a request alone in flight finds room in the unique indexes it looked at | `ChecksInv` |
| `GroupChatProofs!ChatTypeCorrect`, `IndicatorIsHonest` | types; the indicator goes off, all interleavings | inductive |
| `LikesAreTold` | likes shown are likes stored, but for crossed answers and crashes | `LikesInv` |
| `MessagesKeepOrder` | the room hears the history in order and no message twice, as long as none was overtaken | `OrderInv` |
| `ChatIsReadOnce` | paging back through the chat shows each message once, in order, without a gap | `PagesInv` |
| `PagingMissesOnlyWhatMoved` | what paging by offset misses and repeats at most, with ties in any order | `OffsetInv` |
| `PagesTypeCorrect` | types, of both ways to page | both |
| `ItineraryProofs!ItineraryTypeCorrect`, `ActivitiesEndAfterTheyStart` | types; no activity ends before it starts, all interleavings | `ItineraryInv` |
| `AcceptedPlansAreOrdered` | the rows of an accepted answer do not overlap, lie in the itinerary, are numbered by time | `ItineraryInv` |
| `UpdatesClearTheDay`, `UpdatesMoveOnlyWhatCollides` | an update that nobody disturbed leaves no overlap on its day, and moves only what collides | `ItineraryInv` and what the fold of the pushes computes |

**The inductive invariants and why they are needed.**

- `SerialInv` (GroupFund). A commit computes with the row it read some steps ago, so reconciliation is
  inductive only together with `RequestsSeeTheRow`: the row an edit has read is still the row. That
  is what `EditsDoNotOverlap` buys, and exactly what overlapping edits break.
- `OwnerInv` (Membership). What each request found at its check is still true at the write but for what it missed
  (`ChecksHold`): the target of a removal is no owner unless it was promoted, another owner is there for who leaves unless the owners
  changed, and without those who joined since there is room for one more, as one more user makes one more member.
- `AcceptInv` (Membership). `AcceptMark` marks an invitation by its id; it has to be known that the
  invitation still names the user whom `AcceptAdd` added, and that rows of members are never removed.
- `TruthInv` (Notifications). A notification is as true as the event it was written from, so events on their way have to be true
  as well (`EventsTruthful`), and what made them true is not undone: invitations keep their user and members stay members
  (`AcceptInv`).
- `CatchUpInv` (Notifications). `Due`: a notification is up to date, or exactly one event is on its way that will make it so.
  Two answers on their way at once break it, which is what `crossed` says.
- `SettingsInv` (GroupSettings). A kind of transactions of which there were rows ever since an update read the group is
  still to be counted by it, which will refuse it, or the update is not going to change the currency it compared with
  (`CurrencyDecided`). The dates it checked are those the row would get, while nobody else wrote them (`DatesDecided`).
- `SessionInv` (RefreshTokens). `ExtendedOnce`: a request that is about to insert the next token of a
  session is the only one, and the session has no stored token. The count returned by `deleteMany` is what
  makes it so.
  The refinement rests on it too: without it the map to `UserSessions` would not know which of two rows is the token.
- `LikesInv` (GroupChat). What one request is about to say of a like is what is stored, and nobody else is about to say anything
  of it (`SaysWhatIsStored`). A recommendation may be deleted and its likes with it, so one that is stored must be new to
  the room (`UnstoredUnknown`), for which a batch is asked for once (`BatchesTaken`).
- `OrderInv` (GroupChat). The log has no message twice, because a batch is made by one generation (`LogOnce`), and the one
  message about to be said comes after all that were (`SaysTheLatest`).
- `MatchInv` (DebtSimplifier). Debtors before `i` and creditors before `j` are settled to the last cent or
  the one before, those after are untouched, and no balance crosses zero.
- `LoginInv` (Accounts). Why the silent upsert of `linkAuthAccount` does no harm: everybody who logs in with
  an identity at the moment carries one email (`UnderTwoEmails \subseteq twoEmails`), emails are unique, so
  the user found by email is the user the identity gets linked to by whoever is first
  (`LoginsAgree`).
- `ProfileInv` (Accounts). On top of it, a query in flight holds the current profile or is known to have been
  raced, and who changed a profile is between the write and its invalidation (`QueriesCurrent`).
- `ChecksInv` (Accounts). What a request in flight alone looked for and did not find is still not there (`LookupsHold`), because no
  other is in flight (`alone`); of two identities under one email only one can be linked, which `LoginInv` knows.
- `BalancesInv` (GroupBalances). As long as nothing is in doubt, what a read is about to store is current of everybody in it, and
  a stale entry has a write that is about to delete it. A join adds to the balances a user who is in no such copy.
- `BooksInv` (GroupBalances). While no edit missed another, what expenses move between users sums to zero after each of them, only
  members have any of it, and every settlement that was requested names two different users, the payer a member; then what a settlement
  adds on one side of the sum it takes from the other, unless that side is not a member yet.
- `ExplainInv`, `LeftoverInv`, `PendingInv` (DebtSimplifier). On top of `MatchInv`: a payment changes two balances by what it
  says; the matching keeps the sum of the balances, and whoever had more than a cent is on one of the two sides; each pair
  is proposed to at most once, and shows what was proposed less the part of the pending list that is passed, cut at zero.
- `SplitsInv` (ExpenseSplitter). An expense is split in one step, so it is its three properties; the proof is about
  the operators: rounding errs by at most half a cent for each participant, and the last takes what they sum to.
- `PicturesInv` (Uploads). The picture of who is about to write the row is stored, or something the property excludes has
  happened to it (`Kept`); a row names an upload whose picture is kept or is threatened by another under the same key
  (`Threatened`). The second half is needed because the threat is there before the harm.
- `PagesInv` (Pages). `ReadTo`: what the client has are the first rows of the list up to some place, the oldest of them at that
  place. A message put before it moves the place, one after it is still to be read, and the cursor finds the place again because rows
  differ.
- `OffsetInv` (Pages). The client has passed a number of places. At most `gone` of the rows it wants and has not are ahead
  of that place; the rows it was sent again and those it has that are behind that place, and may be sent again, are together at most
  `come` (`PassedCounts`). For that each change of the list is shown to carry at most so many rows across any place (`Moves`), with
  the rows at each place counted by `Rank`. When the total came first, it is at most `late` too small (`LastCounts`).
- `ItineraryInv` (Itinerary). Times in requests and in what they are about to write are in order (`GoodRequest`), as rows
  are read long before they are written; the rows of an accepted answer are a plan from the answer on. That a push keeps
  length and order is a property of each turn of the fold (`Turn`), and after it the day is clear up to the activities
  passed (`Clear`).

**Sums, folds and recursion.** The library's induction theorems cannot be instantiated, but a set of naturals or of
finite sets that has a member has a smallest one, and that is a statement without an operator. What a sum over a function or a fold over
a sequence is, is proved with it: a smallest set (or prefix) on which the claim fails cannot be empty, and without one of
its members it would hold. All of `MoneyProofs` and the folds of `ItineraryProofs` rest on such lemmas.

The type invariants, `BalanceNonNegative`, `FewPayments`, `AddedOnce` and `OneSideSettled` are proved and not checked
again by a run; `AccountRefined` contains the second one. Every other safety property of a run is proved as well.

**What is only model-checked.** Liveness under fairness (`Returns`, `PicturesAccounted`), which is out of the provers' reach.

## 5. What the models show of the code

Three times a message or comment of the code promises more than the code keeps when requests overlap. The properties
state the condition under which it does, and taking the condition away gives TLC's counterexample:

- `SPECIFICATION Spec` instead of `SerialSpec` in `GroupFundEdits.cfg`: two overlapping edits of one expense both refund the amount
  they read, or a delete refunds what an overlapping update has already changed. Each of `Reconciled`, `ChargesMatchExpenses` and
  `SharesCoverAmount` fails: balance, ledger and splits part for good.
- `FALSE` instead of `since[r] # {}` in `OwnerRemains`: two owners leave or demote each other at once, and the group
  has no owner. Likewise a removal evicts an owner who was promoted after the check, without `u \in since[r]` in `OwnerNeverEvicted`.
- A logout, or the revocation after a reuse, misses the session whose refresh is between deleting its old token and inserting the
  new one: `RevokeAll` of `UserSessions` leaves `renewing` alone, and with `renewing' = {}` there the refinement fails.

The conditions of other properties are as exact:

- `acceptInvitation` never looks at the limit of 50 members; `AddKeepsLimit` is about `addMember`, which goes over it by those who
  joined since its check.
- The currency of a group changes although money moved in it, without any race, once its expenses are deleted and it has no settlement and
  no fund transaction (`CurrencyKept` is about the transactions there are). Otherwise an update needs to have run while
  each kind there is was absent at some moment.
- A second identity of a provider under the email of a user fails on the index on (user, provider), alone as in a race
  (`ChecksSuffice` leaves that index out).
- Who joins a group is not in its cached balances until they are deleted or expire (`CacheIsCurrent` is about those in the copy).
- A list that nobody writes to may miss one row and repeat another when the database orders the rows of a batch differently for two
  pages (`Swap` in `OffsetBounded`).
- `splitExact` puts the whole rounding discrepancy on the last participant, whose split may become negative, while
  `Money` and the DTO refuse negative amounts (`ClaimsKept` bounds what the last one takes). The stored amount and the
  splits of an expense can differ if the request's amount is no whole number of cents (`SplitsAddUp`).
- A read that queried before a write can store a stale balance after the write deleted the entry, and a write whose
  re-read fails leaves one behind (`doubtful`), until it is deleted again or its 120 seconds are over. Overlapping edits of one expense make
  balances that do not add up (`uneven`). A payment to somebody who is not a member shows on one side only (`BalancesSum`).
- One identity that logs in twice at once under different emails may be answered with a user it is not linked to, because
  the upsert of the link is silent (`twoEmails`); the next login goes to the linked user.
- When an accept and a rejection of one invitation cross, their listeners write in any order and the notification may
  end with either status (`crossed`).
- Two overlapping generations switch one indicator: it goes off when the first ends, and stays off (`IndicatorGoesOff` says
  only that it does not stay on). Membership is checked when a socket joins the chat and not after.
- Two updates of a group that each move one date can leave the trip's start after its end (`missed` in `DatesStayOrdered`). The
  group then refuses every update that leaves the dates as they are crossed, also one of its name, and the generation of an
  itinerary, until one puts them in order. An update also writes to a group that was deleted after it was read.
- The rollback of a failed group avatar deletes the one key the group has, also when its row still names it; a write whose
  answer was lost makes the rollback of a user's avatar delete the picture its row names (`Disturbed`). A replaced picture of a user
  or a settlement is never deleted: `PicturesAccounted` counts it as named once.
- The total and the rows of a page are two queries, so a client can be told there is no next page although there is, even in
  notifications, which only grow (`late`); rows that leave a list or move in it shift those after them past the
  client (`gone`), rows that come repeat one (`come`). Paging by cursor has none of this, as messages stay.

Some more was seen while reading, outside of any property: completing a settlement twice emits its event twice; the
optimized settlements read balances and pending payments in two queries; two itinerary updates may wait for each other's rows,
and the database then rolls one back; in the optimized settlements a difference of doubles that should be zero can remain as a
proposal of nearly nothing (in whole cents `PendingSubtracted` cannot see it); two overlapping AI edits leave the activities of both plans;
`SendNotificationProcessor` is registered in no module, and the queue in use only logs; no socket ever joins a room of a
user, so that the `notification` event of the application's README has no receiver.

## 6. What is not modelled, and the plan

Modelled in full: fund and expenses, membership, group settings, refresh tokens, splitter, settlements, debt
simplifier, balances with their cache (of expenses only what they move), group chat. Partly: accounts (without descriptive columns), notifications (those of
invitations, and reading by page), recommendations (without prompts and the budget analysis), itineraries and AI
planning (without publishing, order numbers of activities made by hand, prompts, retries of the client). Not modelled: the
request pipeline (checks of one request that keep no state) and the adapters (I/O; of the storage adapter, `Uploads` has what
its callers see).

A generation need not end: the client of the model clears its timer when the response's headers are
there, before it reads the body. That is why `GroupChat` states no liveness.

Activities that are added while the model is asked for an edit are lost when its answer replaces them. The code does not promise
otherwise; `Itinerary` has these steps, and no property says that they survive.

In the order of their weight, what comes next:

1. The books of `GroupFund` under `Spec`, with the edits that missed another write of their expense recorded as `GroupBalances`
   records them, instead of an environment that excludes them.
2. A composition of `GroupFund` and `GroupBalances`, which share the expenses, so that a balance and the
   charge of the same expense are checked against each other.
3. The retries of the Gemini client, and with them a bound on how often a model is asked.
4. The remaining notifications (members added, expenses, settlements) with their read flags, once they are more than
   an insert or a line in the log of a mock queue.
