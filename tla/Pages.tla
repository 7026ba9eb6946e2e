------------------------------- MODULE Pages -------------------------------
(***************************************************************************)
(* A client reads a list page by page while the list changes.              *)
(*                                                                         *)
(* The messages of a group are paged by cursor (group-chat.service         *)
(* getGroupMessages); the notifications of a user, their groups and the    *)
(* recommendations of a group by offset, with a total that another query   *)
(* counts at the same time (notifications.repository, groups.repository,   *)
(* recommendations.service, shared/common/pagination).  Every page is a    *)
(* request of its own, and nothing is held between two of them.            *)
(***************************************************************************)
EXTENDS Naturals, FiniteSets, SequencesExt

CONSTANTS MaxRows,        \* bound on the rows a list ever has
          MaxMoves,       \* bound on the moves of rows within a list
          Limit,          \* rows per page
          None

ASSUME BoundsAssumption == MaxRows \in Nat /\ MaxMoves \in Nat /\ Limit \in Nat \ {0}
ASSUME NoneAssumption ==
    /\ None \notin Nat \cup Seq(1..MaxRows)
    /\ \A S \in SUBSET (1..MaxRows) : None # S

Lists == {"messages", "notifications", "groups", "recommendations"}
Rows == 1..MaxRows

VARIABLES list,           \* which list is read
          order,          \* its rows as the query orders them, newest first
          born,           \* how many rows it ever had
          moves,          \* how many rows moved in it
          reader          \* the client

pagesVars == <<list, order, born, moves, reader>>

\* The client waits for a page, of which the rows and the total may be queried.  It
\* has the rows it got, messages oldest first as getGroupMessages returns them.
\* wanted are the rows there were at its first query of rows; since then gone rows left
\* the list or moved in it and come rows came or moved.  late of them came between the
\* total of a page and its rows (these for the properties).
Reader == [op : {"wait", "ended"}, page : Nat \ {0},
           rows : Seq(Rows) \cup {None}, total : Nat \cup {None}, got : Seq(Rows),
           wanted : (SUBSET Rows) \cup {None}, gone : Nat, come : Nat, late : Nat]

PagesTypeOK ==
    /\ list \in Lists
    /\ order \in Seq(Rows) /\ IsInjective(order)
    /\ born \in 0..MaxRows
    /\ moves \in 0..MaxMoves
    /\ reader \in Reader

PagesInit ==
    /\ list \in Lists
    /\ born \in 0..MaxRows
    /\ order = [i \in 1..born |-> born + 1 - i]
    /\ moves = 0
    /\ reader = [op |-> "wait", page |-> 1, rows |-> None, total |-> None, got |-> <<>>,
                 wanted |-> None, gone |-> 0, come |-> 0, late |-> 0]
-----------------------------------------------------------------------------
(***************************************************************************)
(* The list changes.                                                       *)
(***************************************************************************)

\* What the client does not see.  The list is followed while it is read: before the
\* first query it is any list, and after the last page nobody looks.
Unnoticed(gone, come) ==
    /\ reader.op = "wait" /\ (reader.wanted # None \/ reader.total # None)
    /\ reader' = [reader EXCEPT !.gone = IF reader.wanted # None THEN @ + gone ELSE @,
                                !.come = IF reader.wanted # None THEN @ + come ELSE @,
                                !.late = IF reader.total # None /\ reader.rows = None
                                         THEN @ + come ELSE @]

\* A row takes its createdAt before it is visible, so that any number of others may
\* be before it already; a group the user joins comes with the updatedAt it has.
Place == 1..(Len(order) + 1)

\* saveMessage, a notification, a new member; a batch of recommendations, or of
\* notifications, comes whole.
Insert(i, n) ==
    /\ born + n <= MaxRows
    /\ n > 1 => list \in {"recommendations", "notifications"}
    /\ order' = SubSeq(order, 1, i - 1) \o [j \in 1..n |-> born + j]
                  \o SubSeq(order, i, Len(order))
    /\ born' = born + n
    /\ Unnoticed(0, n)
    /\ UNCHANGED <<list, moves>>

\* s but the rows of S: its k-th row is the one with k - 1 others of those left before it.
Without(s, S) ==
    LET left == {i \in DOMAIN s : s[i] \notin S}
        Before(i) == {l \in left : l < i}
    IN  [k \in 1..Cardinality(left) |-> s[CHOOSE i \in left : Cardinality(Before(i)) = k - 1]]

\* Messages and notifications stay.  A group goes when it is deleted or left; of
\* recommendations one goes that is acted on, and any that expire or whose batch is
\* deleted.
Delete(S) ==
    /\ S # {}
    /\ \/ list = "groups" /\ Cardinality(S) = 1
       \/ list = "recommendations"
    /\ order' = Without(order, S)
    /\ Unnoticed(Cardinality(S), 0)
    /\ UNCHANGED <<list, born, moves>>

\* An update of a group sets its updatedAt.
Touch(r) ==
    /\ list = "groups" /\ moves < MaxMoves
    /\ order' = <<r>> \o Without(order, {r})
    /\ moves' = moves + 1
    /\ Unnoticed(1, 1)
    /\ UNCHANGED <<list, born>>

\* The pages by offset are ordered by createdAt or updatedAt alone, the rows of a batch
\* have one createdAt, and rows of one time come in whatever order the database finds
\* them, another one at the next query.  Which rows are of one time is left open.
Swap(i) ==
    /\ list # "messages" /\ moves < MaxMoves
    /\ order' = [k \in DOMAIN order |-> CASE k = i -> order[i + 1]
                                         [] k = i + 1 -> order[i]
                                         [] OTHER -> order[k]]
    /\ moves' = moves + 1
    /\ Unnoticed(1, 1)
    /\ UNCHANGED <<list, born>>
-----------------------------------------------------------------------------
(***************************************************************************)
(* The client reads.                                                       *)
(***************************************************************************)
Waits == reader.op = "wait"

WantedNow == IF reader.wanted = None THEN ToSet(order) ELSE reader.wanted

\* take: limit, after skip rows.
Page(skip) ==
    SubSeq(order, skip + 1, IF skip + Limit <= Len(order) THEN skip + Limit ELSE Len(order))

\* Slip: the cursor itself is not skipped.
SkipTo_WithCursor(r) == (CHOOSE i \in DOMAIN order : order[i] = r) - 1

\* cursor: { id: before }, skip: 1
SkipTo(r) == CHOOSE i \in DOMAIN order : order[i] = r

\* getGroupMessages: one query, its rows reversed.  The client asks for what is before
\* the oldest message it has, until a page is not full.
GetMessages ==
    /\ Waits /\ list = "messages"
    /\ LET page == Page(IF reader.got = <<>> THEN 0 ELSE SkipTo(Head(reader.got)))
       IN  reader' = [reader EXCEPT !.op = IF Len(page) < Limit THEN "ended" ELSE @,
                                    !.got = Reverse(page) \o @, !.wanted = WantedNow]
    /\ UNCHANGED <<list, order, born, moves>>

\* Slip: pages are counted from zero.
Skip_FromZero(page) == page * Limit

\* buildPrismaSkipTake
Skip(page) == (page - 1) * Limit

\* The findMany of a page ...
QueryRows ==
    /\ Waits /\ list # "messages" /\ reader.rows = None
    /\ reader' = [reader EXCEPT !.rows = Page(Skip(reader.page)), !.wanted = WantedNow]
    /\ UNCHANGED <<list, order, born, moves>>

\* ... and its count, in either order.
QueryTotal ==
    /\ Waits /\ list # "messages" /\ reader.total = None
    /\ reader' = [reader EXCEPT !.total = Len(order)]
    /\ UNCHANGED <<list, order, born, moves>>

\* buildPaginationMeta: page < Math.ceil(total / limit)
HasNextPage(total, page) == page < (total + Limit - 1) \div Limit

\* Both are there: the client gets the page, and asks for the next one if there is one.
Answer ==
    /\ Waits /\ reader.rows # None /\ reader.total # None
    /\ reader' = [reader EXCEPT !.got = @ \o reader.rows, !.rows = None, !.total = None,
                                !.page = @ + 1,
                                !.op = IF HasNextPage(reader.total, reader.page) THEN @ ELSE "ended",
                                !.late = IF HasNextPage(reader.total, reader.page) THEN 0 ELSE @]
    /\ UNCHANGED <<list, order, born, moves>>

PagesNext ==
    \/ \E i \in Place, n \in 1..2 : Insert(i, n)
    \/ \E S \in SUBSET ToSet(order) : Delete(S)
    \/ \E r \in ToSet(order) : Touch(r)
    \/ \E i \in 1..(Len(order) - 1) : Swap(i)
    \/ GetMessages
    \/ QueryRows
    \/ QueryTotal
    \/ Answer

PagesSpec == PagesInit /\ [][PagesNext]_pagesVars
-----------------------------------------------------------------------------
Got == ToSet(reader.got)
Missed == (reader.wanted \cap ToSet(order)) \ Got
Again == Len(reader.got) - Cardinality(Got)

\* r comes after s in the list.
Older(r, s) == \E i, j \in DOMAIN order : i < j /\ order[i] = s /\ order[j] = r

\* Scrolling back through the chat shows each message there was at its start exactly
\* once, and all messages in their order, whatever is sent meanwhile: at every moment
\* the ones shown are the latest of them without a gap, and at the end they are all.
MessagesReadOnce ==
    list = "messages" /\ reader.wanted # None =>
      /\ \A i, j \in DOMAIN reader.got : i < j => reader.got[i] # reader.got[j]
      /\ \A i, j \in DOMAIN reader.got : i < j => Older(reader.got[i], reader.got[j])
      /\ \A r, s \in reader.wanted : r \in Got /\ Older(r, s) => s \in Got
      /\ reader.op = "ended" => reader.wanted \subseteq Got

\* Reading a list by offset misses at most as many of the rows there were at the
\* first page as left the list or moved in it meanwhile, and as came between the
\* total and the rows of the last page; it shows at most as many again as came or
\* moved.  Rows of one createdAt move whenever the database orders them another way:
\* a list nobody writes to may then miss and repeat one for each two it swapped, and
\* none otherwise.
OffsetBounded ==
    list # "messages" /\ reader.wanted # None =>
      /\ reader.op = "ended" => Cardinality(Missed) <= reader.gone + reader.late
      /\ Again <= reader.come
=============================================================================
