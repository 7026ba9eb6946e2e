----------------------------- MODULE Itinerary -----------------------------
(***************************************************************************)
(* The activities of one itinerary (itinerary.service, planning.service).  *)
(*                                                                         *)
(* Members add, move and delete activities; moving one pushes the later    *)
(* ones of its day out of the way.  An AI edit asks a model for a whole    *)
(* new plan, which takes seconds, and then replaces every activity.        *)
(*                                                                         *)
(* Times are counted from the first midnight of the itinerary.  An update  *)
(* and a replacement are transactions at READ COMMITTED: another one may   *)
(* commit between two of their statements.  An open update holds the row   *)
(* it moved, and others wait for it; the locks of a deleteMany, which may  *)
(* itself be waiting, are left out, which allows more than the database.   *)
(* The order number of a row is kept where it is made, in the rows of a    *)
(* plan; in the table nothing depends on it but the number of the next row.*)
(***************************************************************************)
EXTENDS Integers, FiniteSets, FiniteSetsExt, SequencesExt

CONSTANTS Ids,            \* primary keys of itinerary_items: uuids
          Requests,       \* requests the server has in flight
          Day,            \* length of a day
          Days,           \* length of the itinerary, in days
          Block,          \* order numbers of a day: 100 in the code
          Times,          \* bound on what requests give as start or end
          Latest,         \* bound on the end of an activity
          Answers,        \* what the model may answer: sets of AiItem
          Absent          \* no key

AiItem == [day : Nat \ {0}, order : Nat \ {0}, start : Nat, end : Nat]

ASSUME ItineraryAssumption ==
    /\ Day \in Nat \ {0} /\ Days \in Nat \ {0} /\ Block \in Nat \ {0, 1}
    /\ Times \subseteq Nat /\ Latest \in Nat
    /\ Answers \subseteq {answer \in SUBSET AiItem : IsFiniteSet(answer)}
    /\ IsFiniteSet(Ids) /\ Absent \notin Ids

VARIABLES items,          \* the times of the rows, by key
          req             \* requests in flight

vars == <<items, req>>

Time == [start : Nat, end : Nat]

PlanRow == [start : Nat, end : Nat, orderNo : Nat \ {0}]

\* An update holds the times it will write, as computed from the row it read; an
\* open one the writes of its transaction; a replacement what its deleteMany saw
\* and the rows it will insert.
NoWrites == [x \in {} |-> Absent]

Idle == [op |-> "idle", id |-> Absent, time |-> [start |-> 0, end |-> 0],
         writes |-> NoWrites, rows |-> {}, sees |-> {}]

Stored == DOMAIN items

TypeOK ==
    /\ Stored \subseteq Ids
    /\ \A x \in Stored : items[x] \in Time
    /\ \A r \in Requests :
         /\ req[r].op \in {"idle", "update", "shift", "ask", "replace"}
         /\ req[r].id \in Ids \cup {Absent}
         /\ req[r].time \in Time
         /\ DOMAIN req[r].writes \subseteq Ids
         /\ \A x \in DOMAIN req[r].writes : req[r].writes[x] \in Time
         /\ req[r].rows \subseteq PlanRow /\ req[r].sees \subseteq Ids
-----------------------------------------------------------------------------
(***************************************************************************)
(* The plans of the model: AiItemSchema, validateAiItems and what is       *)
(* written of them.  (A set: an item that comes twice is a duplicate       *)
(* position and refused.)                                                  *)
(***************************************************************************)

AiItemSchema(a) == a.start < a.end /\ a.end < Day /\ a.order < Block

OfDay(answer, d) == {a \in answer : a.day = d}

\* Slip: compares with the start of the activity before.
InTimeOrder_ByStart(answer) ==
    \A a, b \in answer : a.day = b.day /\ b.order = a.order + 1 => b.start >= a.start

InTimeOrder(answer) ==
    \A a, b \in answer : a.day = b.day /\ b.order = a.order + 1 => b.start >= a.end

validateAiItems(answer) ==
    /\ \A a \in answer : a.day <= Days
    /\ \A a, b \in answer : a.day = b.day /\ a.order = b.order => a = b
    /\ \A a \in answer :
         {b.order : b \in OfDay(answer, a.day)} = 1..Cardinality(OfDay(answer, a.day))
    /\ InTimeOrder(answer)

Accepted(answer) ==
    answer # {} /\ (\A a \in answer : AiItemSchema(a)) /\ validateAiItems(answer)

\* buildAiItemDates and the order number.
Row(a) == [start |-> (a.day - 1) * Day + a.start, end |-> (a.day - 1) * Day + a.end,
           orderNo |-> a.order + (a.day - 1) * Block]

\* createMany: the tables that hold the rows under keys of S.
Insertions(rows, S) ==
    LET times(f) == [x \in DOMAIN f |-> [start |-> f[x].start, end |-> f[x].end]]
    IN  {times(f) : f \in UNION {Bijection(D, rows) : D \in kSubset(Cardinality(rows), S)}}

\* createItinerary, or generateItinerary with the plan of the model.
Init ==
    /\ \/ items = [x \in {} |-> Absent]
       \/ \E answer \in Answers :
            /\ Accepted(answer)
            /\ items \in Insertions({Row(a) : a \in answer}, Ids)
    /\ req = [r \in Requests |-> Idle]
-----------------------------------------------------------------------------
Finish(r) == req' = [req EXCEPT ![r] = Idle]

\* Keys no row and no request has: a uuid is new.
Fresh == Ids \ (Stored \cup UNION {{req[r].id} \cup DOMAIN req[r].writes \cup req[r].sees :
                                     r \in Requests})

\* createItineraryItem.
Create(r, time) ==
    /\ req[r].op = "idle"
    /\ time.start < time.end
    /\ \E x \in Fresh :
         items' = [y \in Stored \cup {x} |-> IF y = x THEN time ELSE items[y]]
    /\ UNCHANGED req

\* updateItineraryItem up to its transaction: a time the request does not give is
\* that of the row.
UpdateRead(r, x, time) ==
    /\ req[r].op = "idle"
    /\ x \in Stored
    /\ time.start \in Times \cup {items[x].start}
    /\ time.end \in Times \cup {items[x].end}
    /\ time.start < time.end
    /\ req' = [req EXCEPT ![r] = [Idle EXCEPT !.op = "update", !.id = x, !.time = time]]
    /\ UNCHANGED items

(***************************************************************************)
(* applyCollisionBasedShift, on the rows as the transaction finds them.    *)
(***************************************************************************)

DayOf(t) == t \div Day

SubsequentItems(x, time) ==
    {y \in Stored \ {x} : /\ DayOf(items[y].start) = DayOf(time.start)
                          /\ items[y].start >= time.start}

Pushed(y, overlap) == [start |-> items[y].start + overlap, end |-> items[y].end + overlap]

Push(shift, y, currentEnd) ==
    [stop |-> FALSE, currentEnd |-> currentEnd,
     writes |-> [z \in DOMAIN shift.writes \cup {y} |->
                   IF z = y THEN Pushed(y, shift.currentEnd - items[y].start)
                   ELSE shift.writes[z]]]

\* Slip: currentEndTime is not moved on.
Ripple_SameEnd(shift, y) ==
    IF shift.stop \/ items[y].start >= shift.currentEnd THEN [shift EXCEPT !.stop = TRUE]
    ELSE Push(shift, y, shift.currentEnd)

\* Slip: no look at whether there is a collision, so that gaps close, too.
Ripple_Always(shift, y) ==
    Push(shift, y, Pushed(y, shift.currentEnd - items[y].start).end)

\* One turn of the loop: shift holds what was written so far and the end of the
\* last activity that moved.
Ripple(shift, y) ==
    IF shift.stop \/ items[y].start >= shift.currentEnd THEN [shift EXCEPT !.stop = TRUE]
    ELSE Push(shift, y, Pushed(y, shift.currentEnd - items[y].start).end)

\* What the transaction writes: the time of x, and those of the rows it pushes,
\* by start, equal starts in any order.
Writes(x, time) ==
    LET unmoved == [stop |-> FALSE, currentEnd |-> time.end, writes |-> [y \in {x} |-> time]]
        byStart == {s \in SetToSeqs(SubsequentItems(x, time)) :
                      \A k \in 1..(Len(s) - 1) : items[s[k]].start <= items[s[k + 1]].start}
    IN  {FoldLeft(Ripple, unmoved, s).writes : s \in byStart}

\* The rows open updates wrote first.
HeldByOthers(r) == {req[q].id : q \in {q \in Requests \ {r} : req[q].op = "shift"}}

\* Slip: writes the start it was given, and leaves the end as it is now.
UpdateBegin_GivenOnly(r) ==
    /\ req[r].op = "update"
    /\ req[r].id \in Stored \ HeldByOthers(r)
    /\ \E w \in Writes(req[r].id, [start |-> req[r].time.start, end |-> items[req[r].id].end]) :
         /\ \A y \in DOMAIN w : w[y].end <= Latest
         /\ req' = [req EXCEPT ![r] = [@ EXCEPT !.op = "shift", !.writes = w]]
    /\ UNCHANGED items

\* The transaction's first update and its findMany.
UpdateBegin(r) ==
    /\ req[r].op = "update"
    /\ req[r].id \in Stored \ HeldByOthers(r)
    /\ \E w \in Writes(req[r].id, req[r].time) :
         /\ \A y \in DOMAIN w : w[y].end <= Latest
         /\ req' = [req EXCEPT ![r] = [@ EXCEPT !.op = "shift", !.writes = w]]
    /\ UNCHANGED items

\* Its updates of the pushed rows, and the commit.
UpdateCommit(r) ==
    /\ req[r].op = "shift"
    /\ DOMAIN req[r].writes \subseteq Stored \ HeldByOthers(r)
    /\ items' = [y \in Stored |->
                   IF y \in DOMAIN req[r].writes THEN req[r].writes[y] ELSE items[y]]
    /\ Finish(r)

\* A row is gone, a deadlock, the timeout of the transaction.
UpdateRollback(r) ==
    /\ \/ req[r].op = "shift"
       \/ req[r].op = "update" /\ req[r].id \notin Stored
    /\ Finish(r)
    /\ UNCHANGED items

\* deleteItineraryItem; the rows after it stay where they are.
Delete(r, x) ==
    /\ req[r].op = "idle"
    /\ x \in Stored \ HeldByOthers(r)
    /\ items' = [y \in Stored \ {x} |-> items[y]]
    /\ UNCHANGED req
-----------------------------------------------------------------------------
\* aiEditItineraryItem, aiEditEntireItinerary: what is read goes into the prompt.
Ask(r) ==
    /\ req[r].op = "idle"
    /\ req' = [req EXCEPT ![r] = [Idle EXCEPT !.op = "ask"]]
    /\ UNCHANGED items

\* The call of the model fails, or what it answers is refused.
AskFails(r) ==
    /\ req[r].op = "ask"
    /\ Finish(r)
    /\ UNCHANGED items

\* The model answers, and deleteMany takes its snapshot.
ReplaceBegin(r, answer) ==
    /\ req[r].op = "ask"
    /\ Accepted(answer)
    /\ req' = [req EXCEPT ![r] = [@ EXCEPT !.op = "replace", !.sees = Stored,
                                          !.rows = {Row(a) : a \in answer}]]
    /\ UNCHANGED items

\* What deleteMany saw is gone; createMany; commit.
ReplaceCommit(r) ==
    /\ req[r].op = "replace"
    /\ req[r].sees \cap HeldByOthers(r) = {}
    /\ \E new \in Insertions(req[r].rows, Fresh) :
         items' = [y \in (Stored \ req[r].sees) \cup DOMAIN new |->
                     IF y \in DOMAIN new THEN new[y] ELSE items[y]]
    /\ Finish(r)

\* The process stops; the database rolls open transactions back.
ServerCrash ==
    /\ \E r \in Requests : req[r].op # "idle"
    /\ req' = [r \in Requests |-> Idle]
    /\ UNCHANGED items

Next ==
    \/ \E r \in Requests :
         \/ \E time \in [start : Times, end : Times] : Create(r, time)
         \/ \E x \in Ids, s, e \in 0..Latest : UpdateRead(r, x, [start |-> s, end |-> e])
         \/ UpdateBegin(r)
         \/ UpdateCommit(r)
         \/ UpdateRollback(r)
         \/ \E x \in Ids : Delete(r, x)
         \/ Ask(r)
         \/ AskFails(r)
         \/ \E answer \in Answers : ReplaceBegin(r, answer)
         \/ ReplaceCommit(r)
    \/ ServerCrash

Spec == Init /\ [][Next]_vars
-----------------------------------------------------------------------------
\* Every activity ends after it starts, whatever updates, pushes and replacements
\* were computed from times that have changed since.
TimesInOrder == \A x \in Stored : items[x].start < items[x].end

Overlap(a, b) == a.start < b.end /\ b.start < a.end

Disjoint(table, S) == \A x, y \in S : x # y => ~Overlap(table[x], table[y])

\* No other request changed the rows since the transaction read them.
Undisturbed(r) == req[r].writes \in Writes(req[r].id, req[r].time)

OthersOfDay(x, time) == {y \in Stored \ {x} : DayOf(items[y].start) = DayOf(time.start)}

\* 'Update an itinerary item and auto-shift time': if the other activities of the
\* day do not overlap, and none of them is going on when the moved one starts, the
\* day has no overlap afterwards.
UpdateClearsDay ==
    [][\A r \in Requests :
         LET others == OthersOfDay(req[r].id, req[r].time)
         IN  UpdateCommit(r) /\ Undisturbed(r) /\ Disjoint(items, others)
               /\ (\A y \in others : items[y].start < req[r].time.start
                                       => items[y].end <= req[r].time.start)
             => Disjoint(items', others \cup {req[r].id})]_vars

\* 'No collision, stop ripple': an activity that moves is one of the day that
\* starts no earlier than the moved one; it keeps its length, moves later, and
\* starts when another of the day ends.  All others stay.
UpdateMovesOnlyWhatCollides ==
    [][\A r \in Requests : UpdateCommit(r) /\ Undisturbed(r) =>
         \A y \in Stored \ {req[r].id} :
           items'[y] # items[y] =>
             /\ y \in OthersOfDay(req[r].id, req[r].time)
             /\ items[y].start >= req[r].time.start
             /\ items'[y].start > items[y].start
             /\ items'[y].end - items'[y].start = items[y].end - items[y].start
             /\ \E z \in OthersOfDay(req[r].id, req[r].time) \cup {req[r].id} :
                  items'[y].start = items'[z].end]_vars

\* 'activities on the same day must not overlap', 'rejects order values that collide
\* with the next day block': the rows a plan is stored as do not overlap, lie in the
\* itinerary, and their order numbers are different and in the order of time.
PlanIsOrdered ==
    \A r \in Requests : \A a, b \in req[r].rows :
      /\ a.end <= Days * Day
      /\ a # b => ~Overlap(a, b)
      /\ (a.orderNo < b.orderNo) = (a.start < b.start)
=============================================================================
