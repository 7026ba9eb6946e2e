------------------------------ MODULE GroupChat ------------------------------
(***************************************************************************)
(* The chat of one group: its socket room, its messages, the generation of *)
(* recommendations announced in it and the likes (group-chat.gateway,      *)
(* group-chat.service, recommendations.service, recommendation.service of  *)
(* ai).                                                                    *)
(*                                                                         *)
(* Everything is written to the database first and broadcast to the room   *)
(* when the answer of the database is back; in between other requests      *)
(* write and broadcast.  Members stands for the users with a row in        *)
(* group_members, which is what checkMembership asks for and which nobody  *)
(* loses; the requests of others are refused and change nothing.           *)
(***************************************************************************)
EXTENDS Naturals, Sequences, SequencesExt

CONSTANTS Members,        \* users with a row in group_members
          Batches,        \* batchId of a generation, and the chat message about it
          Texts,          \* messages sent by a socket
          Recs,           \* identifiers of recommendations rows
          BatchOf,        \* the batch in the metadata of a recommendation
          Requests        \* requests the server has in flight

ASSUME ChatAssumption ==
    /\ Batches \cap Texts = {}
    /\ BatchOf \in [Recs -> Batches]

VARIABLES room,           \* members whose socket is in the room
          shown,          \* members whose socket last heard isGenerating: true
          log,            \* group_messages in the order they were stored
          said,           \* 'new-message' broadcasts in their order
          stored,         \* the recommendations table
          batches,        \* identifiers of batches that were made
          likes,          \* recommendation_likes
          likesShown,     \* pairs whose last 'recommendation-liked' said like
          req,            \* requests between two of their steps
          overtaken,      \* two messages were stored and not yet broadcast at once (for the properties)
          blurred         \* pairs with two broadcasts pending at once, or one lost in a crash (for the properties)

vars == <<room, shown, log, said, stored, batches, likes, likesShown, req, overtaken, blurred>>

Messages == Batches \cup Texts

Pairs == Recs \X Members

Request ==
    [op : {"idle"}]
    \cup [op : {"ask", "card"}, batch : Batches]
    \cup [op : {"say"}, message : Messages]
    \cup [op : {"like", "say_like", "say_unlike"}, pair : Pairs]

Idle == [op |-> "idle"]

TypeOK ==
    /\ room \subseteq Members /\ shown \subseteq Members
    /\ log \in Seq(Messages) /\ said \in Seq(Messages)
    /\ stored \subseteq Recs /\ batches \subseteq Batches
    /\ likes \subseteq Pairs /\ likesShown \subseteq Pairs /\ blurred \subseteq Pairs
    /\ req \in [Requests -> Request]
    /\ overtaken \in BOOLEAN

Init ==
    /\ room = {} /\ shown = {}
    /\ log = <<>> /\ said = <<>>
    /\ stored = {} /\ batches = {}
    /\ likes = {} /\ likesShown = {} /\ blurred = {}
    /\ req = [r \in Requests |-> Idle]
    /\ overtaken = FALSE

chat == <<log, said>>
recs == <<stored, batches, likes>>

Goto(r, next) == req' = [req EXCEPT ![r] = next]

Finish(r) == Goto(r, Idle)

\* A batch is generated until its message was broadcast or it failed.
Generating(r) ==
    \/ req[r].op \in {"ask", "card"}
    \/ req[r].op = "say" /\ req[r].message \in Batches
-----------------------------------------------------------------------------
(***************************************************************************)
(* Sockets.                                                                *)
(***************************************************************************)

\* A socket that joins has heard nothing.
JoinChat(m) ==
    /\ m \notin room
    /\ room' = room \cup {m}
    /\ shown' = shown \ {m}
    /\ UNCHANGED <<chat, recs, likesShown, req>>

\* leave-chat, or the connection breaks.
LeaveChat(m) ==
    /\ m \in room
    /\ room' = room \ {m}
    /\ UNCHANGED <<shown, chat, recs, likesShown, req>>

\* Broadcast to the room.
EmitGenerating(isGenerating) ==
    shown' = IF isGenerating THEN shown \cup room ELSE shown \ room

\* saveMessage, from a socket.
SendMessage(r, t) ==
    /\ req[r].op = "idle"
    /\ t \notin ToSet(log)
    /\ log' = Append(log, t)
    /\ Goto(r, [op |-> "say", message |-> t])
    /\ UNCHANGED <<room, shown, said, recs, likesShown>>

(***************************************************************************)
(* Generation.                                                             *)
(***************************************************************************)

\* A batchId is made, and the room told before anything is done.
TriggerGeneration(r, b) ==
    /\ req[r].op = "idle"
    /\ b \notin batches
    /\ batches' = batches \cup {b}
    /\ EmitGenerating(TRUE)
    /\ Goto(r, [op |-> "ask", batch |-> b])
    /\ UNCHANGED <<room, chat, stored, likes, likesShown>>

\* Slip: only the way to success ends with isGenerating: false.
GenerationFails_Silently(r) ==
    /\ req[r].op \in {"ask", "card"}
    /\ Finish(r)
    /\ UNCHANGED <<room, shown, chat, recs, likesShown>>

\* The model does not answer, answers with an error or with what the schema
\* refuses, or a statement fails: the finally still speaks.  Recommendations
\* that are stored stay, without a message.
GenerationFails(r) ==
    /\ req[r].op \in {"ask", "card"}
    /\ EmitGenerating(FALSE)
    /\ Finish(r)
    /\ UNCHANGED <<room, chat, recs, likesShown>>

\* generatePlacesRecommendations: all of a batch in one transaction.
StoreBatch(r) ==
    /\ req[r].op = "ask"
    /\ \E new \in SUBSET {c \in Recs : BatchOf[c] = req[r].batch} :
         new # {} /\ stored' = stored \cup new
    /\ Goto(r, [op |-> "card", batch |-> req[r].batch])
    /\ UNCHANGED <<room, shown, chat, batches, likes, likesShown>>

\* saveMessage, with the batchId in the text.
SaveCard(r) ==
    /\ req[r].op = "card"
    /\ log' = Append(log, req[r].batch)
    /\ Goto(r, [op |-> "say", message |-> req[r].batch])
    /\ UNCHANGED <<room, shown, said, recs, likesShown>>

\* Slip: the service broadcasts, and the gateway does so again.
SayMessage_Twice(r) ==
    /\ req[r].op = "say"
    /\ said' = said \o <<req[r].message, req[r].message>>
    /\ IF req[r].message \in Batches THEN EmitGenerating(FALSE) ELSE UNCHANGED shown
    /\ Finish(r)
    /\ UNCHANGED <<room, log, recs, likesShown>>

\* 'new-message', and then the finally of a generation.
SayMessage(r) ==
    /\ req[r].op = "say"
    /\ said' = Append(said, req[r].message)
    /\ IF req[r].message \in Batches THEN EmitGenerating(FALSE) ELSE UNCHANGED shown
    /\ Finish(r)
    /\ UNCHANGED <<room, log, recs, likesShown>>

\* deleteByBatchId and markActedOn; the likes go with their recommendation.
DeleteRecs(gone) ==
    /\ gone # {}
    /\ stored' = stored \ gone
    /\ likes' = {p \in likes : p[1] \notin gone}
    /\ UNCHANGED <<room, shown, chat, batches, likesShown, req>>

deleteByBatchId(b) == DeleteRecs({c \in stored : BatchOf[c] = b})

markActedOn(c) == c \in stored /\ DeleteRecs({c})

(***************************************************************************)
(* Likes.                                                                  *)
(***************************************************************************)

FindLiked(r, c, m) ==
    /\ req[r].op = "idle"
    /\ c \in stored
    /\ Goto(r, [op |-> "like", pair |-> <<c, m>>])
    /\ UNCHANGED <<room, shown, chat, recs, likesShown>>

\* The upsert; its insert fails when the recommendation is gone.
Like(r) ==
    /\ req[r].op = "like"
    /\ \/ /\ req[r].pair[1] \in stored
          /\ likes' = likes \cup {req[r].pair}
          /\ Goto(r, [op |-> "say_like", pair |-> req[r].pair])
       \/ /\ req[r].pair[1] \notin stored
          /\ Finish(r)
          /\ UNCHANGED likes
    /\ UNCHANGED <<room, shown, chat, stored, batches, likesShown>>

\* Slip: a like that is taken back is not announced.
Unlike_Silently(r, p) ==
    /\ req[r].op = "idle"
    /\ p \in likes
    /\ likes' = likes \ {p}
    /\ UNCHANGED <<req, room, shown, chat, stored, batches, likesShown>>

\* The delete of a like that is not there fails, which is ignored.
Unlike(r, p) ==
    /\ req[r].op = "idle"
    /\ p \in likes
    /\ likes' = likes \ {p}
    /\ Goto(r, [op |-> "say_unlike", pair |-> p])
    /\ UNCHANGED <<room, shown, chat, stored, batches, likesShown>>

\* 'recommendation-liked'.
SayLiked(r) ==
    /\ \/ req[r].op = "say_like" /\ likesShown' = likesShown \cup {req[r].pair}
       \/ req[r].op = "say_unlike" /\ likesShown' = likesShown \ {req[r].pair}
    /\ Finish(r)
    /\ UNCHANGED <<room, shown, chat, recs>>

\* The process stops: what was not broadcast will not be, and every socket is
\* disconnected.
ServerCrash ==
    /\ \E r \in Requests : req[r] # Idle
    /\ req' = [r \in Requests |-> Idle]
    /\ room' = {}
    /\ UNCHANGED <<shown, chat, recs, likesShown>>
-----------------------------------------------------------------------------
ToSay(p) == {r \in Requests : req[r].op \in {"say_like", "say_unlike"} /\ req[r].pair = p}

Overtaking ==
    \E r1, r2 \in Requests : r1 # r2 /\ req[r1].op = "say" /\ req[r2].op = "say"

Step(r) ==
    \/ \E t \in Texts : SendMessage(r, t)
    \/ \E b \in Batches : TriggerGeneration(r, b)
    \/ GenerationFails(r)
    \/ StoreBatch(r)
    \/ SaveCard(r)
    \/ SayMessage(r)
    \/ \E p \in Pairs : FindLiked(r, p[1], p[2]) \/ Unlike(r, p)
    \/ Like(r)
    \/ SayLiked(r)

Steps ==
    \/ \E m \in Members : JoinChat(m) \/ LeaveChat(m)
    \/ \E r \in Requests : Step(r)
    \/ \E b \in Batches : deleteByBatchId(b)
    \/ \E c \in Recs : markActedOn(c)

Next ==
    /\ \/ /\ Steps
          /\ blurred' = blurred \cup {p \in Pairs : \E r1, r2 \in ToSay(p)' : r1 # r2}
       \/ /\ ServerCrash
          /\ blurred' = blurred \cup {p \in Pairs : ToSay(p) # {}}
    /\ overtaken' = (overtaken \/ Overtaking')

Spec == Init /\ [][Next]_vars
-----------------------------------------------------------------------------
(***************************************************************************)
(* Properties.                                                             *)
(***************************************************************************)

\* Nobody in the room is left with isGenerating: true once no generation runs,
\* however many overlap, fail or lose their message.
IndicatorGoesOff ==
    shown \cap room # {} => \E r \in Requests : Generating(r)

Before(s, x, y) == \E i, j \in DOMAIN s : i < j /\ s[i] = x /\ s[j] = y

\* The room hears messages of the history, in its order and none twice, as long
\* as no two of them were stored and not yet broadcast at the same time.
HeardInOrder ==
    ~overtaken =>
      /\ ToSet(said) \subseteq ToSet(log)
      /\ \A i, j \in DOMAIN said :
           i < j => Before(log, said[i], said[j]) /\ ~Before(log, said[j], said[i])

\* What the room last heard about the like of a member is what is stored, when
\* nothing about it is on its way, unless two answers of the database crossed
\* or a crash lost one.
LikesShownAreStored ==
    \A p \in Pairs :
      p[1] \in stored /\ ToSay(p) = {} /\ p \notin blurred
        => (p \in likesShown) = (p \in likes)

(***************************************************************************)
(* The inductive invariant behind IndicatorGoesOff and LikesShownAreStored.*)
(***************************************************************************)

Asks(r, b) == req[r].op = "ask" /\ req[r].batch = b

\* A generation has its batchId for itself.
BatchesTaken ==
    \A q \in Requests, b \in Batches :
      Asks(q, b) => b \in batches /\ \A r \in Requests : Asks(r, b) => r = q

\* A recommendation whose batch was not made, or is being asked for, may still be stored;
\* nothing was stored or said about it so far.
ToCome(c) == BatchOf[c] \notin batches \/ \E r \in Requests : Asks(r, BatchOf[c])

UnstoredUnknown ==
    \A c \in Recs :
      ToCome(c)
        => c \notin stored /\ \A m \in Members : <<c, m>> \notin likesShown /\ ToSay(<<c, m>>) = {}

\* A like is of a stored recommendation, and what one request is about to say of it
\* is so, while no other is about to.
SaysWhatIsStored ==
    /\ \A p \in likes : p[1] \in stored
    /\ \A p \in Pairs, q, r \in Requests :
         p \notin blurred /\ q \in ToSay(p) /\ r \in ToSay(p) => q = r
    /\ \A p \in Pairs, r \in Requests :
         p \notin blurred /\ p[1] \in stored /\ r \in ToSay(p)
           => (p \in likes) = (req[r].op = "say_like")

LikesInv == BatchesTaken /\ UnstoredUnknown /\ SaysWhatIsStored /\ LikesShownAreStored

(***************************************************************************)
(* The inductive invariant behind HeardInOrder.                            *)
(***************************************************************************)

Makes(r, b) == req[r].op \in {"ask", "card"} /\ req[r].batch = b

\* A message is stored once: a text by its send, a batch by the one generation it has.
LogOnce ==
    /\ \A i, j \in DOMAIN log : log[i] = log[j] => i = j
    /\ \A b \in Batches : b \in ToSet(log) => b \in batches
    /\ \A q \in Requests, b \in Batches :
         Makes(q, b) => /\ b \in batches /\ b \notin ToSet(log)
                        /\ \A r \in Requests : Makes(r, b) => r = q

\* The message about to be broadcast comes after all that were.
SaysTheLatest ==
    \A r \in Requests :
      req[r].op = "say" =>
        /\ req[r].message \in ToSet(log)
        /\ \A i \in DOMAIN said : Before(log, said[i], req[r].message)

OrderInv == LogOnce /\ (~overtaken => ~Overtaking /\ SaysTheLatest) /\ HeardInOrder

ChatInv == TypeOK /\ IndicatorGoesOff /\ LikesInv /\ OrderInv
=============================================================================
