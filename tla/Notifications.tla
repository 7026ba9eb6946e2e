---------------------------- MODULE Notifications ----------------------------
(***************************************************************************)
(* The notifications about one group, beside its Membership: what a        *)
(* request commits is emitted to listeners in the same process, which      *)
(* store or update a notification later on their own, in any order         *)
(* (notifications.service, notifications.repository; the emits are in      *)
(* groups.service).  Nothing redelivers an event, and a listener that      *)
(* fails only logs.                                                        *)
(*                                                                         *)
(* The token of an invitation reaches its user in the notification and in  *)
(* no other way: it is in no answer of the API.                            *)
(***************************************************************************)
EXTENDS Membership

VARIABLES events,         \* events emitted whose listener has not written yet
          notice,         \* the invitation's notification and the status in its payload
          missed,         \* an event had no effect: crash, or its listener failed (for the properties)
          crossed         \* two answers to one invitation were on their way at once (for the properties)

noticeVars == <<events, notice, missed, crossed>>

noticesVars == <<vars, noticeVars>>

\* GROUP_EVENTS.INVITED, and INVITATION_RESPONDED with its status.
Events == [kind : {"INVITED", "ACCEPTED", "REJECTED"}, id : Invites]

NoticesTypeOK ==
    /\ TypeOK
    /\ events \subseteq Events
    /\ notice \in [Invites -> {"none", "open", "ACCEPTED", "REJECTED"}]
    /\ missed \in BOOLEAN
    /\ crossed \in BOOLEAN

NoticesInit ==
    /\ Init
    /\ events = {}
    /\ notice = [i \in Invites |-> "none"]
    /\ missed = FALSE
    /\ crossed = FALSE
-----------------------------------------------------------------------------
(***************************************************************************)
(* Requests.  An event is emitted when the write before it succeeded.      *)
(***************************************************************************)

Event(kind, id) == [kind |-> kind, id |-> id]

Emit(happened, event) == events' = IF happened THEN events \cup {event} ELSE events

InviteAndEmit(r) == InviteWrite(r) /\ Emit(TRUE, Event("INVITED", req[r].id))

\* Slip: emits before the row is marked.
AcceptAndEmit_Early(r) ==
    \/ AcceptMark(r) /\ UNCHANGED events
    \/ AcceptAdd(r) /\ Emit(TRUE, Event("ACCEPTED", req[r].id))

AcceptAndEmit(r) ==
    \/ AcceptMark(r) /\ Emit(invite[req[r].id].status # "gone", Event("ACCEPTED", req[r].id))
    \/ AcceptAdd(r) /\ UNCHANGED events

\* The delete fails when another rejection was faster.
RejectAndEmit(r) ==
    /\ RejectWrite(r)
    /\ Emit(invite[req[r].id].status # "gone", Event("REJECTED", req[r].id))

\* An invitation is answered by somebody who has its token.
CheckTold(r) ==
    /\ Check(r)
    /\ req'[r].op \in {"accept_add", "reject"} => notice[req'[r].id] # "none"
    /\ UNCHANGED events

SilentWrite(r) ==
    /\ AddWrite(r) \/ RemoveWrite(r) \/ SetRoleWrite(r) \/ DeleteWrite(r)
    /\ UNCHANGED events

RequestStep ==
    /\ \E r \in Requests :
         CheckTold(r) \/ InviteAndEmit(r) \/ AcceptAndEmit(r)
           \/ RejectAndEmit(r) \/ SilentWrite(r)
    /\ UNCHANGED <<notice, missed>>

\* Time passes.
ExpireStep == (\E i \in Invites : Expire(i)) /\ UNCHANGED <<events, notice, missed>>
-----------------------------------------------------------------------------
(***************************************************************************)
(* Listeners.                                                              *)
(***************************************************************************)

Handled(e) == events' = events \ {e} /\ UNCHANGED <<member, role, deleted, invite, req>>

\* sendToUser: the row is stored, then pushed to the user's sockets.
onGroupInvited(i) ==
    /\ Event("INVITED", i) \in events
    /\ notice' = [notice EXCEPT ![i] = "open"]
    /\ Handled(Event("INVITED", i))
    /\ UNCHANGED missed

\* Slip: a later answer does not replace the status of an earlier one.
updateInviteStatus_First(i, status) ==
    notice' = [notice EXCEPT ![i] = IF @ = "open" THEN status ELSE @]

\* updateInviteStatusByToken finds the rows with the token, which are never
\* deleted, and sets the status in their payload whatever it was.
updateInviteStatus(i, status) ==
    notice' = [notice EXCEPT ![i] = IF @ = "none" THEN @ ELSE status]

onGroupInvitationResponded(i, status) ==
    /\ Event(status, i) \in events
    /\ updateInviteStatus(i, status)
    /\ Handled(Event(status, i))
    /\ UNCHANGED missed

\* The database refuses the listener's statement; the error is logged.
ListenerFails(e) ==
    /\ e \in events
    /\ missed' = TRUE
    /\ Handled(e)
    /\ UNCHANGED notice

\* The process stops, with the events in it.
Crash ==
    /\ \/ ServerCrash
       \/ events # {} /\ UNCHANGED <<member, role, deleted, invite, req>>
    /\ events' = {}
    /\ missed' = (missed \/ events # {})
    /\ UNCHANGED notice

ListenerStep ==
    \/ \E i \in Invites :
         \/ onGroupInvited(i)
         \/ \E status \in {"ACCEPTED", "REJECTED"} : onGroupInvitationResponded(i, status)
    \/ \E e \in events : ListenerFails(e)
-----------------------------------------------------------------------------
AnswersCross(i) == Event("ACCEPTED", i) \in events /\ Event("REJECTED", i) \in events

NoticesNext ==
    /\ RequestStep \/ ExpireStep \/ ListenerStep \/ Crash
    /\ Recorded
    /\ crossed' = (crossed \/ \E i \in Invites : AnswersCross(i)')

NoticesSpec == NoticesInit /\ [][NoticesNext]_noticesVars
-----------------------------------------------------------------------------
(***************************************************************************)
(* Properties.                                                             *)
(***************************************************************************)

\* A notification never runs ahead of what it tells, whatever overlaps, fails
\* or is lost: accepted, the user has joined and the invitation is marked;
\* rejected, the invitation is deleted.
NoticeTruthful ==
    \A i \in Invites :
      /\ notice[i] # "none" => invite[i].status # "none"
      /\ notice[i] = "ACCEPTED" =>
           invite[i].status \in {"accepted", "gone"} /\ member[invite[i].user] # "none"
      /\ notice[i] = "REJECTED" => invite[i].status = "gone"

Told == [none |-> "none", pending |-> "open", accepted |-> "ACCEPTED", gone |-> "REJECTED"]

\* Once the listeners have caught up every notification says what became of
\* its invitation, as long as no event was missed and no two answers to one
\* invitation crossed: overlapping requests do not matter, not even an accept
\* whose invitation is rejected under it.
NoticesCatchUp ==
    events = {} /\ ~missed /\ ~crossed
      => \A i \in Invites : notice[i] = Told[invite[i].status]

(***************************************************************************)
(* The inductive invariants behind both.                                   *)
(***************************************************************************)

\* What is on its way to a listener is as true as what is stored.
EventsTruthful ==
    \A i \in Invites :
      /\ Event("INVITED", i) \in events => invite[i].status # "none"
      /\ Event("ACCEPTED", i) \in events =>
           invite[i].status \in {"accepted", "gone"} /\ member[invite[i].user] # "none"
      /\ Event("REJECTED", i) \in events => invite[i].status = "gone"

TruthInv == NoticesTypeOK /\ AcceptInv /\ EventsTruthful /\ NoticeTruthful

OnTheWay(i) == {kind \in {"INVITED", "ACCEPTED", "REJECTED"} : Event(kind, i) \in events}

\* A notification is up to date, or one event is on its way that will make it so.
Due(i) ==
    \/ OnTheWay(i) = {} /\ notice[i] = Told[invite[i].status]
    \/ OnTheWay(i) = {"INVITED"} /\ notice[i] = "none" /\ invite[i].status = "pending"
    \/ OnTheWay(i) = {"ACCEPTED"} /\ notice[i] # "none" /\ invite[i].status = "accepted"
    \/ OnTheWay(i) = {"REJECTED"} /\ notice[i] # "none" /\ invite[i].status = "gone"

\* Who answers an invitation was told of it, and nothing untells them.
AnswersTold ==
    \A r \in Requests :
      req[r].op \in {"accept_add", "accept_mark", "reject"} => notice[req[r].id] # "none"

CatchUpInv == TruthInv /\ AnswersTold /\ (~missed /\ ~crossed => \A i \in Invites : Due(i))
=============================================================================
