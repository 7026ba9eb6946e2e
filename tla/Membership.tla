----------------------------- MODULE Membership -----------------------------
(***************************************************************************)
(* The members of one group, their roles, and the invitations to it        *)
(* (groups.service, groups.repository, group.entity).                      *)
(*                                                                         *)
(* Every operation loads the group with its active members, checks its     *)
(* rules on that copy, and then writes with a statement that checks        *)
(* nothing again.  Check and write are two steps: between them other       *)
(* requests may change what was checked.  A check that fails refuses the   *)
(* request and changes nothing.  Users are never deleted by the program,   *)
(* so the deletedAt filter on them selects everybody.                      *)
(***************************************************************************)
EXTENDS Integers, FiniteSets

CONSTANTS Users,          \* the users of the service
          Invites,        \* identifiers of group_invitations rows
          Requests,       \* requests the server has in flight
          MaxMembers,     \* 50 in the code
          Absent          \* no user, no invitation

ASSUME MembershipAssumption ==
    /\ Users # {} /\ IsFiniteSet(Users)
    /\ MaxMembers \in Nat \ {0}
    /\ Absent \notin Users \cup Invites

VARIABLES member,         \* group_members: no row, active, or leftAt set
          role,           \* the role in the row
          deleted,        \* the group's deletedAt is set
          invite,         \* the group_invitations table
          req,            \* requests that passed their checks
          since           \* what each of them missed since (for the properties, see Recorded)

vars == <<member, role, deleted, invite, req, since>>

Roles == {"OWNER", "MEMBER"}

\* What a request that passed its checks is about to write.
Ops == {"idle", "add", "remove", "leave", "leave_delete", "set_role", "delete",
        "invite", "accept_add", "accept_mark", "reject"}

Request == [op : Ops, target : Users \cup {Absent}, role : Roles,
            id : Invites \cup {Absent}]

Idle == [op |-> "idle", target |-> Absent, role |-> "MEMBER", id |-> Absent]

Invitation == [status : {"none", "pending", "accepted", "gone"},
               user : Users \cup {Absent}, expired : BOOLEAN]

RowsTyped ==
    /\ member \in [Users -> {"none", "active", "left"}]
    /\ role \in [Users -> Roles]
    /\ deleted \in BOOLEAN
    /\ invite \in [Invites -> Invitation]
    /\ req \in [Requests -> Request]
    /\ \A r \in Requests :
         req[r].op \in {"add", "remove", "leave", "set_role", "invite", "accept_add",
                       "accept_mark", "reject"} => req[r].target \in Users

TypeOK ==
    /\ RowsTyped
    /\ since \in [Requests -> SUBSET Users]
    /\ \A r \in Requests : req[r].op = "idle" => since[r] = {}
-----------------------------------------------------------------------------
(***************************************************************************)
(* group.entity, on the members findByIdWithMembers loads.                 *)
(***************************************************************************)

Active == {u \in Users : member[u] = "active"}

isMember(u) == u \in Active

isOwner(u) == isMember(u) /\ role[u] = "OWNER"

OwnersOf == {u \in Users : isOwner(u)}

\* Slip: lets one member too many in.
CanAddMember_AtLimit == Cardinality(Active) <= MaxMembers

CanAddMember == Cardinality(Active) < MaxMembers

\* Request r passed its checks; no write needs to know whose request it is.
Checked(r, op, target, newRole, id) ==
    /\ req[r].op = "idle"
    /\ req' = [req EXCEPT ![r] = [op |-> op, target |-> target, role |-> newRole,
                                  id |-> id]]
    /\ UNCHANGED <<member, role, deleted, invite>>

Finish(r) == req' = [req EXCEPT ![r] = Idle]
-----------------------------------------------------------------------------
\* createGroup: the creator is the owner.
Init ==
    /\ \E creator \in Users :
         /\ member = [u \in Users |-> IF u = creator THEN "active" ELSE "none"]
         /\ role = [u \in Users |-> IF u = creator THEN "OWNER" ELSE "MEMBER"]
    /\ deleted = FALSE
    /\ invite = [i \in Invites |-> [status |-> "none", user |-> Absent,
                                    expired |-> FALSE]]
    /\ req = [r \in Requests |-> Idle]
    /\ since = [r \in Requests |-> {}]

(***************************************************************************)
(* The writes of groups.repository.  addMember is an INSERT: it fails on   *)
(* the unique (groupId, userId) whenever the user has a row, active or     *)
(* left.  removeMember and updateMemberRole are updateMany on that row,    *)
(* whatever its leftAt.                                                    *)
(***************************************************************************)

\* Slip: an upsert that reactivates a row instead of failing on it.
addMember_Upsert(u) ==
    /\ member' = [member EXCEPT ![u] = "active"]
    /\ role' = [role EXCEPT ![u] = "MEMBER"]

addMember(u) ==
    /\ member[u] = "none"
    /\ member' = [member EXCEPT ![u] = "active"]
    /\ role' = [role EXCEPT ![u] = "MEMBER"]

removeMember(u) ==
    member' = [member EXCEPT ![u] = IF @ = "none" THEN @ ELSE "left"]

updateMemberRole(u, newRole) ==
    role' = [role EXCEPT ![u] = IF member[u] = "none" THEN @ ELSE newRole]

(***************************************************************************)
(* Checks.                                                                 *)
(***************************************************************************)

AddCheck(r, a, t) ==
    /\ ~deleted
    /\ isOwner(a)
    /\ CanAddMember
    /\ Checked(r, "add", t, "MEMBER", Absent)

\* Slip: an owner may remove an owner.
RemoveCheck_AnyTarget(r, a, t) ==
    /\ ~deleted
    /\ t # a
    /\ isOwner(a)
    /\ Checked(r, "remove", t, "MEMBER", Absent)

RemoveCheck(r, a, t) ==
    /\ ~deleted
    /\ t # a
    /\ isOwner(a)
    /\ ~isOwner(t)
    /\ Checked(r, "remove", t, "MEMBER", Absent)

\* Slip: counts members instead of owners.
OnlyOwner_Alone(u) == isOwner(u) /\ Active = {u}

OnlyOwner(u) == OwnersOf = {u}

\* The only owner leaves last, and then the group is deleted; everybody else's
\* row is marked left.
LeaveCheck(r, a) ==
    /\ ~deleted
    /\ isMember(a)
    /\ OnlyOwner(a) => Cardinality(Active) = 1
    /\ Checked(r, IF OnlyOwner(a) THEN "leave_delete" ELSE "leave",
               a, "MEMBER", Absent)

SetRoleCheck(r, a, t, newRole) ==
    /\ ~deleted
    /\ isOwner(a)
    /\ t = a => newRole = "OWNER"
    /\ isMember(t)
    /\ Checked(r, "set_role", t, newRole, Absent)

DeleteGroupCheck(r, a) ==
    /\ ~deleted
    /\ isOwner(a)
    /\ Checked(r, "delete", Absent, "MEMBER", Absent)

\* Any member invites any user who is not an active member now.
InviteCheck(r, a, t, i) ==
    /\ ~deleted
    /\ isMember(a)
    /\ ~isMember(t)
    /\ invite[i].status = "none"
    /\ \A q \in Requests : req[q].op = "invite" => req[q].id # i
    /\ Checked(r, "invite", t, "MEMBER", i)

\* Neither the group's deletedAt nor its number of members is looked at.
AcceptCheck(r, a, i) ==
    /\ invite[i].status = "pending"
    /\ ~invite[i].expired
    /\ invite[i].user = a
    /\ Checked(r, "accept_add", a, "MEMBER", i)

\* Not whether the invitation was accepted.
RejectCheck(r, a, i) ==
    /\ invite[i].status \in {"pending", "accepted"}
    /\ invite[i].user = a
    /\ Checked(r, "reject", a, "MEMBER", i)

(***************************************************************************)
(* Writes.                                                                 *)
(***************************************************************************)

AddWrite(r) ==
    /\ req[r].op = "add"
    /\ \/ addMember(req[r].target)
       \/ member[req[r].target] # "none" /\ UNCHANGED <<member, role>>
    /\ Finish(r)
    /\ UNCHANGED <<deleted, invite>>

RemoveWrite(r) ==
    /\ req[r].op \in {"remove", "leave"}
    /\ removeMember(req[r].target)
    /\ Finish(r)
    /\ UNCHANGED <<role, deleted, invite>>

SetRoleWrite(r) ==
    /\ req[r].op = "set_role"
    /\ updateMemberRole(req[r].target, req[r].role)
    /\ Finish(r)
    /\ UNCHANGED <<member, deleted, invite>>

\* softDelete; the members keep their rows.
DeleteWrite(r) ==
    /\ req[r].op \in {"delete", "leave_delete"}
    /\ deleted' = TRUE
    /\ Finish(r)
    /\ UNCHANGED <<member, role, invite>>

InviteWrite(r) ==
    /\ req[r].op = "invite"
    /\ invite' = [invite EXCEPT ![req[r].id] =
                    [status |-> "pending", user |-> req[r].target, expired |-> FALSE]]
    /\ Finish(r)
    /\ UNCHANGED <<member, role, deleted>>

\* Slip: the invitation is marked accepted before the member is added.
AcceptAdd_MarksFirst(r) ==
    /\ req[r].op = "accept_add"
    /\ invite' = [invite EXCEPT ![req[r].id].status = "accepted"]
    /\ Finish(r)
    /\ UNCHANGED <<member, role, deleted>>

\* Adding the member and marking the invitation are two statements, in no
\* transaction; when the insert fails the second is not reached.
AcceptAdd(r) ==
    /\ req[r].op = "accept_add"
    /\ \/ /\ addMember(req[r].target)
          /\ req' = [req EXCEPT ![r] = [@ EXCEPT !.op = "accept_mark"]]
       \/ /\ member[req[r].target] # "none"
          /\ UNCHANGED <<member, role>>
          /\ Finish(r)
    /\ UNCHANGED <<deleted, invite>>

\* update by id: fails when the invitation was rejected, that is deleted.
AcceptMark(r) ==
    /\ req[r].op = "accept_mark"
    /\ invite' = IF invite[req[r].id].status = "gone" THEN invite
                 ELSE [invite EXCEPT ![req[r].id].status = "accepted"]
    /\ Finish(r)
    /\ UNCHANGED <<member, role, deleted>>

RejectWrite(r) ==
    /\ req[r].op = "reject"
    /\ invite' = [invite EXCEPT ![req[r].id].status = "gone"]
    /\ Finish(r)
    /\ UNCHANGED <<member, role, deleted>>

\* expiresAt passes, seven days after the invitation.
Expire(i) ==
    /\ invite[i].status = "pending"
    /\ ~invite[i].expired
    /\ invite' = [invite EXCEPT ![i].expired = TRUE]
    /\ UNCHANGED <<member, role, deleted, req>>

\* The process stops: what was checked but not written is not written.
ServerCrash ==
    /\ \E r \in Requests : req[r].op # "idle"
    /\ req' = [r \in Requests |-> Idle]
    /\ UNCHANGED <<member, role, deleted, invite>>
-----------------------------------------------------------------------------
Check(r) ==
    \E a \in Users :
      \/ \E t \in Users :
           \/ AddCheck(r, a, t)
           \/ RemoveCheck(r, a, t)
           \/ \E newRole \in Roles : SetRoleCheck(r, a, t, newRole)
           \/ \E i \in Invites : InviteCheck(r, a, t, i)
      \/ LeaveCheck(r, a)
      \/ DeleteGroupCheck(r, a)
      \/ \E i \in Invites : AcceptCheck(r, a, i) \/ RejectCheck(r, a, i)

Write(r) ==
    \/ AddWrite(r)
    \/ RemoveWrite(r)
    \/ SetRoleWrite(r)
    \/ DeleteWrite(r)
    \/ InviteWrite(r)
    \/ AcceptAdd(r)
    \/ AcceptMark(r)
    \/ RejectWrite(r)

Steps ==
    \/ \E r \in Requests : Check(r) \/ Write(r)
    \/ \E i \in Invites : Expire(i)
    \/ ServerCrash

\* What a step changes under request r that checked it: for an add who joined, for a
\* leave and a change of role who first became or stopped being an owner, for a removal its
\* target when an owner promotes them.
Changed(r) ==
    {u \in Users :
       \/ req[r].op = "add" /\ ~isMember(u) /\ isMember(u)'
       \/ req[r].op \in {"leave", "set_role"} /\ since[r] = {} /\ isOwner(u) # isOwner(u)'
       \/ /\ req[r].op = "remove" /\ req[r].target = u
          /\ \E q \in Requests :
               SetRoleWrite(q) /\ req[q].target = u /\ req[q].role = "OWNER"}

\* since follows every step and is read by no guard.
Recorded ==
    since' = [r \in Requests |->
                IF req[r].op = "idle" \/ req'[r].op = "idle" THEN {}
                ELSE since[r] \cup Changed(r)]

Next == Steps /\ Recorded

Spec == Init /\ [][Next]_vars
-----------------------------------------------------------------------------
(***************************************************************************)
(* Properties, all of them of every interleaving.                          *)
(***************************************************************************)

\* An invitation is accepted only once its user has become a member, whatever
\* other requests, crashes or a second accept of it come in between.
AcceptedMeansJoined ==
    \A i \in Invites :
      invite[i].status = "accepted" => member[invite[i].user] # "none"

\* Nobody who left or was removed is let back in by a request that was checked
\* before, or by an invitation that was sent before.
LeftIsFinal ==
    [][\A u \in Users : member[u] = "left" => member'[u] = "left"]_vars

\* A user is added once, of all the accepts of all their invitations and all the
\* owners who add them: the others stop at the unique key.
Added(u) == member[u] # "active" /\ member'[u] = "active"

AddedOnce == \A u \in Users : [](member[u] # "none" => [][~Added(u)]_vars)

\* A group loses its last owner in one way only: somebody who leaves, is removed or
\* is given another role in a request under which the owners changed after it had
\* checked them.  'You are the only owner. Please promote another member to owner
\* before leaving.', 'You cannot demote yourself. Ask another owner to do this, or
\* leave the group.'
OwnerRemains ==
    [][ OwnersOf # {} /\ OwnersOf' = {} =>
          \E r \in Requests : (RemoveWrite(r) \/ SetRoleWrite(r)) /\ since[r] # {} ]_vars

\* 'Cannot remove the group owner': an owner goes by leaving, or by a removal that was
\* checked before an owner promoted them; no join makes an owner.
OwnerNeverEvicted ==
    [][ \A u \in Users :
          isOwner(u) /\ member'[u] = "left" =>
            \E r \in Requests :
              /\ RemoveWrite(r) /\ req[r].target = u
              /\ req[r].op = "leave" \/ u \in since[r] ]_vars

\* Owners adding members take the group over the limit by no more than joined since
\* the check, by other adds or by invitations, and are still there.
AddKeepsLimit ==
    [][ \A r \in Requests :
          AddWrite(r) /\ member' # member =>
            Cardinality(Active') <= MaxMembers + Cardinality(since[r] \cap Active) ]_vars

\* The inductive invariant behind the last three: what a request checked holds but for
\* what it missed.
ChecksHold ==
    \A r \in Requests :
      /\ req[r].op = "add" => Cardinality(Active \ since[r]) < MaxMembers
      /\ req[r].op = "remove" /\ isOwner(req[r].target) => req[r].target \in since[r]
      /\ req[r].op = "leave" /\ since[r] = {} => ~OnlyOwner(req[r].target)
      /\ req[r].op = "set_role" /\ since[r] = {} /\ OnlyOwner(req[r].target) =>
           req[r].role = "OWNER"

OwnerInv == TypeOK /\ ChecksHold

\* The inductive invariant behind AcceptedMeansJoined: invitations keep their
\* user, and the request that marks one has added its user.
InvitationsKept ==
    /\ \A i \in Invites : invite[i].status # "none" => invite[i].user \in Users
    /\ \A r \in Requests :
         /\ req[r].op = "invite" =>
              /\ req[r].id \in Invites /\ invite[req[r].id].status = "none"
              /\ \A q \in Requests : req[q].op = "invite" /\ req[q].id = req[r].id => q = r
         /\ req[r].op \in {"accept_add", "accept_mark", "reject"} =>
              /\ req[r].id \in Invites /\ invite[req[r].id].status # "none"
              /\ invite[req[r].id].user = req[r].target
         /\ req[r].op = "accept_mark" => member[req[r].target] # "none"

AcceptInv == RowsTyped /\ InvitationsKept /\ AcceptedMeansJoined
=============================================================================
