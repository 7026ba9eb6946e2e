-------------------------- MODULE MembershipProofs --------------------------
(***************************************************************************)
(* Proofs about Membership, and about Notifications, which composes it     *)
(* with the listeners of its events, for every set of users, invitations   *)
(* and requests.                                                           *)
(***************************************************************************)
EXTENDS Notifications, FiniteSetTheorems, TLAPS

\* What the requests of a state must look like (the last parts of RowsTyped).
ReqOK(q) ==
    /\ q \in [Requests -> Request]
    /\ \A r \in Requests :
         q[r].op \in {"add", "remove", "leave", "set_role", "invite", "accept_add",
                      "accept_mark", "reject"} => q[r].target \in Users

LEMMA IdleType == Idle \in Request /\ Idle.op = "idle"
  BY DEF Idle, Request, Ops, Roles

LEMMA FinishType ==
  ASSUME RowsTyped, NEW r \in Requests, Finish(r)
  PROVE  ReqOK(req')
  BY IdleType DEF Finish, RowsTyped, ReqOK

LEMMA CheckedType ==
  ASSUME RowsTyped, NEW r \in Requests, NEW op \in Ops,
         NEW t \in Users \cup {Absent}, NEW newRole \in Roles,
         NEW i \in Invites \cup {Absent}, Checked(r, op, t, newRole, i),
         t \in Users \/ op = "delete"
  PROVE  RowsTyped'
  <1> DEFINE new == [op |-> op, target |-> t, role |-> newRole, id |-> i]
  <1>1. new \in Request
    BY DEF Request
  <1>2. req' = [req EXCEPT ![r] = new] /\ UNCHANGED <<member, role, deleted, invite>>
    BY DEF Checked
  <1> QED
    BY <1>1, <1>2 DEF RowsTyped

LEMMA CheckType == ASSUME RowsTyped, NEW r \in Requests, Check(r) PROVE RowsTyped'
  <1> USE DEF Ops, Roles
  <1>1. ASSUME NEW a \in Users, NEW t \in Users, AddCheck(r, a, t) PROVE RowsTyped'
    BY <1>1, CheckedType DEF AddCheck
  <1>2. ASSUME NEW a \in Users, NEW t \in Users, RemoveCheck(r, a, t) PROVE RowsTyped'
    BY <1>2, CheckedType DEF RemoveCheck
  <1>3. ASSUME NEW a \in Users, NEW t \in Users, NEW n \in Roles, SetRoleCheck(r, a, t, n)
        PROVE  RowsTyped'
    BY <1>3, CheckedType DEF SetRoleCheck
  <1>4. ASSUME NEW a \in Users, NEW t \in Users, NEW i \in Invites, InviteCheck(r, a, t, i)
        PROVE  RowsTyped'
    BY <1>4, CheckedType DEF InviteCheck
  <1>5. ASSUME NEW a \in Users, LeaveCheck(r, a) PROVE RowsTyped'
    BY <1>5, CheckedType DEF LeaveCheck
  <1>6. ASSUME NEW a \in Users, DeleteGroupCheck(r, a) PROVE RowsTyped'
    BY <1>6, CheckedType DEF DeleteGroupCheck
  <1>7. ASSUME NEW a \in Users, NEW i \in Invites, AcceptCheck(r, a, i) PROVE RowsTyped'
    BY <1>7, CheckedType DEF AcceptCheck
  <1>8. ASSUME NEW a \in Users, NEW i \in Invites, RejectCheck(r, a, i) PROVE RowsTyped'
    BY <1>8, CheckedType DEF RejectCheck
  <1> HIDE DEF Ops, Roles
  <1> QED
    BY <1>1, <1>2, <1>3, <1>4, <1>5, <1>6, <1>7, <1>8 DEF Check

LEMMA WriteType == ASSUME RowsTyped, NEW r \in Requests, Write(r) PROVE RowsTyped'
  <1>0. req[r] \in Request
    BY DEF RowsTyped
  <1>1. CASE AddWrite(r)
    BY <1>1, FinishType DEF AddWrite, addMember, RowsTyped, ReqOK, Roles
  <1>2. CASE RemoveWrite(r)
    BY <1>2, FinishType DEF RemoveWrite, removeMember, RowsTyped, ReqOK
  <1>3. CASE SetRoleWrite(r)
    BY <1>0, <1>3, FinishType DEF SetRoleWrite, updateMemberRole, RowsTyped, ReqOK, Request
  <1>4. CASE DeleteWrite(r)
    BY <1>4, FinishType DEF DeleteWrite, RowsTyped, ReqOK
  <1>5. CASE InviteWrite(r)
    BY <1>0, <1>5, FinishType DEF InviteWrite, RowsTyped, ReqOK, Invitation, Request
  <1>6. CASE AcceptAdd(r)
    <2>1. CASE Finish(r)
      BY <2>1, <1>6, FinishType DEF AcceptAdd, addMember, RowsTyped, ReqOK, Roles
    <2>2. CASE req' = [req EXCEPT ![r] = [@ EXCEPT !.op = "accept_mark"]]
      <3>1. [req[r] EXCEPT !.op = "accept_mark"] \in Request
        BY <1>0 DEF Request, Ops
      <3>2. req[r].target \in Users
        BY <1>6 DEF AcceptAdd, RowsTyped
      <3>3. ReqOK(req')
        BY <2>2, <3>1, <3>2, <1>0 DEF ReqOK, RowsTyped, Request
      <3> QED
        BY <1>6, <3>3 DEF AcceptAdd, addMember, RowsTyped, ReqOK, Roles
    <2> QED
      BY <1>6, <2>1, <2>2 DEF AcceptAdd
  <1>7. CASE AcceptMark(r)
    <2>1. \A i \in Invites : [invite[i] EXCEPT !.status = "accepted"] \in Invitation
      BY DEF RowsTyped, Invitation
    <2>2. invite' \in [Invites -> Invitation]
      BY <2>1, <1>7 DEF AcceptMark, RowsTyped
    <2> QED
      BY <2>2, <1>7, FinishType DEF AcceptMark, RowsTyped, ReqOK
  <1>8. CASE RejectWrite(r)
    <2>1. \A i \in Invites : [invite[i] EXCEPT !.status = "gone"] \in Invitation
      BY DEF RowsTyped, Invitation
    <2>2. invite' \in [Invites -> Invitation]
      BY <2>1, <1>8 DEF RejectWrite, RowsTyped
    <2> QED
      BY <2>2, <1>8, FinishType DEF RejectWrite, RowsTyped, ReqOK
  <1> QED
    BY <1>1, <1>2, <1>3, <1>4, <1>5, <1>6, <1>7, <1>8 DEF Write

LEMMA InitRows == Init => RowsTyped
  <1> SUFFICES ASSUME Init PROVE RowsTyped
    OBVIOUS
  <1>1. member \in [Users -> {"none", "active", "left"}] /\ role \in [Users -> Roles]
    BY DEF Init, Roles
  <1>2. deleted \in BOOLEAN
    BY DEF Init
  <1>3. invite \in [Invites -> Invitation]
    BY DEF Init, Invitation
  <1>4. ReqOK(req)
    BY IdleType DEF Init, ReqOK
  <1> QED
    BY <1>1, <1>2, <1>3, <1>4 DEF RowsTyped, ReqOK

LEMMA NextRows == RowsTyped /\ [Next]_vars => RowsTyped'
  <1> SUFFICES ASSUME RowsTyped, [Next]_vars PROVE RowsTyped'
    OBVIOUS
  <1>1. ASSUME NEW r \in Requests, Check(r) \/ Write(r) PROVE RowsTyped'
    BY <1>1, CheckType, WriteType
  <1>2. ASSUME NEW i \in Invites, Expire(i) PROVE RowsTyped'
    BY <1>2 DEF Expire, RowsTyped, Invitation
  <1>3. CASE ServerCrash
    BY <1>3, IdleType DEF ServerCrash, RowsTyped
  <1>4. CASE UNCHANGED vars
    BY <1>4 DEF vars, RowsTyped
  <1> QED
    BY <1>1, <1>2, <1>3, <1>4 DEF Next, Steps

LEMMA InitType == Init => TypeOK
  BY InitRows DEF Init, TypeOK

LEMMA NextType == TypeOK /\ [Next]_vars => TypeOK'
  <1> SUFFICES ASSUME TypeOK, [Next]_vars PROVE TypeOK'
    OBVIOUS
  <1>1. RowsTyped'
    BY NextRows DEF TypeOK
  <1>2. CASE Recorded
    <2>1. \A r \in Requests : Changed(r) \subseteq Users
      BY DEF Changed
    <2> QED
      BY <1>1, <1>2, <2>1 DEF Recorded, TypeOK
  <1>3. CASE UNCHANGED vars
    BY <1>1, <1>3 DEF vars, TypeOK
  <1> QED
    BY <1>2, <1>3 DEF Next

\* Every reachable state of members, invitations and requests is well typed.
THEOREM MembershipTypeCorrect == Spec => []TypeOK
  BY InitType, NextType, PTL DEF Spec
-----------------------------------------------------------------------------
(***************************************************************************)
(* Owners and the limit: what a request checked still holds when it        *)
(* writes, but for what it missed.                                         *)
(***************************************************************************)

\* What a check leaves behind.
LEMMA CheckedReq ==
  ASSUME RowsTyped, NEW r \in Requests, NEW op \in Ops, NEW t, NEW n, NEW i, Checked(r, op, t, n, i)
  PROVE  /\ req[r].op = "idle"
         /\ req'[r].op = op /\ req'[r].target = t /\ req'[r].role = n
         /\ \A q \in Requests \ {r} : req'[q] = req[q]
         /\ UNCHANGED <<member, role, deleted, invite>>
  BY DEF Checked, RowsTyped

\* A check changes nothing but its own request.
LEMMA CheckKeeps ==
  ASSUME RowsTyped, NEW r \in Requests, Check(r)
  PROVE  /\ req[r].op = "idle"
         /\ \A q \in Requests \ {r} : req'[q] = req[q]
         /\ UNCHANGED <<member, role, deleted, invite>>
  <1>1. PICK op \in Ops : \E t, n, i : Checked(r, op, t, n, i)
    BY DEF Check, AddCheck, RemoveCheck, SetRoleCheck, InviteCheck, LeaveCheck,
           DeleteGroupCheck, AcceptCheck, RejectCheck, Ops
  <1> QED
    BY <1>1, CheckedReq

\* A write ends its request, or leaves it at marking the invitation.
LEMMA WriteEnds ==
  ASSUME RowsTyped, NEW r \in Requests, Write(r)
  PROVE  /\ req[r].op # "idle" /\ req'[r].op \in {"idle", "accept_mark"}
         /\ \A q \in Requests \ {r} : req'[q] = req[q]
  BY DEF RowsTyped, Idle, Finish, Request, Write, AddWrite, RemoveWrite, SetRoleWrite,
         DeleteWrite, InviteWrite, AcceptAdd, AcceptMark, RejectWrite

\* Only a change of role makes an owner: those who join are members.
LEMMA BecomesOwner ==
  ASSUME RowsTyped, Steps, NEW u \in Users, ~isOwner(u), isOwner(u)'
  PROVE  \E r \in Requests :
           SetRoleWrite(r) /\ req[r].target = u /\ req[r].role = "OWNER"
  <1>1. ASSUME NEW r \in Requests, Check(r) PROVE FALSE
    BY <1>1, CheckKeeps DEF isOwner, isMember, Active
  <1>2. ASSUME NEW r \in Requests, AddWrite(r) \/ AcceptAdd(r) PROVE FALSE
    BY <1>2 DEF AddWrite, AcceptAdd, addMember, isOwner, isMember, Active, RowsTyped
  <1>3. ASSUME NEW r \in Requests, RemoveWrite(r) PROVE FALSE
    BY <1>3 DEF RemoveWrite, removeMember, isOwner, isMember, Active, RowsTyped
  <1>4. ASSUME NEW r \in Requests, SetRoleWrite(r)
        PROVE  req[r].target = u /\ req[r].role = "OWNER"
    BY <1>4 DEF SetRoleWrite, updateMemberRole, isOwner, isMember, Active, RowsTyped
  <1>5. CASE UNCHANGED <<member, role>>
    BY <1>5 DEF isOwner, isMember, Active
  <1> QED
    BY <1>1, <1>2, <1>3, <1>4, <1>5
       DEF Steps, Write, DeleteWrite, InviteWrite, AcceptMark, RejectWrite, Expire, ServerCrash

\* Only a removal, a leave or a change of role unmakes one, and only its target.
LEMMA LosesOwner ==
  ASSUME RowsTyped, Steps, NEW u \in Users, isOwner(u), ~isOwner(u)'
  PROVE  \E r \in Requests :
           /\ req[r].target = u
           /\ \/ RemoveWrite(r) /\ UNCHANGED role
              \/ SetRoleWrite(r) /\ req[r].role # "OWNER" /\ UNCHANGED member
           /\ \A v \in Users \ {u} : isOwner(v)' <=> isOwner(v)
  <1>1. ASSUME NEW r \in Requests, Check(r) PROVE FALSE
    BY <1>1, CheckKeeps DEF isOwner, isMember, Active
  <1>2. ASSUME NEW r \in Requests, AddWrite(r) \/ AcceptAdd(r) PROVE FALSE
    BY <1>2 DEF AddWrite, AcceptAdd, addMember, isOwner, isMember, Active, RowsTyped
  <1>3. ASSUME NEW r \in Requests, RemoveWrite(r)
        PROVE  /\ req[r].target = u /\ UNCHANGED role
               /\ \A v \in Users \ {u} : isOwner(v)' <=> isOwner(v)
    BY <1>3 DEF RemoveWrite, removeMember, isOwner, isMember, Active, RowsTyped
  <1>4. ASSUME NEW r \in Requests, SetRoleWrite(r)
        PROVE  /\ req[r].target = u /\ req[r].role # "OWNER" /\ UNCHANGED member
               /\ \A v \in Users \ {u} : isOwner(v)' <=> isOwner(v)
    BY <1>4 DEF SetRoleWrite, updateMemberRole, isOwner, isMember, Active, RowsTyped
  <1>5. CASE UNCHANGED <<member, role>>
    BY <1>5 DEF isOwner, isMember, Active
  <1> QED
    BY <1>1, <1>2, <1>3, <1>4, <1>5
       DEF Steps, Write, DeleteWrite, InviteWrite, AcceptMark, RejectWrite, Expire, ServerCrash

\* What ChecksHold says of one request.
CheckHolds(r) ==
    /\ req[r].op = "add" => Cardinality(Active \ since[r]) < MaxMembers
    /\ req[r].op = "remove" /\ isOwner(req[r].target) => req[r].target \in since[r]
    /\ req[r].op = "leave" /\ since[r] = {} => ~OnlyOwner(req[r].target)
    /\ req[r].op = "set_role" /\ since[r] = {} /\ OnlyOwner(req[r].target) =>
         req[r].role = "OWNER"

LEMMA ChecksOne == ChecksHold <=> \A r \in Requests : CheckHolds(r)
  BY DEF ChecksHold, CheckHolds

\* A request that just passed its checks missed nothing.
LEMMA CheckStarts ==
  ASSUME TypeOK, NEW r \in Requests, Check(r), Recorded
  PROVE  CheckHolds(r)'
  <1>0. RowsTyped
    BY DEF TypeOK
  <1>1. since'[r] = {} /\ UNCHANGED <<member, role>>
    BY <1>0, CheckKeeps DEF Recorded
  <1>2. Active' = Active /\ \A u \in Users : isOwner(u)' <=> isOwner(u)
    BY <1>1 DEF isOwner, isMember, Active
  <1>3. \A u \in Users : OnlyOwner(u)' <=> OnlyOwner(u)
    BY <1>2 DEF OnlyOwner, OwnersOf
  <1> USE <1>0, CheckedReq DEF Ops
  <1>4. ASSUME NEW a \in Users, NEW t \in Users, AddCheck(r, a, t) PROVE CheckHolds(r)'
    <2>1. req'[r].op = "add" /\ Cardinality(Active') < MaxMembers /\ Active' \ since'[r] = Active'
      BY <1>1, <1>2, <1>4 DEF AddCheck, CanAddMember
    <2> QED
      BY <2>1 DEF CheckHolds
  <1>5. ASSUME NEW a \in Users, NEW t \in Users, RemoveCheck(r, a, t) PROVE CheckHolds(r)'
    BY <1>2, <1>5 DEF RemoveCheck, CheckHolds
  <1>6. ASSUME NEW a \in Users, NEW t \in Users, NEW n \in Roles, SetRoleCheck(r, a, t, n)
        PROVE  CheckHolds(r)'
    <2>1. /\ req'[r].op = "set_role" /\ req'[r].target = t /\ req'[r].role = n
          /\ isOwner(a) /\ (t = a => n = "OWNER")
      BY <1>6 DEF SetRoleCheck
    <2>2. OnlyOwner(t) => t = a
      BY <2>1 DEF OnlyOwner, OwnersOf
    <2> QED
      BY <1>3, <2>1, <2>2 DEF CheckHolds
  <1>7. ASSUME NEW a \in Users, LeaveCheck(r, a) PROVE CheckHolds(r)'
    <2>1. CASE OnlyOwner(a)
      BY <1>7, <2>1 DEF LeaveCheck, CheckHolds
    <2>2. CASE ~OnlyOwner(a)
      BY <1>3, <1>7, <2>2 DEF LeaveCheck, CheckHolds
    <2> QED
      BY <2>1, <2>2
  <1>8. ASSUME NEW a \in Users, DeleteGroupCheck(r, a) PROVE CheckHolds(r)'
    BY <1>8 DEF DeleteGroupCheck, CheckHolds
  <1>9. ASSUME NEW a \in Users, NEW t \in Users, NEW i \in Invites,
               InviteCheck(r, a, t, i) \/ AcceptCheck(r, a, i) \/ RejectCheck(r, a, i)
        PROVE  CheckHolds(r)'
    BY <1>9 DEF InviteCheck, AcceptCheck, RejectCheck, CheckHolds
  <1> QED
    BY <1>4, <1>5, <1>6, <1>7, <1>8, <1>9 DEF Check

\* A request that waits while others step misses what they change, and nothing else
\* that it checked is lost.
LEMMA CheckStays ==
  ASSUME TypeOK, NEW r \in Requests, CheckHolds(r), Steps, Recorded,
         req[r].op # "idle", req'[r] = req[r]
  PROVE  CheckHolds(r)'
  <1>0. RowsTyped /\ since'[r] = since[r] \cup Changed(r)
    BY DEF TypeOK, Recorded
  <1>1. CASE req[r].op = "add"
    <2>1. Active' \ since'[r] \subseteq Active \ since[r]
      BY <1>0, <1>1 DEF Changed, isMember, Active
    <2>2. IsFiniteSet(Active \ since[r])
      BY MembershipAssumption, FS_Subset DEF Active
    <2>3. Cardinality(Active \ since[r]) < MaxMembers
      BY <1>1 DEF CheckHolds
    <2>4. /\ Cardinality(Active' \ since'[r]) <= Cardinality(Active \ since[r])
          /\ IsFiniteSet(Active' \ since'[r])
      BY <2>1, <2>2, FS_Subset
    <2>5. /\ Cardinality(Active' \ since'[r]) \in Nat /\ Cardinality(Active \ since[r]) \in Nat
          /\ MaxMembers \in Nat
      BY <2>2, <2>4, FS_CardinalityType, MembershipAssumption
    <2>6. Cardinality(Active' \ since'[r]) < MaxMembers
      BY <2>3, <2>4, <2>5
    <2> QED
      BY <1>1, <2>6 DEF CheckHolds
  <1>2. CASE req[r].op = "remove"
    <2> DEFINE t == req[r].target
    <2>0. t \in Users
      BY <1>0, <1>2 DEF RowsTyped
    <2>1. ASSUME isOwner(t)' PROVE t \in since'[r]
      <3>1. CASE isOwner(t)
        BY <1>0, <1>2, <3>1 DEF CheckHolds
      <3>2. CASE ~isOwner(t)
        <4>1. \E q \in Requests : SetRoleWrite(q) /\ req[q].target = t /\ req[q].role = "OWNER"
          BY <1>0, <2>0, <2>1, <3>2, BecomesOwner
        <4> QED
          BY <1>0, <1>2, <2>0, <4>1 DEF Changed
      <3> QED
        BY <3>1, <3>2
    <2> QED
      BY <1>2, <2>1 DEF CheckHolds
  <1>3. CASE req[r].op \in {"leave", "set_role"}
    <2> DEFINE t == req[r].target
    <2>1. ASSUME since'[r] = {} PROVE since[r] = {} /\ (OnlyOwner(t)' <=> OnlyOwner(t))
      <3>1. since[r] = {} /\ Changed(r) = {}
        BY <1>0, <2>1
      <3>2. \A u \in Users : isOwner(u)' <=> isOwner(u)
        BY <1>3, <3>1 DEF Changed, isOwner
      <3> QED
        BY <3>1, <3>2 DEF OnlyOwner, OwnersOf
    <2> QED
      BY <1>3, <2>1 DEF CheckHolds
  <1>4. CASE req[r].op \notin {"add", "remove", "leave", "set_role"}
    BY <1>4 DEF CheckHolds
  <1> QED
    BY <1>1, <1>2, <1>3, <1>4

LEMMA InitOwner == Init => OwnerInv
  BY InitType DEF Init, OwnerInv, ChecksHold, Idle

LEMMA NextOwner == OwnerInv /\ [Next]_vars => OwnerInv'
  <1> SUFFICES ASSUME OwnerInv, [Next]_vars PROVE \A r \in Requests : CheckHolds(r)'
    BY NextType, ChecksOne DEF OwnerInv, ChecksHold, CheckHolds
  <1>0. TypeOK /\ RowsTyped /\ \A r \in Requests : CheckHolds(r)
    BY ChecksOne DEF OwnerInv, TypeOK
  <1>1. CASE UNCHANGED vars
    BY <1>0, <1>1 DEF vars, CheckHolds, OnlyOwner, OwnersOf, isOwner, isMember, Active
  <1>2. CASE Next
    <2> SUFFICES ASSUME NEW r \in Requests PROVE CheckHolds(r)'
      OBVIOUS
    <2>0. Steps /\ Recorded
      BY <1>2 DEF Next
    <2>1. CASE req'[r].op \in {"idle", "accept_mark"}
      BY <2>1 DEF CheckHolds
    <2>2. CASE Check(r)
      BY <1>0, <2>0, <2>2, CheckStarts
    <2>3. CASE req'[r] = req[r]
      BY <1>0, <2>0, <2>1, <2>3, CheckStays
    <2>4. ASSUME NEW q \in Requests, Check(q) \/ Write(q) PROVE CheckHolds(r)'
      BY <1>0, <2>1, <2>2, <2>3, <2>4, CheckKeeps, WriteEnds
    <2>5. CASE ServerCrash
      BY <2>1, <2>5 DEF ServerCrash, Idle
    <2>6. ASSUME NEW i \in Invites, Expire(i) PROVE req'[r] = req[r]
      BY <2>6 DEF Expire
    <2> QED
      BY <2>0, <2>3, <2>4, <2>5, <2>6 DEF Steps
  <1> QED
    BY <1>1, <1>2

\* A group loses its last owner only to a request that missed a change of its owners,
\* for any number of users and requests, in every interleaving.
THEOREM GroupKeepsOwner == Spec => OwnerRemains
  <1>1. OwnerInv /\ [Next]_vars =>
          [ OwnersOf # {} /\ OwnersOf' = {} =>
              \E r \in Requests : (RemoveWrite(r) \/ SetRoleWrite(r)) /\ since[r] # {} ]_vars
    <2> SUFFICES ASSUME OwnerInv, Next, OwnersOf # {}, OwnersOf' = {}
                 PROVE  \E r \in Requests : (RemoveWrite(r) \/ SetRoleWrite(r)) /\ since[r] # {}
      OBVIOUS
    <2>0. RowsTyped /\ ChecksHold /\ Steps
      BY DEF OwnerInv, TypeOK, Next
    <2>1. PICK u \in Users : isOwner(u)
      BY DEF OwnersOf
    <2>2. \A v \in Users : ~isOwner(v)'
      BY DEF OwnersOf
    <2>3. PICK r \in Requests :
            /\ req[r].target = u
            /\ RemoveWrite(r) \/ (SetRoleWrite(r) /\ req[r].role # "OWNER")
            /\ \A v \in Users \ {u} : isOwner(v)' <=> isOwner(v)
      BY <2>0, <2>1, <2>2, LosesOwner
    <2>4. OnlyOwner(u)
      BY <2>1, <2>2, <2>3 DEF OnlyOwner, OwnersOf
    <2>5. since[r] # {}
      BY <2>0, <2>1, <2>3, <2>4 DEF ChecksHold, RemoveWrite, SetRoleWrite
    <2> QED
      BY <2>3, <2>5
  <1> QED
    BY <1>1, InitOwner, NextOwner, PTL DEF Spec, OwnerRemains

\* An owner goes by leaving, or by a removal that was checked before an owner promoted
\* them, in every interleaving.
THEOREM OwnersAreNotEvicted == Spec => OwnerNeverEvicted
  <1>1. OwnerInv /\ [Next]_vars =>
          [ \A u \in Users :
              isOwner(u) /\ member'[u] = "left" =>
                \E r \in Requests :
                  /\ RemoveWrite(r) /\ req[r].target = u
                  /\ req[r].op = "leave" \/ u \in since[r] ]_vars
    <2> SUFFICES ASSUME OwnerInv, Next, NEW u \in Users, isOwner(u), member'[u] = "left"
                 PROVE  \E r \in Requests :
                          /\ RemoveWrite(r) /\ req[r].target = u
                          /\ req[r].op = "leave" \/ u \in since[r]
      BY DEF vars, isOwner, isMember, Active
    <2>0. RowsTyped /\ ChecksHold /\ Steps
      BY DEF OwnerInv, TypeOK, Next
    <2>1. ~isOwner(u)' /\ member'[u] # member[u]
      BY DEF isOwner, isMember, Active
    <2>2. PICK r \in Requests : req[r].target = u /\ RemoveWrite(r)
      BY <2>0, <2>1, LosesOwner
    <2>3. req[r].op = "leave" \/ u \in since[r]
      BY <2>0, <2>2 DEF ChecksHold, RemoveWrite
    <2> QED
      BY <2>2, <2>3
  <1> QED
    BY <1>1, InitOwner, NextOwner, PTL DEF Spec, OwnerNeverEvicted

\* Adding a member takes the group over its limit by no more than joined since the
\* check, whatever the limit is, in every interleaving.
THEOREM AddsKeepLimit == Spec => AddKeepsLimit
  <1>1. OwnerInv /\ [Next]_vars =>
          [ \A r \in Requests :
              AddWrite(r) /\ member' # member =>
                Cardinality(Active') <= MaxMembers + Cardinality(since[r] \cap Active) ]_vars
    <2> SUFFICES ASSUME OwnerInv, Next, NEW r \in Requests, AddWrite(r), member' # member
                 PROVE  Cardinality(Active') <= MaxMembers + Cardinality(since[r] \cap Active)
      BY DEF vars
    <2> DEFINE t == req[r].target
    <2>0. RowsTyped /\ ChecksHold
      BY DEF OwnerInv, TypeOK
    <2>1. addMember(t) /\ t \in Users /\ Cardinality(Active \ since[r]) < MaxMembers
      BY <2>0 DEF AddWrite, ChecksHold, RowsTyped
    <2>2. Active' = Active \cup {t} /\ t \notin Active
      BY <2>0, <2>1 DEF addMember, Active, RowsTyped
    <2>3. IsFiniteSet(Active)
      BY MembershipAssumption, FS_Subset DEF Active
    <2>4. Cardinality(Active') = Cardinality(Active) + 1
      BY <2>2, <2>3, FS_AddElement
    <2>5. /\ Cardinality(Active \ since[r]) = Cardinality(Active) - Cardinality(Active \cap since[r])
          /\ IsFiniteSet(Active \cap since[r])
      BY <2>3, FS_Difference, FS_Subset
    <2>6. Active \cap since[r] = since[r] \cap Active
      OBVIOUS
    <2> DEFINE before == Cardinality(Active)
               missing == Cardinality(since[r] \cap Active)
    <2>7. before \in Nat /\ missing \in Nat /\ MaxMembers \in Nat
      BY <2>3, <2>5, <2>6, FS_CardinalityType, MembershipAssumption
    <2>8. before - missing < MaxMembers
      BY <2>1, <2>5, <2>6
    <2>9. Cardinality(Active') = before + 1
      BY <2>4
    <2> HIDE DEF before, missing
    <2>10. Cardinality(Active') <= MaxMembers + missing
      BY <2>7, <2>8, <2>9
    <2> QED
      BY <2>10 DEF missing
  <1> QED
    BY <1>1, InitOwner, NextOwner, PTL DEF Spec, AddKeepsLimit
-----------------------------------------------------------------------------
(***************************************************************************)
(* Invitations and members, in every interleaving.                         *)
(***************************************************************************)

\* A user who has a row keeps it.
RowsKept == \A u \in Users : member[u] # "none" => member'[u] # "none"

LEMMA InitAccept == Init => AcceptInv
  <1> SUFFICES ASSUME Init PROVE AcceptInv
    OBVIOUS
  <1>1. InvitationsKept /\ AcceptedMeansJoined
    BY DEF Init, InvitationsKept, AcceptedMeansJoined, Idle
  <1> QED
    BY <1>1, InitRows DEF AcceptInv

\* A check that starts no request about an invitation changes nothing here.
LEMMA OtherCheckAccept ==
  ASSUME AcceptInv, NEW r \in Requests, NEW t, NEW newRole, NEW i,
         NEW op \in {"add", "remove", "leave", "leave_delete", "set_role", "delete"},
         Checked(r, op, t, newRole, i)
  PROVE  InvitationsKept' /\ AcceptedMeansJoined'
  <1>1. /\ req'[r].op = op
        /\ \A q \in Requests \ {r} : req'[q] = req[q]
        /\ UNCHANGED <<member, invite>>
    BY DEF Checked, AcceptInv, RowsTyped
  <1>2. AcceptedMeansJoined'
    BY <1>1 DEF AcceptInv, AcceptedMeansJoined
  <1> HIDE DEF Checked
  <1> QED
    BY <1>1, <1>2 DEF AcceptInv, InvitationsKept

LEMMA CheckAccept ==
  ASSUME AcceptInv, NEW r \in Requests, Check(r)
  PROVE  InvitationsKept' /\ AcceptedMeansJoined'
  <1>0. AcceptInv /\ RowsTyped /\ InvitationsKept /\ AcceptedMeansJoined
    BY DEF AcceptInv
  <1>1. ASSUME NEW a \in Users, NEW t \in Users,
               AddCheck(r, a, t) \/ RemoveCheck(r, a, t) \/ LeaveCheck(r, a)
                 \/ DeleteGroupCheck(r, a)
                 \/ \E newRole \in Roles : SetRoleCheck(r, a, t, newRole)
        PROVE  InvitationsKept' /\ AcceptedMeansJoined'
    BY <1>0, <1>1, OtherCheckAccept
       DEF AddCheck, RemoveCheck, LeaveCheck, DeleteGroupCheck, SetRoleCheck
  <1>2. ASSUME NEW a \in Users, NEW t \in Users, NEW i \in Invites, InviteCheck(r, a, t, i)
        PROVE  InvitationsKept' /\ AcceptedMeansJoined'
    <2>1. /\ req'[r].op = "invite" /\ req'[r].id = i
          /\ \A q \in Requests \ {r} : req'[q] = req[q]
          /\ UNCHANGED <<member, invite>>
      BY <1>0, <1>2 DEF InviteCheck, Checked, RowsTyped
    <2>2. /\ invite[i].status = "none"
          /\ \A q \in Requests : req[q].op = "invite" => req[q].id # i
      BY <1>2 DEF InviteCheck
    <2> QED
      BY <1>0, <2>1, <2>2 DEF InvitationsKept, AcceptedMeansJoined
  <1>3. ASSUME NEW a \in Users, NEW i \in Invites, AcceptCheck(r, a, i) \/ RejectCheck(r, a, i)
        PROVE  InvitationsKept' /\ AcceptedMeansJoined'
    <2>1. /\ req'[r].op \in {"accept_add", "reject"} /\ req'[r].id = i /\ req'[r].target = a
          /\ \A q \in Requests \ {r} : req'[q] = req[q]
          /\ UNCHANGED <<member, invite>>
      BY <1>0, <1>3 DEF AcceptCheck, RejectCheck, Checked, RowsTyped
    <2>2. invite[i].status # "none" /\ invite[i].user = a
      BY <1>3 DEF AcceptCheck, RejectCheck
    <2> QED
      BY <1>0, <2>1, <2>2 DEF InvitationsKept, AcceptedMeansJoined
  <1> QED
    BY <1>1, <1>2, <1>3 DEF Check

\* Invitations as they are, rows kept, and no request but r changed: enough
\* for a write that is not about an invitation.
LEMMA OtherWriteAccept ==
  ASSUME AcceptInv, NEW r \in Requests, Finish(r), RowsKept, UNCHANGED invite
  PROVE  InvitationsKept' /\ AcceptedMeansJoined'
  <1>0. RowsTyped /\ InvitationsKept /\ AcceptedMeansJoined
    BY DEF AcceptInv
  <1>1. req'[r].op = "idle" /\ \A q \in Requests \ {r} : req'[q] = req[q]
    BY <1>0 DEF Finish, RowsTyped, Idle
  <1>2. \A q \in Requests : req[q].op \in {"invite", "accept_mark"} => req[q].target \in Users
    BY <1>0 DEF RowsTyped
  <1>3. \A i \in Invites : invite[i].status # "none" => invite[i].user \in Users
    BY <1>0 DEF InvitationsKept
  <1>4. AcceptedMeansJoined'
    BY <1>0, <1>3 DEF RowsKept, AcceptedMeansJoined
  <1>5. InvitationsKept'
    BY <1>0, <1>1, <1>2, <1>3 DEF RowsKept, InvitationsKept
  <1> QED
    BY <1>4, <1>5

LEMMA WriteAccept ==
  ASSUME AcceptInv, NEW r \in Requests, Write(r)
  PROVE  InvitationsKept' /\ AcceptedMeansJoined'
  <1>0. AcceptInv /\ RowsTyped /\ InvitationsKept /\ AcceptedMeansJoined
    BY DEF AcceptInv
  <1> DEFINE i == req[r].id
             t == req[r].target
  <1>1. CASE AddWrite(r)
    <2>1. RowsKept /\ Finish(r) /\ UNCHANGED invite
      BY <1>0, <1>1 DEF AddWrite, addMember, RowsKept, RowsTyped
    <2> QED
      BY <1>0, <2>1, OtherWriteAccept
  <1>2. CASE RemoveWrite(r)
    <2>1. RowsKept /\ Finish(r) /\ UNCHANGED invite
      BY <1>0, <1>2 DEF RemoveWrite, removeMember, RowsKept, RowsTyped
    <2> QED
      BY <1>0, <2>1, OtherWriteAccept
  <1>3. CASE SetRoleWrite(r) \/ DeleteWrite(r)
    <2>1. RowsKept /\ Finish(r) /\ UNCHANGED invite
      BY <1>0, <1>3 DEF SetRoleWrite, DeleteWrite, RowsKept
    <2> QED
      BY <1>0, <2>1, OtherWriteAccept
  <1>4. CASE InviteWrite(r)
    <2>1. i \in Invites /\ t \in Users /\ invite[i].status = "none"
      BY <1>0, <1>4 DEF InviteWrite, InvitationsKept, RowsTyped
    <2>2. /\ invite'[i].status = "pending" /\ invite'[i].user = t
          /\ \A j \in Invites \ {i} : invite'[j] = invite[j]
          /\ req'[r].op = "idle" /\ \A q \in Requests \ {r} : req'[q] = req[q]
          /\ UNCHANGED member
      BY <1>0, <1>4, <2>1 DEF InviteWrite, Finish, Idle, RowsTyped
    <2>3. \A q \in Requests \ {r} :
            req[q].op \in {"invite", "accept_add", "accept_mark", "reject"} => req[q].id # i
      BY <1>0, <1>4, <2>1 DEF InviteWrite, InvitationsKept
    <2>4. AcceptedMeansJoined'
      BY <1>0, <2>1, <2>2 DEF AcceptedMeansJoined
    <2>5. InvitationsKept'
      <3> HIDE DEF i, t
      <3> QED
        BY <1>0, <2>1, <2>2, <2>3 DEF InvitationsKept
    <2> QED
      BY <2>4, <2>5
  <1>5. CASE AcceptAdd(r)
    <2>1. CASE Finish(r)
      <3>1. RowsKept /\ UNCHANGED invite
        BY <1>0, <1>5 DEF AcceptAdd, addMember, RowsKept, RowsTyped
      <3> QED
        BY <1>0, <2>1, <3>1, OtherWriteAccept
    <2>2. CASE addMember(t) /\ req' = [req EXCEPT ![r] = [@ EXCEPT !.op = "accept_mark"]]
      <3>1. /\ req'[r].op = "accept_mark" /\ req'[r].id = i /\ req'[r].target = t
            /\ \A q \in Requests \ {r} : req'[q] = req[q]
        BY <1>0, <2>2 DEF RowsTyped, Request
      <3>2. t \in Users /\ i \in Invites /\ invite[i].status # "none" /\ invite[i].user = t
        BY <1>0, <1>5 DEF AcceptAdd, RowsTyped, InvitationsKept
      <3>3. RowsKept /\ member'[t] # "none" /\ UNCHANGED invite
        BY <1>0, <1>5, <2>2, <3>2 DEF AcceptAdd, addMember, RowsKept, RowsTyped
      <3>4. \A q \in Requests : req[q].op = "accept_mark" => req[q].target \in Users
        BY <1>0 DEF RowsTyped
      <3>5. AcceptedMeansJoined'
        BY <1>0, <3>3 DEF AcceptedMeansJoined, RowsKept, InvitationsKept
      <3>6. InvitationsKept'
        <4> HIDE DEF i, t
        <4> QED
          BY <1>0, <3>1, <3>2, <3>3, <3>4 DEF InvitationsKept, RowsKept
      <3> QED
        BY <3>5, <3>6
    <2> QED
      BY <1>5, <2>1, <2>2 DEF AcceptAdd
  <1>6. CASE AcceptMark(r) \/ RejectWrite(r)
    <2>1. /\ i \in Invites /\ invite[i].status # "none" /\ invite[i].user = t /\ t \in Users
          /\ AcceptMark(r) => member[t] # "none"
      BY <1>0, <1>6 DEF AcceptMark, RejectWrite, InvitationsKept, RowsTyped
    <2>2. /\ invite'[i].status # "none" /\ invite'[i].user = t
          /\ RejectWrite(r) => invite'[i].status = "gone"
          /\ \A j \in Invites \ {i} : invite'[j] = invite[j]
      BY <1>0, <1>6, <2>1 DEF AcceptMark, RejectWrite, RowsTyped, Invitation
    <2>3. /\ req'[r].op = "idle" /\ \A q \in Requests \ {r} : req'[q] = req[q]
          /\ UNCHANGED member
      BY <1>0, <1>6 DEF AcceptMark, RejectWrite, Finish, Idle, RowsTyped
    <2>4. AcceptedMeansJoined'
      BY <1>0, <1>6, <2>1, <2>2, <2>3 DEF AcceptedMeansJoined
    <2>5. InvitationsKept'
      <3> HIDE DEF i, t
      <3> QED
        BY <1>0, <2>1, <2>2, <2>3 DEF InvitationsKept
    <2> QED
      BY <2>4, <2>5
  <1> QED
    BY <1>1, <1>2, <1>3, <1>4, <1>5, <1>6 DEF Write

LEMMA NextAccept == AcceptInv /\ [Next]_vars => AcceptInv'
  <1> SUFFICES ASSUME AcceptInv, [Next]_vars PROVE AcceptInv'
    OBVIOUS
  <1>1. RowsTyped'
    BY NextRows DEF AcceptInv
  <1>2. ASSUME NEW r \in Requests, Check(r) \/ Write(r)
        PROVE  InvitationsKept' /\ AcceptedMeansJoined'
    BY <1>2, CheckAccept, WriteAccept
  <1>3. ASSUME NEW i \in Invites, Expire(i) PROVE InvitationsKept' /\ AcceptedMeansJoined'
    <2>1. /\ \A j \in Invites : invite'[j].status = invite[j].status /\ invite'[j].user = invite[j].user
          /\ UNCHANGED <<member, req>>
      BY <1>3 DEF Expire, AcceptInv, RowsTyped, Invitation
    <2> QED
      BY <2>1 DEF AcceptInv, InvitationsKept, AcceptedMeansJoined
  <1>4. ASSUME ServerCrash PROVE InvitationsKept' /\ AcceptedMeansJoined'
    BY <1>4 DEF ServerCrash, AcceptInv, InvitationsKept, AcceptedMeansJoined, Idle
  <1>5. ASSUME UNCHANGED vars PROVE InvitationsKept' /\ AcceptedMeansJoined'
    BY <1>5 DEF vars, AcceptInv, InvitationsKept, AcceptedMeansJoined
  <1> QED
    BY <1>1, <1>2, <1>3, <1>4, <1>5 DEF Next, Steps, AcceptInv

\* An invitation marked accepted belongs to a user who became a member, in
\* every interleaving of requests and crashes.
THEOREM AcceptedAreMembers == Spec => []AcceptedMeansJoined
  <1>1. AcceptInv => AcceptedMeansJoined
    BY DEF AcceptInv
  <1> QED
    BY <1>1, InitAccept, NextAccept, PTL DEF Spec

\* Nobody who left is let back in, in every interleaving.
THEOREM LeftStaysLeft == Spec => LeftIsFinal
  <1>1. RowsTyped /\ [Next]_vars => [\A u \in Users : member[u] = "left" => member'[u] = "left"]_vars
    <2> SUFFICES ASSUME RowsTyped, Next, NEW u \in Users, member[u] = "left"
                 PROVE  member'[u] = "left"
      OBVIOUS
    <2>1. ASSUME NEW r \in Requests, Check(r) PROVE UNCHANGED member
      BY <2>1 DEF Check, AddCheck, RemoveCheck, SetRoleCheck, InviteCheck, LeaveCheck,
                  DeleteGroupCheck, AcceptCheck, RejectCheck, Checked
    <2>2. ASSUME NEW r \in Requests, Write(r) PROVE member'[u] = "left"
      BY <2>2 DEF Write, AddWrite, RemoveWrite, SetRoleWrite, DeleteWrite, InviteWrite,
                  AcceptAdd, AcceptMark, RejectWrite, addMember, removeMember, RowsTyped
    <2>3. CASE ServerCrash \/ \E i \in Invites : Expire(i)
      BY <2>3 DEF ServerCrash, Expire
    <2> QED
      BY <2>1, <2>2, <2>3 DEF Next, Steps
  <1> QED
    BY <1>1, InitRows, NextRows, PTL DEF Spec, LeftIsFinal

\* A user is added to the group once, of all accepts of all their invitations and all
\* adds by owners, in every interleaving.
THEOREM OneAccept == Spec => AddedOnce
  <1>1. ASSUME NEW u \in Users
        PROVE  Spec => [](member[u] # "none" => [][~Added(u)]_vars)
    <2>1. RowsTyped /\ [Next]_vars /\ member[u] # "none" => (member[u] # "none")' /\ [~Added(u)]_vars
      <3> SUFFICES ASSUME RowsTyped, [Next]_vars, member[u] # "none"
                   PROVE  member'[u] # "none" /\ (vars' = vars \/ ~Added(u))
        OBVIOUS
      <3>1. ASSUME NEW r \in Requests, Check(r) PROVE UNCHANGED member
        BY <3>1, CheckKeeps
      <3>2. ASSUME NEW r \in Requests, Write(r) PROVE member'[u] \in {member[u], "left"}
        BY <3>2 DEF Write, AddWrite, RemoveWrite, SetRoleWrite, DeleteWrite, InviteWrite,
                    AcceptAdd, AcceptMark, RejectWrite, addMember, removeMember, RowsTyped
      <3>3. CASE ServerCrash \/ (\E i \in Invites : Expire(i)) \/ UNCHANGED vars
        BY <3>3 DEF ServerCrash, Expire, vars, Added
      <3> QED
        BY <3>1, <3>2, <3>3 DEF Next, Steps, Added
    <2> QED
      BY <2>1, InitRows, NextRows, PTL DEF Spec
  <1> QED
    BY <1>1 DEF AddedOnce
-----------------------------------------------------------------------------
(***************************************************************************)
(* Members and notifications together.                                     *)
(***************************************************************************)

\* What a listener or a lost event does is no step of Membership at all.
LEMMA NoticesStep ==
  ASSUME TypeOK, [NoticesNext]_noticesVars
  PROVE  [Next]_vars
  <1>1. CASE NoticesNext
    <2>1. Recorded
      BY <1>1 DEF NoticesNext
    <2>2. CASE Steps
      BY <2>1, <2>2 DEF Next
    <2>3. CASE UNCHANGED <<member, role, deleted, invite, req>>
      <3>1. \A r \in Requests : ~SetRoleWrite(r)
        BY <2>3 DEF SetRoleWrite, Finish, Idle, TypeOK, RowsTyped
      <3>2. \A r \in Requests : Changed(r) = {}
        BY <2>3, <3>1 DEF Changed, isOwner, isMember, Active
      <3>3. since' = since
        BY <2>1, <2>3, <3>2 DEF Recorded, TypeOK
      <3> QED
        BY <2>3, <3>3 DEF vars
    <2>4. CASE RequestStep
      BY <2>2, <2>4 DEF RequestStep, CheckTold, InviteAndEmit, AcceptAndEmit, RejectAndEmit,
                        SilentWrite, Steps, Write
    <2>5. CASE ExpireStep \/ ServerCrash
      BY <2>2, <2>5 DEF ExpireStep, Steps
    <2>6. CASE ListenerStep
      BY <2>3, <2>6 DEF ListenerStep, onGroupInvited, onGroupInvitationResponded,
                        ListenerFails, Handled
    <2> QED
      BY <1>1, <2>3, <2>4, <2>5, <2>6 DEF NoticesNext, Crash
  <1>2. CASE UNCHANGED noticesVars
    BY <1>2 DEF noticesVars, vars
  <1> QED
    BY <1>1, <1>2

\* With listeners, lost events and their crashes beside them, members and invitations
\* behave as Membership says: what is proved of it above holds in the composition.
THEOREM ListenersKeepOut == NoticesSpec => Spec
  <1>1. NoticesInit => Init
    BY DEF NoticesInit
  <1>2. TypeOK /\ [NoticesNext]_noticesVars => [Next]_vars
    BY NoticesStep
  <1> QED
    BY <1>1, <1>2, InitType, NextType, PTL DEF NoticesSpec, Spec

\* What is once so of an invitation or a member stays so.
StatusKept ==
    \A i \in Invites :
      /\ invite[i].status # "none" =>
           invite'[i].status # "none" /\ invite'[i].user = invite[i].user
      /\ invite[i].status \in {"accepted", "gone"} => invite'[i].status \in {"accepted", "gone"}
      /\ invite[i].status = "gone" => invite'[i].status = "gone"

LEMMA NextKeeps == ASSUME AcceptInv, [Next]_vars PROVE RowsKept /\ StatusKept
  <1>0. RowsTyped /\ InvitationsKept
    BY DEF AcceptInv
  <1>1. ASSUME UNCHANGED <<member, invite>> PROVE RowsKept /\ StatusKept
    BY <1>1 DEF RowsKept, StatusKept
  <1>2. ASSUME UNCHANGED invite PROVE StatusKept
    BY <1>2 DEF StatusKept
  <1>3. ASSUME NEW r \in Requests, Check(r) PROVE UNCHANGED <<member, invite>>
    BY <1>3 DEF Check, AddCheck, RemoveCheck, SetRoleCheck, InviteCheck, LeaveCheck,
                DeleteGroupCheck, AcceptCheck, RejectCheck, Checked
  <1>4. ASSUME NEW r \in Requests, AddWrite(r) \/ AcceptAdd(r) PROVE RowsKept /\ UNCHANGED invite
    BY <1>0, <1>4 DEF AddWrite, AcceptAdd, addMember, RowsKept, RowsTyped
  <1>5. ASSUME NEW r \in Requests, RemoveWrite(r) PROVE RowsKept /\ UNCHANGED invite
    BY <1>0, <1>5 DEF RemoveWrite, removeMember, RowsKept, RowsTyped
  <1>6. ASSUME NEW r \in Requests, SetRoleWrite(r) \/ DeleteWrite(r) PROVE UNCHANGED <<member, invite>>
    BY <1>6 DEF SetRoleWrite, DeleteWrite
  <1>7. ASSUME NEW r \in Requests, InviteWrite(r) PROVE RowsKept /\ StatusKept
    <2>1. req[r].id \in Invites /\ invite[req[r].id].status = "none"
      BY <1>0, <1>7 DEF InviteWrite, InvitationsKept
    <2>2. \A i \in Invites \ {req[r].id} : invite'[i] = invite[i]
      BY <1>0, <1>7 DEF InviteWrite, RowsTyped
    <2> QED
      BY <1>7, <2>1, <2>2 DEF InviteWrite, RowsKept, StatusKept
  <1>8. ASSUME NEW r \in Requests, AcceptMark(r) \/ RejectWrite(r) PROVE RowsKept /\ StatusKept
    <2>1. req[r].id \in Invites
      BY <1>0, <1>8 DEF AcceptMark, RejectWrite, InvitationsKept
    <2>2. /\ \A i \in Invites \ {req[r].id} : invite'[i] = invite[i]
          /\ invite'[req[r].id].user = invite[req[r].id].user
          /\ invite'[req[r].id].status \in {"accepted", "gone"}
          /\ invite[req[r].id].status = "gone" => invite'[req[r].id].status = "gone"
      BY <1>0, <1>8, <2>1 DEF AcceptMark, RejectWrite, RowsTyped, Invitation
    <2> QED
      BY <1>8, <2>2 DEF AcceptMark, RejectWrite, RowsKept, StatusKept
  <1>9. ASSUME NEW i \in Invites, Expire(i) PROVE RowsKept /\ StatusKept
    BY <1>0, <1>9 DEF Expire, RowsKept, StatusKept, RowsTyped, Invitation
  <1>10. ASSUME ServerCrash \/ UNCHANGED vars PROVE UNCHANGED <<member, invite>>
    BY <1>10 DEF ServerCrash, vars
  <1> QED
    BY <1>1, <1>2, <1>3, <1>4, <1>5, <1>6, <1>7, <1>8, <1>9, <1>10 DEF Next, Steps, Write

\* Every step tells only what it made true, or what an event said.
LEMMA TruthStep ==
  ASSUME NoticesTypeOK, EventsTruthful, NoticeTruthful, InvitationsKept, RowsKept, StatusKept,
         events' \subseteq Events, notice' \in [Invites -> {"none", "open", "ACCEPTED", "REJECTED"}],
         \A i \in Invites :
           /\ Event("INVITED", i) \in events' \ events => invite'[i].status # "none"
           /\ Event("ACCEPTED", i) \in events' \ events =>
                invite'[i].status \in {"accepted", "gone"} /\ member'[invite'[i].user] # "none"
           /\ Event("REJECTED", i) \in events' \ events => invite'[i].status = "gone"
           /\ notice'[i] # notice[i] =>
                \/ notice'[i] = "open" /\ Event("INVITED", i) \in events
                \/ notice'[i] = "ACCEPTED" /\ Event("ACCEPTED", i) \in events
                \/ notice'[i] = "REJECTED" /\ Event("REJECTED", i) \in events
  PROVE  EventsTruthful' /\ NoticeTruthful'
  <1>1. ASSUME NEW i \in Invites,
               invite[i].status \in {"accepted", "gone"}, member[invite[i].user] # "none"
        PROVE  invite'[i].status \in {"accepted", "gone"} /\ member'[invite'[i].user] # "none"
    BY <1>1 DEF InvitationsKept, RowsKept, StatusKept
  <1>2. EventsTruthful'
    BY <1>1 DEF EventsTruthful, StatusKept
  <1>3. ASSUME NEW i \in Invites, notice'[i] = notice[i]
        PROVE  /\ notice'[i] # "none" => invite'[i].status # "none"
               /\ notice'[i] = "ACCEPTED" =>
                    invite'[i].status \in {"accepted", "gone"} /\ member'[invite'[i].user] # "none"
               /\ notice'[i] = "REJECTED" => invite'[i].status = "gone"
    BY <1>1, <1>3 DEF NoticeTruthful, StatusKept
  <1>4. ASSUME NEW i \in Invites, notice'[i] # notice[i]
        PROVE  /\ notice'[i] # "none" => invite'[i].status # "none"
               /\ notice'[i] = "ACCEPTED" =>
                    invite'[i].status \in {"accepted", "gone"} /\ member'[invite'[i].user] # "none"
               /\ notice'[i] = "REJECTED" => invite'[i].status = "gone"
    BY <1>1, <1>4 DEF EventsTruthful, StatusKept
  <1> QED
    BY <1>2, <1>3, <1>4 DEF NoticeTruthful

\* What each request emits has happened.
LEMMA RequestTells ==
  ASSUME TruthInv, NEW r \in Requests,
         CheckTold(r) \/ InviteAndEmit(r) \/ AcceptAndEmit(r) \/ RejectAndEmit(r) \/ SilentWrite(r)
  PROVE  /\ events' \subseteq Events
         /\ \A i \in Invites :
              /\ Event("INVITED", i) \in events' \ events => invite'[i].status # "none"
              /\ Event("ACCEPTED", i) \in events' \ events =>
                   invite'[i].status \in {"accepted", "gone"} /\ member'[invite'[i].user] # "none"
              /\ Event("REJECTED", i) \in events' \ events => invite'[i].status = "gone"
  <1>0. RowsTyped /\ InvitationsKept /\ events \subseteq Events
    BY DEF TruthInv, AcceptInv, NoticesTypeOK
  <1> DEFINE id == req[r].id
  <1>1. CASE UNCHANGED events
    BY <1>0, <1>1
  <1>2. CASE InviteAndEmit(r)
    <2>1. id \in Invites /\ invite'[id].status = "pending"
      BY <1>0, <1>2 DEF InviteAndEmit, InviteWrite, InvitationsKept, RowsTyped
    <2>2. events' = events \cup {Event("INVITED", id)}
      BY <1>2 DEF InviteAndEmit, Emit
    <2> QED
      BY <1>0, <2>1, <2>2 DEF Event, Events
  <1>3. CASE AcceptMark(r) /\ Emit(invite[id].status # "gone", Event("ACCEPTED", id))
    <2>1. id \in Invites /\ invite[id].user = req[r].target /\ member[req[r].target] # "none"
      BY <1>0, <1>3 DEF AcceptMark, InvitationsKept
    <2>2. invite[id].status # "gone" =>
            /\ invite'[id].status = "accepted" /\ invite'[id].user = req[r].target
            /\ member'[req[r].target] # "none"
      BY <1>0, <1>3, <2>1 DEF AcceptMark, RowsTyped, Invitation
    <2>3. events' = IF invite[id].status # "gone" THEN events \cup {Event("ACCEPTED", id)} ELSE events
      BY <1>3 DEF Emit
    <2> QED
      BY <1>0, <2>1, <2>2, <2>3 DEF Event, Events
  <1>4. CASE RejectAndEmit(r)
    <2>1. id \in Invites /\ invite'[id].status = "gone"
      BY <1>0, <1>4 DEF RejectAndEmit, RejectWrite, InvitationsKept, RowsTyped, Invitation
    <2>2. events' \in {events, events \cup {Event("REJECTED", id)}}
      BY <1>4 DEF RejectAndEmit, Emit
    <2> QED
      BY <1>0, <2>1, <2>2 DEF Event, Events
  <1> QED
    BY <1>1, <1>2, <1>3, <1>4 DEF CheckTold, AcceptAndEmit, SilentWrite

LEMMA NoticesTypedStep ==
  ASSUME TruthInv, [NoticesNext]_noticesVars, events' \subseteq Events,
         notice' \in [Invites -> {"none", "open", "ACCEPTED", "REJECTED"}]
  PROVE  NoticesTypeOK'
  <1>0. NoticesTypeOK /\ TypeOK /\ missed \in BOOLEAN /\ crossed \in BOOLEAN
    BY DEF TruthInv, NoticesTypeOK
  <1>1. TypeOK'
    BY <1>0, NoticesStep, NextType DEF NoticesTypeOK
  <1>2. missed' \in BOOLEAN
    <2>1. CASE UNCHANGED missed
      BY <1>0, <2>1
    <2>2. CASE missed' = TRUE \/ missed' = (missed \/ events # {})
      BY <2>2
    <2> QED
      BY <2>1, <2>2 DEF NoticesNext, RequestStep, ExpireStep, ListenerStep, ListenerFails, Crash,
                        onGroupInvited, onGroupInvitationResponded, noticesVars, noticeVars
  <1>3. crossed' \in BOOLEAN
    BY <1>0 DEF NoticesNext, noticesVars, noticeVars
  <1> QED
    BY <1>1, <1>2, <1>3 DEF NoticesTypeOK

LEMMA NextTruth == TruthInv /\ [NoticesNext]_noticesVars => TruthInv'
  <1> SUFFICES ASSUME TruthInv, [NoticesNext]_noticesVars PROVE TruthInv'
    OBVIOUS
  <1>0. /\ NoticesTypeOK /\ TypeOK /\ AcceptInv /\ EventsTruthful /\ NoticeTruthful
        /\ events \subseteq Events /\ InvitationsKept
        /\ notice \in [Invites -> {"none", "open", "ACCEPTED", "REJECTED"}]
    BY DEF TruthInv, NoticesTypeOK, AcceptInv
  <1>1. [Next]_vars
    BY <1>0, NoticesStep
  <1>2. AcceptInv' /\ RowsKept /\ StatusKept
    BY <1>0, <1>1, NextAccept, NextKeeps
  <1> SUFFICES NoticesTypeOK' /\ EventsTruthful' /\ NoticeTruthful'
    BY <1>1, <1>2 DEF TruthInv
  <1> USE <1>0, <1>2, TruthStep, NoticesTypedStep
  <1>3. CASE RequestStep
    <2>1. UNCHANGED notice
      BY <1>3 DEF RequestStep
    <2> QED
      BY <1>3, <2>1, RequestTells DEF RequestStep
  <1>4. CASE ExpireStep \/ UNCHANGED noticesVars
    <2>1. UNCHANGED <<events, notice>>
      BY <1>4 DEF ExpireStep, noticesVars, noticeVars
    <2> QED
      BY <2>1
  <1>5. ASSUME NEW i \in Invites, onGroupInvited(i)
        PROVE  NoticesTypeOK' /\ EventsTruthful' /\ NoticeTruthful'
    <2>1. events' \subseteq events /\ notice' = [notice EXCEPT ![i] = "open"]
          /\ Event("INVITED", i) \in events
      BY <1>5 DEF onGroupInvited, Handled
    <2> QED
      BY <2>1
  <1>6. ASSUME NEW i \in Invites, NEW status \in {"ACCEPTED", "REJECTED"},
               onGroupInvitationResponded(i, status)
        PROVE  NoticesTypeOK' /\ EventsTruthful' /\ NoticeTruthful'
    <2>1. /\ events' \subseteq events /\ Event(status, i) \in events
          /\ notice' = [notice EXCEPT ![i] = IF @ = "none" THEN @ ELSE status]
      BY <1>6 DEF onGroupInvitationResponded, updateInviteStatus, Handled
    <2> QED
      BY <2>1
  <1>7. CASE (\E e \in events : ListenerFails(e)) \/ Crash
    <2>1. events' \subseteq events /\ UNCHANGED notice
      BY <1>7 DEF ListenerFails, Handled, Crash
    <2> QED
      BY <2>1
  <1> QED
    BY <1>3, <1>4, <1>5, <1>6, <1>7 DEF NoticesNext, ListenerStep

LEMMA InitTruth == NoticesInit => TruthInv
  <1> SUFFICES ASSUME NoticesInit PROVE TruthInv
    OBVIOUS
  <1>1. Init
    BY DEF NoticesInit
  <1>2. AcceptInv /\ TypeOK
    BY <1>1, InitAccept, InitType
  <1>3. NoticesTypeOK
    BY <1>2 DEF NoticesInit, NoticesTypeOK
  <1>4. EventsTruthful /\ NoticeTruthful
    BY DEF NoticesInit, EventsTruthful, NoticeTruthful
  <1> QED
    BY <1>1, <1>2, <1>3, <1>4 DEF TruthInv

\* Every state of members, invitations, events and notifications is well typed.
THEOREM NoticesTypeCorrect == NoticesSpec => []NoticesTypeOK
  <1>1. TruthInv => NoticesTypeOK
    BY DEF TruthInv
  <1> QED
    BY <1>1, InitTruth, NextTruth, PTL DEF NoticesSpec

\* No notification runs ahead of what it tells, for any number of users, invitations
\* and requests, in every order of listeners, failures and crashes.
THEOREM NoticesTellTheTruth == NoticesSpec => []NoticeTruthful
  <1>1. TruthInv => NoticeTruthful
    BY DEF TruthInv
  <1> QED
    BY <1>1, InitTruth, NextTruth, PTL DEF NoticesSpec

\* Where nothing about an invitation changes it stays accounted for.
LEMMA StaysDue ==
  ASSUME NEW i \in Invites, Due(i), notice'[i] = notice[i], invite'[i].status = invite[i].status,
         OnTheWay(i)' = OnTheWay(i)
  PROVE  Due(i)'
  BY DEF Due

LEMMA RequestDue ==
  ASSUME CatchUpInv, NEW r \in Requests, UNCHANGED notice, ~missed, ~crossed,
         \A i \in Invites : ~AnswersCross(i)',
         CheckTold(r) \/ InviteAndEmit(r) \/ AcceptAndEmit(r) \/ RejectAndEmit(r) \/ SilentWrite(r)
  PROVE  \A i \in Invites : Due(i)'
  <1>0. /\ RowsTyped /\ InvitationsKept /\ AnswersTold
        /\ notice \in [Invites -> {"none", "open", "ACCEPTED", "REJECTED"}]
        /\ \A i \in Invites : Due(i)
    BY DEF CatchUpInv, TruthInv, AcceptInv, NoticesTypeOK
  <1>1. ASSUME UNCHANGED <<events, invite>> PROVE \A i \in Invites : Due(i)'
    BY <1>0, <1>1, StaysDue DEF OnTheWay
  <1>2. ASSUME NEW id \in Invites, NEW kind \in {"INVITED", "ACCEPTED", "REJECTED"},
               events' = events \cup {Event(kind, id)},
               \A i \in Invites \ {id} : invite'[i] = invite[i]
        PROVE  /\ \A i \in Invites \ {id} : Due(i)'
               /\ OnTheWay(id)' = OnTheWay(id) \cup {kind}
    <2>1. \A i \in Invites \ {id} : OnTheWay(i)' = OnTheWay(i)
      BY <1>2 DEF OnTheWay, Event
    <2>2. OnTheWay(id)' = OnTheWay(id) \cup {kind}
      BY <1>2 DEF OnTheWay, Event
    <2> QED
      BY <1>0, <1>2, <2>1, <2>2, StaysDue
  <1>3. CASE InviteAndEmit(r)
    <2>1. PICK id \in Invites : id = req[r].id /\ invite[id].status = "none"
      BY <1>0, <1>3 DEF InviteAndEmit, InviteWrite, InvitationsKept
    <2>2. invite'[id].status = "pending" /\ \A i \in Invites \ {id} : invite'[i] = invite[i]
      BY <1>0, <1>3, <2>1 DEF InviteAndEmit, InviteWrite, RowsTyped
    <2>3. OnTheWay(id) = {} /\ notice[id] = "none"
      BY <1>0, <2>1 DEF Due, Told
    <2>4. Due(id)'
      BY <1>2, <1>3, <2>1, <2>2, <2>3 DEF InviteAndEmit, Emit, Due
    <2> QED
      BY <1>2, <1>3, <2>1, <2>2, <2>4 DEF InviteAndEmit, Emit
  <1>4. CASE AcceptMark(r) /\ Emit(invite[req[r].id].status # "gone", Event("ACCEPTED", req[r].id))
    <2>1. PICK id \in Invites :
            id = req[r].id /\ invite[id].status # "none" /\ notice[id] # "none"
      BY <1>0, <1>4 DEF AcceptMark, InvitationsKept, AnswersTold
    <2>2. CASE invite[id].status = "gone"
      BY <1>1, <1>4, <2>1, <2>2 DEF AcceptMark, Emit
    <2>3. CASE invite[id].status # "gone"
      <3>1. /\ invite'[id].status = "accepted"
            /\ \A i \in Invites \ {id} : invite'[i] = invite[i]
        BY <1>0, <1>4, <2>1, <2>3 DEF AcceptMark, RowsTyped, Invitation
      <3>2. invite[id].status \in {"pending", "accepted"}
        BY <1>0, <2>1, <2>3 DEF RowsTyped, Invitation
      <3>3. OnTheWay(id) \in {{}, {"ACCEPTED"}}
        BY <1>0, <2>1, <3>2 DEF Due
      <3>4. Due(id)'
        BY <1>2, <1>4, <2>1, <2>3, <3>1, <3>3 DEF Emit, Due
      <3> QED
        BY <1>2, <1>4, <2>1, <2>3, <3>1, <3>4 DEF Emit
    <2> QED
      BY <2>2, <2>3
  <1>5. CASE RejectAndEmit(r)
    <2>1. PICK id \in Invites :
            id = req[r].id /\ invite[id].status # "none" /\ notice[id] # "none"
      BY <1>0, <1>5 DEF RejectAndEmit, RejectWrite, InvitationsKept, AnswersTold
    <2>2. /\ invite'[id].status = "gone"
          /\ \A i \in Invites \ {id} : invite'[i] = invite[i]
      BY <1>0, <1>5, <2>1 DEF RejectAndEmit, RejectWrite, RowsTyped, Invitation
    <2>3. CASE invite[id].status = "gone"
      <3>1. \A i \in Invites : invite'[i].status = invite[i].status /\ UNCHANGED events
        BY <1>5, <2>1, <2>2, <2>3 DEF RejectAndEmit, Emit
      <3> QED
        BY <1>0, <3>1, StaysDue DEF OnTheWay
    <2>4. CASE invite[id].status # "gone"
      <3>1. /\ \A i \in Invites \ {id} : Due(i)'
            /\ OnTheWay(id)' = OnTheWay(id) \cup {"REJECTED"}
        BY <1>2, <1>5, <2>1, <2>2, <2>4 DEF RejectAndEmit, Emit
      <3>2. invite[id].status \in {"pending", "accepted"}
        BY <1>0, <2>1, <2>4 DEF RowsTyped, Invitation
      <3>3. "ACCEPTED" \notin OnTheWay(id)'
        BY <2>1, <3>1 DEF AnswersCross, OnTheWay
      <3>4. OnTheWay(id) = {}
        BY <1>0, <2>1, <3>1, <3>2, <3>3 DEF Due
      <3>5. Due(id)'
        BY <2>1, <2>2, <3>1, <3>4 DEF Due
      <3> QED
        BY <3>1, <3>5
    <2> QED
      BY <2>3, <2>4
  <1>6. CASE CheckTold(r) \/ SilentWrite(r) \/ (AcceptAdd(r) /\ UNCHANGED events)
    <2>1. UNCHANGED <<events, invite>>
      BY <1>6 DEF CheckTold, Check, AddCheck, RemoveCheck, SetRoleCheck, InviteCheck, LeaveCheck,
                  DeleteGroupCheck, AcceptCheck, RejectCheck, Checked, SilentWrite, AddWrite,
                  RemoveWrite, SetRoleWrite, DeleteWrite, AcceptAdd
    <2> QED
      BY <1>1, <2>1
  <1> QED
    BY <1>3, <1>4, <1>5, <1>6 DEF AcceptAndEmit

LEMMA ListenerDue ==
  ASSUME CatchUpInv, NEW e \in Events, e \in events, ~missed, ~crossed, UNCHANGED invite,
         events' = events \ {e},
         notice' = [notice EXCEPT ![e.id] = IF e.kind = "INVITED" THEN "open"
                                           ELSE IF @ = "none" THEN @ ELSE e.kind]
  PROVE  \A i \in Invites : Due(i)'
  <1>0. /\ \A i \in Invites : Due(i)
        /\ notice \in [Invites -> {"none", "open", "ACCEPTED", "REJECTED"}]
    BY DEF CatchUpInv, TruthInv, NoticesTypeOK
  <1>1. e.id \in Invites /\ e.kind \in {"INVITED", "ACCEPTED", "REJECTED"} /\ e = Event(e.kind, e.id)
    BY DEF Events, Event
  <1>2. \A i \in Invites \ {e.id} : OnTheWay(i)' = OnTheWay(i)
    BY <1>1 DEF OnTheWay, Event
  <1>3. OnTheWay(e.id)' = OnTheWay(e.id) \ {e.kind} /\ e.kind \in OnTheWay(e.id)
    BY <1>1 DEF OnTheWay, Event
  <1>4. Due(e.id)'
    BY <1>0, <1>1, <1>3 DEF Due, Told
  <1> QED
    BY <1>0, <1>1, <1>2, <1>4, StaysDue

\* Requests about an invitation go on with the one they began with, and its user was
\* told before they began.
LEMMA NextTold ==
  ASSUME CatchUpInv, [NoticesNext]_noticesVars
  PROVE  AnswersTold'
  <1>0. /\ RowsTyped /\ InvitationsKept /\ AnswersTold
        /\ notice \in [Invites -> {"none", "open", "ACCEPTED", "REJECTED"}]
    BY DEF CatchUpInv, TruthInv, AcceptInv, NoticesTypeOK
  <1>1. \A i \in Invites : notice[i] # "none" => notice'[i] # "none"
    BY <1>0 DEF NoticesNext, RequestStep, ExpireStep, ListenerStep, ListenerFails, Crash,
                onGroupInvited, onGroupInvitationResponded, updateInviteStatus,
                noticesVars, noticeVars
  <1>2. ASSUME \A r \in Requests :
                 req'[r].op \in {"accept_add", "accept_mark", "reject"} =>
                   \/ req'[r].id = req[r].id /\ req[r].op \in {"accept_add", "accept_mark", "reject"}
                   \/ notice'[req'[r].id] # "none"
        PROVE  AnswersTold'
    BY <1>0, <1>1, <1>2 DEF AnswersTold, InvitationsKept
  <1>3. ASSUME NEW r \in Requests, CheckTold(r), UNCHANGED notice PROVE AnswersTold'
    <2>1. /\ \A q \in Requests \ {r} : req'[q] = req[q]
          /\ req'[r].op # "accept_mark"
      BY <1>0, <1>3 DEF CheckTold, Check, AddCheck, RemoveCheck, SetRoleCheck, InviteCheck,
                        LeaveCheck, DeleteGroupCheck, AcceptCheck, RejectCheck, Checked, RowsTyped
    <2> QED
      BY <1>2, <1>3, <2>1 DEF CheckTold
  <1>4. ASSUME NEW r \in Requests, Finish(r) PROVE AnswersTold'
    <2>1. req'[r].op = "idle" /\ \A q \in Requests \ {r} : req'[q] = req[q]
      BY <1>0, <1>4 DEF Finish, Idle, RowsTyped
    <2> QED
      BY <1>2, <2>1
  <1>5. ASSUME NEW r \in Requests, AcceptAdd(r) PROVE AnswersTold'
    <2>1. CASE req' = [req EXCEPT ![r] = [@ EXCEPT !.op = "accept_mark"]]
      <3>1. /\ req[r].op = "accept_add" /\ req'[r].id = req[r].id
            /\ \A q \in Requests \ {r} : req'[q] = req[q]
        BY <1>0, <1>5, <2>1 DEF AcceptAdd, RowsTyped, Request
      <3> QED
        BY <1>2, <3>1
    <2> QED
      BY <1>4, <1>5, <2>1 DEF AcceptAdd
  <1>6. CASE RequestStep
    BY <1>3, <1>4, <1>5, <1>6
       DEF RequestStep, InviteAndEmit, AcceptAndEmit, RejectAndEmit, SilentWrite, InviteWrite,
           AcceptMark, RejectWrite, AddWrite, RemoveWrite, SetRoleWrite, DeleteWrite
  <1>7. CASE Crash \/ ExpireStep \/ ListenerStep \/ UNCHANGED noticesVars
    <2>1. UNCHANGED req \/ req' = [r \in Requests |-> Idle]
      BY <1>7 DEF Crash, ServerCrash, ExpireStep, Expire, ListenerStep, ListenerFails, Handled,
                  onGroupInvited, onGroupInvitationResponded, noticesVars, vars
    <2> QED
      BY <1>2, <2>1 DEF Idle
  <1> QED
    BY <1>6, <1>7 DEF NoticesNext

LEMMA NextDue ==
  ASSUME CatchUpInv, [NoticesNext]_noticesVars, ~missed', ~crossed'
  PROVE  \A i \in Invites : Due(i)'
  <1>0. /\ RowsTyped /\ events \subseteq Events /\ missed \in BOOLEAN /\ crossed \in BOOLEAN
        /\ ~missed /\ ~crossed => \A i \in Invites : Due(i)
    BY DEF CatchUpInv, TruthInv, AcceptInv, NoticesTypeOK
  <1>1. ~missed
    BY <1>0 DEF NoticesNext, RequestStep, ExpireStep, ListenerStep, ListenerFails, Crash,
                onGroupInvited, onGroupInvitationResponded, noticesVars, noticeVars
  <1>2. ~crossed
    BY DEF NoticesNext, noticesVars, noticeVars
  <1>3. ASSUME UNCHANGED <<events, notice>>,
               \A i \in Invites : invite'[i].status = invite[i].status
        PROVE  \A i \in Invites : Due(i)'
    BY <1>0, <1>1, <1>2, <1>3, StaysDue DEF OnTheWay
  <1>4. CASE NoticesNext /\ RequestStep
    <2>1. \A i \in Invites : ~AnswersCross(i)'
      BY <1>4 DEF NoticesNext
    <2> QED
      BY <1>1, <1>2, <1>4, <2>1, RequestDue DEF RequestStep
  <1>5. CASE ExpireStep
    <2>1. \A i \in Invites : invite'[i].status = invite[i].status
      BY <1>0, <1>5 DEF ExpireStep, Expire, RowsTyped, Invitation
    <2> QED
      BY <1>3, <1>5, <2>1 DEF ExpireStep
  <1>6. ASSUME NEW i \in Invites, onGroupInvited(i) PROVE \A j \in Invites : Due(j)'
    BY <1>1, <1>2, <1>6, ListenerDue DEF onGroupInvited, Handled, Event, Events
  <1>7. ASSUME NEW i \in Invites, NEW status \in {"ACCEPTED", "REJECTED"},
               onGroupInvitationResponded(i, status)
        PROVE  \A j \in Invites : Due(j)'
    BY <1>1, <1>2, <1>7, ListenerDue
       DEF onGroupInvitationResponded, updateInviteStatus, Handled, Event, Events
  <1>8. ASSUME NEW e \in events, ListenerFails(e) PROVE FALSE
    BY <1>8 DEF ListenerFails
  <1>9. CASE Crash
    <2>1. events = {}
      BY <1>9 DEF Crash
    <2>2. UNCHANGED <<events, notice, invite>>
      BY <1>9, <2>1 DEF Crash, ServerCrash
    <2> QED
      BY <1>3, <2>2
  <1>10. CASE UNCHANGED noticesVars
    BY <1>3, <1>10 DEF noticesVars, noticeVars, vars
  <1> QED
    BY <1>4, <1>5, <1>6, <1>7, <1>8, <1>9, <1>10 DEF NoticesNext, ListenerStep

LEMMA NextCatchUp == CatchUpInv /\ [NoticesNext]_noticesVars => CatchUpInv'
  <1> SUFFICES ASSUME CatchUpInv, [NoticesNext]_noticesVars PROVE CatchUpInv'
    OBVIOUS
  <1>1. TruthInv'
    BY NextTruth DEF CatchUpInv
  <1> QED
    BY <1>1, NextTold, NextDue DEF CatchUpInv

LEMMA InitCatchUp == NoticesInit => CatchUpInv
  <1> SUFFICES ASSUME NoticesInit PROVE CatchUpInv
    OBVIOUS
  <1>1. AnswersTold
    BY DEF NoticesInit, Init, AnswersTold, Idle
  <1>2. \A i \in Invites : Due(i)
    BY DEF NoticesInit, Init, Due, OnTheWay, Told
  <1> QED
    BY <1>1, <1>2, InitTruth DEF CatchUpInv

\* When no event is on its way, and none was missed and no answers crossed so far, every
\* notification says what became of its invitation.
THEOREM NoticesComeTrue == NoticesSpec => []NoticesCatchUp
  <1>1. CatchUpInv => NoticesCatchUp
    <2> SUFFICES ASSUME CatchUpInv, events = {}, ~missed, ~crossed, NEW i \in Invites
                 PROVE  notice[i] = Told[invite[i].status]
      BY DEF NoticesCatchUp
    <2>1. Due(i) /\ OnTheWay(i) = {}
      BY DEF CatchUpInv, OnTheWay
    <2> QED
      BY <2>1 DEF Due
  <1> QED
    BY <1>1, InitCatchUp, NextCatchUp, PTL DEF NoticesSpec
=============================================================================
