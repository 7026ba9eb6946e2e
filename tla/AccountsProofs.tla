--------------------------- MODULE AccountsProofs ---------------------------
(***************************************************************************)
(* Proofs about Accounts for every set of users, identities and requests.  *)
(***************************************************************************)
EXTENDS Accounts, TLAPS

\* The actions that look something up and write nothing.
Look(r) ==
    \/ \E e \in Emails : Register(r, e) \/ \E i \in Identities : Login(r, i, e)
    \/ FindByEmail(r)
    \/ \E n \in Names : generateUniqueUsername(r, n) \/ \E u \in Users : Update(r, u, n)
    \/ \E u \in Users : QueryProfile(r, u)

LEMMA GotoTypes ==
    ASSUME req \in [Requests -> Request], NEW r \in Requests, NEW next \in Request,
           Goto(r, next)
    PROVE  /\ req' \in [Requests -> Request]
           /\ req'[r] = next
           /\ \A q \in Requests \ {r} : req'[q] = req[q]
  BY DEF Goto

LEMMA DoingTypes ==
    ASSUME NEW op \in {"idle", "email", "name", "create", "link", "rename", "clear", "fill"},
           NEW who \in Identities \cup {Absent}, NEW email \in Emails \cup {Absent},
           NEW u \in Users \cup {Absent}, NEW name \in Names \cup {Absent},
           NEW seen \in Profile \cup {Absent}
    PROVE  Doing(op, who, email, u, name, seen) \in Request
  BY DEF Doing, Request

LEMMA FieldTypes ==
    ASSUME req \in [Requests -> Request], NEW r \in Requests
    PROVE  /\ req[r].op \in {"idle", "email", "name", "create", "link", "rename", "clear", "fill"}
           /\ req[r].who \in Identities \cup {Absent}
           /\ req[r].email \in Emails \cup {Absent}
           /\ req[r].user \in Users \cup {Absent}
           /\ req[r].name \in Names \cup {Absent}
           /\ req[r].seen \in Profile \cup {Absent}
  BY DEF Request

LEMMA LookTypes ==
    ASSUME TypeOK, LoginsAgree, NEW r \in Requests, Look(r), Next
    PROVE  TypeOK'
<1> USE AccountsAssumption
<1>1. user' = user /\ linked' = linked /\ cache' = cache /\ raced' = raced
  BY DEF Look, Register, Login, FindByEmail, generateUniqueUsername, Update, QueryProfile, NoWrite
<1>2. alone' \subseteq Requests
  BY DEF Next, AloneSoFar
<1>3. twoEmails' \subseteq Identities
  BY DEF Next, TypeOK, UnderTwoEmails
<1>4. req' \in [Requests -> Request]
  <2>0. req \in [Requests -> Request]
    BY DEF TypeOK
  <2>1. CASE \E e \in Emails : Register(r, e)
    BY <2>0, <2>1, GotoTypes, DoingTypes DEF Register
  <2>2. CASE \E e \in Emails, i \in Identities : Login(r, i, e)
    BY <2>0, <2>2, GotoTypes, DoingTypes DEF Login
  <2>3. CASE FindByEmail(r)
    BY <2>0, <2>3, FieldTypes, GotoTypes, DoingTypes DEF FindByEmail, WithEmail, Known
  <2>4. CASE \E n \in Names : generateUniqueUsername(r, n)
    BY <2>0, <2>4, FieldTypes, GotoTypes, DoingTypes DEF generateUniqueUsername
  <2>5. CASE \E n \in Names, u \in Users : Update(r, u, n)
    BY <2>0, <2>5, GotoTypes, DoingTypes DEF Update
  <2>6. CASE \E u \in Users : QueryProfile(r, u)
    <3>1. PICK u \in Users : QueryProfile(r, u)
      BY <2>6
    <3>2. ProfileOf(u) \in Profile
      BY <3>1 DEF QueryProfile, ProfileOf, Profile, TypeOK, Row, Known
    <3> QED BY <2>0, <3>1, <3>2, GotoTypes, DoingTypes DEF QueryProfile
  <2> QED BY <2>1, <2>2, <2>3, <2>4, <2>5, <2>6 DEF Look
<1>5. session' \subseteq [who : Identities, user : Users]
  <2>1. CASE UNCHANGED session
    BY <2>1 DEF TypeOK
  <2>2. CASE \E i \in Identities : linked[i] # Absent /\ Answer(i, linked[i])
    BY <2>2 DEF Answer, TypeOK
  <2> QED BY <2>1, <2>2
       DEF Look, Register, Login, FindByEmail, generateUniqueUsername, Update, QueryProfile
<1> QED BY <1>1, <1>2, <1>3, <1>4, <1>5 DEF TypeOK

LEMMA HistoryTypes ==
    ASSUME TypeOK, Next
    PROVE  alone' \subseteq Requests /\ twoEmails' \subseteq Identities
  BY DEF Next, TypeOK, UnderTwoEmails, AloneSoFar

LEMMA IdleTypes == Idle \in Request /\ Idle.op = "idle" /\ Idle.who = Absent
  BY DEF Idle, Doing, Request

LEMMA TypesKept ==
    ASSUME TypeOK, LoginsAgree, LinksKnown, Next
    PROVE  TypeOK'
<1>0. req \in [Requests -> Request] /\ user \in [Users -> Row \cup {Absent}]
        /\ linked \in [Identities -> Users \cup {Absent}]
        /\ cache \in [Users -> Profile \cup {Absent}]
  BY DEF TypeOK
<1>1. ASSUME NEW r \in Requests, Look(r) PROVE TypeOK'
  BY <1>1, LookTypes
<1>2. ASSUME NEW r \in Requests, CreateUser(r) PROVE TypeOK'
  <2>1. req' \in [Requests -> Request]
    BY <1>0, <1>2, GotoTypes, IdleTypes DEF CreateUser, Finish
  <2>2. CASE UNCHANGED <<user, linked, session>>
    BY <1>2, <2>1, <2>2, HistoryTypes DEF CreateUser, TypeOK
  <2>3. CASE \E u \in Users \ Known :
               /\ user' = [user EXCEPT ![u] = [email |-> req[r].email, name |-> req[r].name]]
               /\ linked' = [i \in Identities |-> IF i = req[r].who THEN u ELSE linked[i]]
               /\ IF req[r].who # Absent THEN Answer(req[r].who, u) ELSE UNCHANGED session
    <3>1. PICK u \in Users \ Known :
               /\ user' = [user EXCEPT ![u] = [email |-> req[r].email, name |-> req[r].name]]
               /\ linked' = [i \in Identities |-> IF i = req[r].who THEN u ELSE linked[i]]
               /\ IF req[r].who # Absent THEN Answer(req[r].who, u) ELSE UNCHANGED session
      BY <2>3
    <3>2. req[r].email \in Emails /\ req[r].name \in Names /\ req[r].who \in Identities \cup {Absent}
      BY <1>0, <1>2, FieldTypes DEF CreateUser, LoginsAgree, LoginAgrees
    <3>3. user' \in [Users -> Row \cup {Absent}]
      BY <1>0, <3>1, <3>2 DEF Row
    <3>4. linked' \in [Identities -> Users \cup {Absent}]
      BY <1>0, <3>1
    <3>5. session' \subseteq [who : Identities, user : Users]
      BY <3>1, <3>2 DEF Answer, TypeOK
    <3>6. cache' = cache /\ raced' = raced
      BY <1>2 DEF CreateUser, TypeOK
    <3> QED BY <2>1, <3>3, <3>4, <3>5, <3>6, HistoryTypes DEF TypeOK
  <2> QED BY <1>2, <2>2, <2>3 DEF CreateUser
<1>3. ASSUME NEW r \in Requests, linkAuthAccount(r) PROVE TypeOK'
  <2>1. req[r].who \in Identities /\ req[r].user \in Users /\ req[r].email \in Emails
    BY <1>3 DEF linkAuthAccount, LoginsAgree, LoginAgrees, Known
  <2>2. req' \in [Requests -> Request]
    BY <1>0, <1>3, <2>1, GotoTypes, DoingTypes, IdleTypes DEF linkAuthAccount, Finish
  <2>3. linked' \in [Identities -> Users \cup {Absent}]
    BY <1>0, <1>3, <2>1 DEF linkAuthAccount
  <2>4. raced' \subseteq Users
    BY <1>3, <2>1 DEF linkAuthAccount, Touched, TypeOK
  <2> QED BY <1>3, <2>2, <2>3, <2>4, HistoryTypes DEF linkAuthAccount, TypeOK
<1>4. ASSUME NEW r \in Requests, RenameUser(r) PROVE TypeOK'
  <2>1. req[r].user \in Known /\ req[r].user \in Users /\ req[r].name \in Names
    BY <1>4 DEF RenameUser, LoginsAgree, LoginAgrees, Known
  <2>2. req' \in [Requests -> Request]
    <3>1. Doing("clear", Absent, Absent, req[r].user, Absent, Absent) \in Request
      BY <2>1, DoingTypes
    <3>2. Goto(r, Doing("clear", Absent, Absent, req[r].user, Absent, Absent)) \/ Goto(r, Idle)
      BY <1>4 DEF RenameUser, Finish
    <3> QED BY <1>0, <3>1, <3>2, GotoTypes, IdleTypes
  <2>3. user' \in [Users -> Row \cup {Absent}]
    BY <1>0, <1>4, <2>1 DEF RenameUser, Row, Known
  <2>4. raced' \subseteq Users
    BY <1>4, <2>1 DEF RenameUser, Touched, TypeOK
  <2> QED BY <1>4, <2>2, <2>3, <2>4, HistoryTypes DEF RenameUser, TypeOK
<1>5. ASSUME NEW r \in Requests, ClearProfile(r) PROVE TypeOK'
  <2>1. req[r].user \in Users /\ req[r].who \in Identities \cup {Absent}
    BY <1>0, <1>5, FieldTypes DEF ClearProfile, LoginsAgree, LoginAgrees, Known
  <2>2. req' \in [Requests -> Request]
    BY <1>0, <1>5, GotoTypes, IdleTypes DEF ClearProfile, Finish
  <2>3. cache' \in [Users -> Profile \cup {Absent}]
    BY <1>0, <1>5, <2>1 DEF ClearProfile
  <2>4. session' \subseteq [who : Identities, user : Users]
    BY <1>5, <2>1 DEF ClearProfile, Answer, TypeOK
  <2> QED BY <1>5, <2>2, <2>3, <2>4, HistoryTypes DEF ClearProfile, TypeOK
<1>6. ASSUME NEW r \in Requests, StoreProfile(r) PROVE TypeOK'
  <2>1. req[r].user \in Users /\ req[r].seen \in Profile
    BY <1>6 DEF StoreProfile, LoginsAgree, LoginAgrees, Known
  <2>2. req' \in [Requests -> Request]
    BY <1>0, <1>6, GotoTypes, IdleTypes DEF StoreProfile, Finish
  <2>3. cache' \in [Users -> Profile \cup {Absent}]
    BY <1>0, <1>6, <2>1 DEF StoreProfile
  <2> QED BY <1>6, <2>2, <2>3, HistoryTypes DEF StoreProfile, TypeOK
<1>7. ASSUME NEW u \in Users, ExpireProfile(u) PROVE TypeOK'
  BY <1>0, <1>7, HistoryTypes DEF ExpireProfile, TypeOK
<1>8. ASSUME ServerCrash PROVE TypeOK'
  BY <1>8, IdleTypes, HistoryTypes DEF ServerCrash, TypeOK
<1> QED BY <1>1, <1>2, <1>3, <1>4, <1>5, <1>6, <1>7, <1>8 DEF Next, Step, Look
-----------------------------------------------------------------------------
(***************************************************************************)
(* Users and links only grow.                                              *)
(***************************************************************************)

UsersKept == \A u \in Known : u \in Known' /\ user'[u].email = user[u].email

LinksKept == \A i \in Identities : linked[i] # Absent => linked'[i] = linked[i]

LEMMA NewUser ==
    ASSUME TypeOK, LoginsAgree, NEW r \in Requests, CreateUser(r)
    PROVE  \/ UNCHANGED <<user, linked, session>>
           \/ /\ WithEmail(req[r].email) = {}
              /\ req[r].who # Absent => linked[req[r].who] = Absent
              /\ \E u \in Users \ Known :
                   /\ user' = [user EXCEPT ![u] = [email |-> req[r].email, name |-> req[r].name]]
                   /\ linked' = [i \in Identities |-> IF i = req[r].who THEN u ELSE linked[i]]
                   /\ IF req[r].who # Absent THEN Answer(req[r].who, u) ELSE UNCHANGED session
  BY DEF CreateUser, RoomFor

LEMMA NothingLost ==
    ASSUME LoginInv, Next
    PROVE  UsersKept /\ LinksKept /\ twoEmails \subseteq twoEmails' /\ UnderTwoEmails' \subseteq twoEmails'
<1>0. user \in [Users -> Row \cup {Absent}] /\ linked \in [Identities -> Users \cup {Absent}]
  BY DEF LoginInv, TypeOK
<1>1. twoEmails \subseteq twoEmails' /\ UnderTwoEmails' \subseteq twoEmails'
  BY DEF Next
<1>2. ASSUME UNCHANGED user PROVE UsersKept
  BY <1>2 DEF UsersKept, Known
<1>3. ASSUME UNCHANGED linked PROVE LinksKept
  BY <1>3 DEF LinksKept
<1>4. ASSUME NEW r \in Requests, CreateUser(r) PROVE UsersKept /\ LinksKept
  <2>1. CASE UNCHANGED <<user, linked, session>>
    BY <2>1, <1>2, <1>3
  <2>2. CASE ~ UNCHANGED <<user, linked, session>>
    <3>1. PICK u \in Users \ Known :
               /\ user' = [user EXCEPT ![u] = [email |-> req[r].email, name |-> req[r].name]]
               /\ linked' = [i \in Identities |-> IF i = req[r].who THEN u ELSE linked[i]]
      BY <1>4, <2>2, NewUser DEF LoginInv
    <3>2. \A v \in Users : v # u => user'[v] = user[v]
      BY <1>0, <3>1
    <3>3. UsersKept
      BY <3>1, <3>2 DEF UsersKept, Known
    <3>4. req[r].who \in Identities => linked[req[r].who] = Absent
      BY <1>4, <2>2, NewUser, AccountsAssumption DEF LoginInv
    <3> QED BY <3>1, <3>3, <3>4 DEF LinksKept
  <2> QED BY <2>1, <2>2
<1>5. ASSUME NEW r \in Requests, linkAuthAccount(r) PROVE UsersKept /\ LinksKept
  <2>1. UsersKept
    BY <1>2, <1>5 DEF linkAuthAccount
  <2>2. LinksKept
    BY <1>0, <1>5 DEF linkAuthAccount, LinksKept
  <2> QED BY <2>1, <2>2
<1>6. ASSUME NEW r \in Requests, RenameUser(r) PROVE UsersKept /\ LinksKept
  <2>1. LinksKept
    BY <1>3, <1>6 DEF RenameUser
  <2>2. req[r].user \in Users
    BY <1>6 DEF RenameUser, LoginInv, LoginsAgree, LoginAgrees, Known
  <2>3. CASE UNCHANGED user
    BY <1>2, <2>1, <2>3
  <2>4. CASE user' = [user EXCEPT ![req[r].user] = [email |-> user[req[r].user].email, name |-> req[r].name]]
    <3>1. \A v \in Users : v # req[r].user => user'[v] = user[v]
      BY <1>0, <2>4
    <3>2. user'[req[r].user] = [email |-> user[req[r].user].email, name |-> req[r].name]
      BY <1>0, <2>2, <2>4
    <3>3. req[r].name \in Names /\ user[req[r].user] \in Row
      BY <1>0, <1>6 DEF RenameUser, LoginInv, LoginsAgree, LoginAgrees, Known
    <3>4. user'[req[r].user] # Absent
      <4>1. user'[req[r].user] \in Row
        BY <3>2, <3>3 DEF Row
      <4> QED BY <4>1, AccountsAssumption
    <3> QED BY <2>1, <3>1, <3>2, <3>4 DEF UsersKept, Known
  <2> QED BY <1>6, <2>3, <2>4 DEF RenameUser
<1>7. ASSUME NEW r \in Requests, Look(r) \/ ClearProfile(r) \/ StoreProfile(r) PROVE UsersKept /\ LinksKept
  BY <1>2, <1>3, <1>7 DEF Look, Register, Login, FindByEmail, generateUniqueUsername, Update,
       QueryProfile, NoWrite, ClearProfile, StoreProfile
<1>8. ASSUME (\E u \in Users : ExpireProfile(u)) \/ ServerCrash PROVE UsersKept /\ LinksKept
  BY <1>2, <1>3, <1>8 DEF ExpireProfile, ServerCrash
<1> QED BY <1>1, <1>4, <1>5, <1>6, <1>7, <1>8 DEF Next, Step, Look

\* A user that was not there before has an email that was not there before.
LEMMA EmailsStayUnique ==
    ASSUME LoginInv, TypeOK', Next
    PROVE  OneUserPerEmail'
<1>0. user \in [Users -> Row \cup {Absent}] /\ OneUserPerEmail /\ UsersKept
  BY NothingLost DEF LoginInv, TypeOK
<1>1. CASE Known' = Known
  BY <1>0, <1>1 DEF OneUserPerEmail, UsersKept
<1>2. ASSUME NEW r \in Requests, CreateUser(r) PROVE OneUserPerEmail'
  <2>1. CASE UNCHANGED user
    BY <1>1, <2>1 DEF Known
  <2>2. CASE ~ UNCHANGED user
    <3>1. PICK u \in Users \ Known :
            user' = [user EXCEPT ![u] = [email |-> req[r].email, name |-> req[r].name]]
      BY <1>2, <2>2, NewUser DEF LoginInv
    <3>2. \A v \in Users : v # u => user'[v] = user[v]
      BY <1>0, <3>1
    <3>3. user'[u].email = req[r].email
      BY <1>0, <3>1
    <3>4. Known' \subseteq Known \cup {u}
      BY <3>2 DEF Known
    <3>5. \A v \in Known : user[v].email # req[r].email
      BY <1>2, <2>2, NewUser DEF LoginInv, WithEmail
    <3>6. \A v \in Known : v # u /\ v \in Users
      BY <3>1 DEF Known
    <3> QED BY <1>0, <3>2, <3>3, <3>4, <3>5, <3>6 DEF OneUserPerEmail
  <2> QED BY <2>1, <2>2
<1>3. ASSUME NEW r \in Requests, RenameUser(r) PROVE Known' = Known
  <2>1. CASE UNCHANGED user
    BY <2>1 DEF Known
  <2>2. CASE user' = [user EXCEPT ![req[r].user] = [email |-> user[req[r].user].email, name |-> req[r].name]]
    <3>1. req[r].user \in Known
      BY <1>3 DEF RenameUser, LoginInv, LoginsAgree, LoginAgrees
    <3>2. \A v \in Users : v # req[r].user => user'[v] = user[v]
      BY <1>0, <2>2
    <3> QED BY <1>0, <3>1, <3>2 DEF Known, UsersKept
  <2> QED BY <1>3, <2>1, <2>2 DEF RenameUser
<1>4. ASSUME NEW r \in Requests, Look(r) \/ linkAuthAccount(r) \/ ClearProfile(r) \/ StoreProfile(r)
      PROVE Known' = Known
  BY <1>4 DEF Look, Register, Login, FindByEmail, generateUniqueUsername, Update, QueryProfile,
       NoWrite, linkAuthAccount, ClearProfile, StoreProfile, Known
<1>5. ASSUME (\E u \in Users : ExpireProfile(u)) \/ ServerCrash PROVE Known' = Known
  BY <1>5 DEF ExpireProfile, ServerCrash, Known
<1> QED BY <1>1, <1>2, <1>3, <1>4, <1>5 DEF Next, Step, Look

\* What a request of identity i that is answered, or that writes, leaves behind.
LEMMA NewLinks ==
    ASSUME LoginInv, TypeOK', Next, NEW i \in Identities, linked[i] = Absent, linked'[i] # Absent
    PROVE  /\ linked'[i] \in Known'
           /\ \E r \in Requests : req[r].who = i /\ user'[linked'[i]].email = req[r].email
<1>0. user \in [Users -> Row \cup {Absent}] /\ linked \in [Identities -> Users \cup {Absent}]
        /\ UsersKept
  BY NothingLost DEF LoginInv, TypeOK
<1>1. ASSUME NEW r \in Requests, CreateUser(r)
      PROVE  linked'[i] \in Known' /\ req[r].who = i /\ user'[linked'[i]].email = req[r].email
  <2>1. PICK u \in Users \ Known :
             /\ user' = [user EXCEPT ![u] = [email |-> req[r].email, name |-> req[r].name]]
             /\ linked' = [j \in Identities |-> IF j = req[r].who THEN u ELSE linked[j]]
    BY <1>1, NewUser DEF LoginInv
  <2>2. req[r].who = i /\ linked'[i] = u
    BY <2>1
  <2>3. user'[u] = [email |-> req[r].email, name |-> req[r].name]
    BY <1>0, <2>1
  <2>4. req[r].email \in Emails /\ req[r].name \in Names
    BY <1>1 DEF CreateUser, LoginInv, LoginsAgree, LoginAgrees
  <2>5. user'[u] \in Row
    BY <2>3, <2>4 DEF Row
  <2>6. user'[u] # Absent
    BY <2>5, AccountsAssumption
  <2> QED BY <2>1, <2>2, <2>3, <2>6 DEF Known
<1>2. ASSUME NEW r \in Requests, linkAuthAccount(r)
      PROVE  linked'[i] \in Known' /\ req[r].who = i /\ user'[linked'[i]].email = req[r].email
  <2>1. req[r].who = i /\ linked'[i] = req[r].user /\ user' = user
    BY <1>0, <1>2 DEF linkAuthAccount
  <2>2. req[r].user \in Known /\ user[req[r].user].email = req[r].email
    BY <1>2 DEF linkAuthAccount, LoginInv, LoginsAgree, LoginAgrees
  <2> QED BY <2>1, <2>2 DEF Known
<1>3. ASSUME NEW r \in Requests, Look(r) \/ RenameUser(r) \/ ClearProfile(r) \/ StoreProfile(r)
      PROVE  FALSE
  BY <1>3 DEF Look, Register, Login, FindByEmail, generateUniqueUsername, Update, QueryProfile,
       NoWrite, RenameUser, ClearProfile, StoreProfile
<1>4. ASSUME (\E u \in Users : ExpireProfile(u)) \/ ServerCrash PROVE FALSE
  BY <1>4 DEF ExpireProfile, ServerCrash
<1> QED BY <1>1, <1>2, <1>3, <1>4 DEF Next, Step, Look

LEMMA LinksStayKnown ==
    ASSUME LoginInv, TypeOK', Next
    PROVE  LinksKnown'
<1>1. LinksKnown /\ UsersKept /\ LinksKept
  BY NothingLost DEF LoginInv
<1> QED BY <1>1, NewLinks DEF LinksKnown, UsersKept, LinksKept
-----------------------------------------------------------------------------
(***************************************************************************)
(* Every login in flight agrees with the links.                            *)
(***************************************************************************)

LEMMA IdleAgrees ==
    ASSUME NEW r \in Requests, req'[r] = Idle
    PROVE  LoginAgrees(r)'
  BY AccountsAssumption DEF LoginAgrees, Idle, Doing

LEMMA OthersAgree ==
    ASSUME LoginInv, TypeOK', Next, NEW q \in Requests, req'[q] = req[q]
    PROVE  LoginAgrees(q)'
<1>0. /\ LoginAgrees(q) /\ LinksKnown /\ UnderTwoEmails \subseteq twoEmails
      /\ twoEmails \subseteq twoEmails' /\ UsersKept /\ LinksKept
  BY NothingLost DEF LoginInv, LoginsAgree
<1>1. Absent \notin Known /\ Known \subseteq Users
  BY AccountsAssumption DEF Known
<1>2. ASSUME req[q].op \in {"email", "name", "create", "link"}, req[q].who \in Identities \ twoEmails'
      PROVE  linked'[req[q].who] = Absent \/ user'[linked'[req[q].who]].email = req[q].email
  <2> DEFINE i == req[q].who
  <2>1. i \in Identities /\ i \notin twoEmails /\ i \notin UnderTwoEmails
    BY <1>0, <1>2
  <2>2. CASE linked[i] # Absent
    <3>1. linked'[i] = linked[i] /\ linked[i] \in Known /\ user[linked[i]].email = req[q].email
      BY <1>0, <1>2, <2>1, <2>2 DEF LinksKept, LinksKnown, LoginAgrees
    <3> QED BY <1>0, <3>1 DEF UsersKept
  <2>3. CASE linked[i] = Absent /\ linked'[i] # Absent
    <3>1. PICK r \in Requests : req[r].who = i /\ user'[linked'[i]].email = req[r].email
      BY <2>1, <2>3, NewLinks
    <3>2. req[r].email = req[q].email
      BY <2>1, <3>1 DEF UnderTwoEmails
    <3> QED BY <3>1, <3>2
  <2> QED BY <2>2, <2>3
<1>3. ASSUME req[q].op = "clear", req[q].who \in Identities \ twoEmails'
      PROVE  linked'[req[q].who] = req[q].user
  <2>1. linked[req[q].who] = req[q].user /\ req[q].user \in Known
    BY <1>0, <1>3 DEF LoginAgrees
  <2> QED BY <1>0, <1>1, <1>3, <2>1 DEF LinksKept
<1>4. ASSUME req[q].op \in {"link", "rename", "clear", "fill"} PROVE req[q].user \in Known'
  BY <1>0, <1>4 DEF LoginAgrees, UsersKept
<1>5. ASSUME req[q].op = "link" PROVE user'[req[q].user].email = req[q].email
  BY <1>0, <1>5 DEF LoginAgrees, UsersKept
<1>6. /\ req[q].op \in {"email", "link"} => req[q].who \in Identities
      /\ req[q].op \in {"email", "name", "create", "link"} => req[q].email \in Emails
      /\ req[q].op \in {"create", "rename"} => req[q].name \in Names
      /\ req[q].op \in {"rename", "fill"} => req[q].who = Absent
      /\ req[q].op = "fill" => req[q].seen \in Profile
  BY <1>0 DEF LoginAgrees
<1> QED BY <1>2, <1>3, <1>4, <1>5, <1>6 DEF LoginAgrees

LEMMA LookerAgrees ==
    ASSUME LoginInv, TypeOK', Next, NEW r \in Requests, Look(r)
    PROVE  LoginAgrees(r)'
<1>0. /\ req \in [Requests -> Request] /\ user \in [Users -> Row \cup {Absent}]
      /\ LoginAgrees(r) /\ twoEmails \subseteq twoEmails'
  BY NothingLost DEF LoginInv, LoginsAgree, TypeOK
<1>1. user' = user /\ linked' = linked /\ Known' = Known
  BY DEF Look, Register, Login, FindByEmail, generateUniqueUsername, Update, QueryProfile, NoWrite,
         Known
<1>2. ASSUME NEW e \in Emails, Register(r, e) PROVE LoginAgrees(r)'
  <2>1. req'[r] = Doing("name", Absent, e, Absent, Absent, Absent)
    BY <1>0, <1>2 DEF Register, Goto
  <2> QED BY <2>1, AccountsAssumption DEF LoginAgrees, Doing
<1>3. ASSUME NEW e \in Emails, NEW i \in Identities, Login(r, i, e) PROVE LoginAgrees(r)'
  <2>1. CASE req' = req
    BY <2>1, OthersAgree
  <2>2. CASE linked[i] = Absent /\ Goto(r, Doing("email", i, e, Absent, Absent, Absent))
    <3>1. req'[r] = Doing("email", i, e, Absent, Absent, Absent)
      BY <1>0, <2>2 DEF Goto
    <3> QED BY <1>1, <2>2, <3>1 DEF LoginAgrees, Doing
  <2> QED BY <1>3, <2>1, <2>2 DEF Login
<1>4. ASSUME FindByEmail(r) PROVE LoginAgrees(r)'
  <2>0. /\ req[r].who \in Identities /\ req[r].email \in Emails
        /\ req[r].who \in Identities \ twoEmails'
             => linked[req[r].who] = Absent \/ user[linked[req[r].who]].email = req[r].email
    BY <1>0, <1>4 DEF FindByEmail, LoginAgrees
  <2>1. ASSUME NEW u \in WithEmail(req[r].email),
               Goto(r, Doing("link", req[r].who, req[r].email, u, Absent, Absent))
        PROVE  LoginAgrees(r)'
    <3>1. req'[r] = Doing("link", req[r].who, req[r].email, u, Absent, Absent)
      BY <1>0, <2>1 DEF Goto
    <3>2. u \in Known /\ user[u].email = req[r].email
      BY <2>1 DEF WithEmail
    <3> QED BY <1>1, <2>0, <3>1, <3>2 DEF LoginAgrees, Doing
  <2>2. CASE Goto(r, Doing("name", req[r].who, req[r].email, Absent, Absent, Absent))
    <3>1. req'[r] = Doing("name", req[r].who, req[r].email, Absent, Absent, Absent)
      BY <1>0, <2>2 DEF Goto
    <3> QED BY <1>1, <2>0, <3>1 DEF LoginAgrees, Doing
  <2> QED BY <1>4, <2>1, <2>2 DEF FindByEmail
<1>5. ASSUME NEW n \in Names, generateUniqueUsername(r, n) PROVE LoginAgrees(r)'
  <2>0. /\ req[r].email \in Emails
        /\ req[r].who \in Identities \ twoEmails'
             => linked[req[r].who] = Absent \/ user[linked[req[r].who]].email = req[r].email
    BY <1>0, <1>5 DEF generateUniqueUsername, LoginAgrees
  <2>1. req'[r] = Doing("create", req[r].who, req[r].email, Absent, n, Absent)
    BY <1>0, <1>5 DEF generateUniqueUsername, Goto
  <2> QED BY <1>1, <2>0, <2>1 DEF LoginAgrees, Doing
<1>6. ASSUME NEW u \in Users, NEW n \in Names, Update(r, u, n) PROVE LoginAgrees(r)'
  <2>1. req'[r] = Doing("rename", Absent, Absent, u, n, Absent) /\ u \in Known
    BY <1>0, <1>6 DEF Update, Goto
  <2> QED BY <1>1, <2>1, AccountsAssumption DEF LoginAgrees, Doing
<1>7. ASSUME NEW u \in Users, QueryProfile(r, u) PROVE LoginAgrees(r)'
  <2>1. req'[r] = Doing("fill", Absent, Absent, u, Absent, ProfileOf(u)) /\ u \in Known
    BY <1>0, <1>7 DEF QueryProfile, Goto
  <2>2. ProfileOf(u) \in Profile
    BY <1>0, <2>1 DEF ProfileOf, Profile, Row, Known
  <2> QED BY <1>1, <2>1, <2>2, AccountsAssumption DEF LoginAgrees, Doing
<1> QED BY <1>2, <1>3, <1>4, <1>5, <1>6, <1>7 DEF Look

LEMMA LoginsKeepAgreeing ==
    ASSUME LoginInv, TypeOK', Next
    PROVE  LoginsAgree'
<1>0. /\ req \in [Requests -> Request] /\ OneUserPerEmail /\ LinksKnown /\ LoginsAgree
      /\ linked \in [Identities -> Users \cup {Absent}]
      /\ twoEmails \subseteq twoEmails' /\ UsersKept
  BY NothingLost DEF LoginInv, TypeOK
<1>1. ASSUME NEW r \in Requests, NEW next, Goto(r, next), LoginAgrees(r)' PROVE LoginsAgree'
  <2>1. ASSUME NEW q \in Requests, q # r PROVE req'[q] = req[q]
    BY <1>0, <1>1, <2>1 DEF Goto
  <2> QED BY <1>1, <2>1, OthersAgree DEF LoginsAgree
<1>2. ASSUME NEW r \in Requests, Finish(r) PROVE LoginsAgree'
  <2>1. req'[r] = Idle
    BY <1>0, <1>2 DEF Finish, Goto
  <2> QED BY <1>1, <1>2, <2>1, IdleAgrees DEF Finish
<1>3. ASSUME UNCHANGED req PROVE LoginsAgree'
  BY <1>3, OthersAgree DEF LoginsAgree
<1>4. ASSUME NEW r \in Requests, Look(r) PROVE LoginsAgree'
  <2>1. UNCHANGED req \/ \E next : Goto(r, next)
    BY <1>4 DEF Look, Register, Login, FindByEmail, generateUniqueUsername, Update, QueryProfile
  <2> QED BY <1>1, <1>3, <1>4, <2>1, LookerAgrees
<1>5. ASSUME NEW r \in Requests, linkAuthAccount(r) PROVE LoginsAgree'
  <2> DEFINE i == req[r].who
             u == req[r].user
             done == Doing("clear", i, req[r].email, u, Absent, Absent)
  <2>1. CASE Finish(r)
    BY <1>2, <2>1
  <2>2. CASE Goto(r, done)
    <3>0. LoginAgrees(r) /\ req[r].op = "link"
      BY <1>0, <1>5 DEF linkAuthAccount, LoginsAgree
    <3>1. i \in Identities /\ u \in Known /\ user[u].email = req[r].email
      BY <3>0 DEF LoginAgrees
    <3>2. req'[r] = done
      BY <1>0, <2>2 DEF Goto
    <3>3. u \in Known'
      BY <1>0, <3>1 DEF UsersKept
    <3>4. ASSUME i \notin twoEmails' PROVE linked'[i] = u
      <4>1. CASE linked[i] = Absent
        <5>1. ~ Finish(r)
          BY <1>0, <3>2, <3>1 DEF Finish, Goto, Idle, Doing
        <5>2. linked' = [linked EXCEPT ![i] = u]
          BY <1>5, <4>1, <5>1 DEF linkAuthAccount
        <5> QED BY <1>0, <3>1, <5>2
      <4>2. CASE linked[i] # Absent
        <5>1. linked' = linked
          BY <1>5, <4>2 DEF linkAuthAccount
        <5>2. linked[i] \in Known
          BY <1>0, <3>1, <4>2 DEF LinksKnown
        <5>3. user[linked[i]].email = req[r].email
          BY <1>0, <3>0, <3>1, <3>4, <4>2 DEF LoginAgrees
        <5> QED BY <1>0, <3>1, <5>1, <5>2, <5>3 DEF OneUserPerEmail
      <4> QED BY <4>1, <4>2
    <3>5. /\ req'[r].op = "clear" /\ req'[r].who = i /\ req'[r].user = u
      BY <3>2 DEF Doing
    <3>6. LoginAgrees(r)'
      BY <3>3, <3>4, <3>5 DEF LoginAgrees
    <3> QED BY <1>1, <2>2, <3>6
  <2> QED BY <1>5, <2>1, <2>2 DEF linkAuthAccount
<1>6. ASSUME NEW r \in Requests, RenameUser(r) PROVE LoginsAgree'
  <2>1. CASE Finish(r)
    BY <1>2, <2>1
  <2>2. CASE Goto(r, Doing("clear", Absent, Absent, req[r].user, Absent, Absent))
    <3>1. req'[r] = Doing("clear", Absent, Absent, req[r].user, Absent, Absent)
      BY <1>0, <2>2 DEF Goto
    <3>2. req[r].user \in Known'
      BY <1>0, <1>6 DEF RenameUser, LoginsAgree, LoginAgrees, UsersKept
    <3>3. LoginAgrees(r)'
      BY <3>1, <3>2, AccountsAssumption DEF LoginAgrees, Doing
    <3> QED BY <1>1, <2>2, <3>3
  <2> QED BY <1>6, <2>1, <2>2 DEF RenameUser
<1>7. ASSUME NEW r \in Requests, CreateUser(r) \/ ClearProfile(r) \/ StoreProfile(r)
      PROVE  LoginsAgree'
  BY <1>2, <1>7 DEF CreateUser, ClearProfile, StoreProfile
<1>8. ASSUME NEW u \in Users, ExpireProfile(u) PROVE LoginsAgree'
  BY <1>3, <1>8 DEF ExpireProfile
<1>9. ASSUME ServerCrash PROVE LoginsAgree'
  BY <1>9, IdleAgrees DEF ServerCrash, LoginsAgree
<1> QED BY <1>4, <1>5, <1>6, <1>7, <1>8, <1>9 DEF Next, Step, Look

\* A login is only ever answered with the user its identity is linked to.
LEMMA AnswersAreLinked ==
    ASSUME LoginInv, TypeOK', Next
    PROVE  LoginIsLinked'
<1>0. /\ req \in [Requests -> Request] /\ LinksKnown /\ LoginsAgree /\ LoginIsLinked
      /\ session \subseteq [who : Identities, user : Users]
      /\ linked \in [Identities -> Users \cup {Absent}]
      /\ twoEmails \subseteq twoEmails' /\ LinksKept
  BY NothingLost DEF LoginInv, TypeOK
<1>1. ASSUME NEW s \in session, s.who \notin twoEmails' PROVE linked'[s.who] = s.user
  <2>1. linked[s.who] = s.user /\ s.user \in Users /\ s.who \in Identities
    BY <1>0, <1>1 DEF LoginIsLinked
  <2> QED BY <1>0, <2>1, AccountsAssumption DEF LinksKept
<1>2. ASSUME session' = session PROVE LoginIsLinked'
  BY <1>1, <1>2 DEF LoginIsLinked
<1>3. ASSUME NEW i \in Identities, NEW u, Answer(i, u), i \notin twoEmails' => linked'[i] = u
      PROVE  LoginIsLinked'
  BY <1>1, <1>3 DEF LoginIsLinked, Answer
<1>4. ASSUME NEW r \in Requests, Look(r) PROVE LoginIsLinked'
  <2>1. CASE session' = session
    BY <1>2, <2>1
  <2>2. CASE \E i \in Identities : linked' = linked /\ Answer(i, linked[i])
    BY <1>3, <2>2
  <2> QED BY <1>4, <2>1, <2>2
       DEF Look, Register, Login, FindByEmail, generateUniqueUsername, Update, QueryProfile, NoWrite
<1>5. ASSUME NEW r \in Requests, CreateUser(r) PROVE LoginIsLinked'
  <2>1. CASE session' = session
    BY <1>2, <2>1
  <2>2. CASE session' # session
    <3>1. PICK u \in Users \ Known :
               /\ linked' = [j \in Identities |-> IF j = req[r].who THEN u ELSE linked[j]]
               /\ IF req[r].who # Absent THEN Answer(req[r].who, u) ELSE UNCHANGED session
      BY <1>5, <2>2, NewUser DEF LoginInv
    <3>2. req[r].who \in Identities /\ Answer(req[r].who, u)
      BY <1>0, <2>2, <3>1, FieldTypes
    <3> QED BY <1>3, <3>1, <3>2
  <2> QED BY <2>1, <2>2
<1>6. ASSUME NEW r \in Requests, ClearProfile(r) PROVE LoginIsLinked'
  <2>1. CASE req[r].who = Absent
    BY <1>2, <1>6, <2>1 DEF ClearProfile
  <2>2. CASE req[r].who # Absent
    <3>1. req[r].who \in Identities /\ Answer(req[r].who, req[r].user) /\ linked' = linked
      BY <1>0, <1>6, <2>2, FieldTypes DEF ClearProfile
    <3>2. req[r].who \notin twoEmails' => linked[req[r].who] = req[r].user
      BY <1>0, <1>6, <3>1 DEF ClearProfile, LoginsAgree, LoginAgrees
    <3> QED BY <1>3, <3>1, <3>2
  <2> QED BY <2>1, <2>2
<1>7. ASSUME NEW r \in Requests, linkAuthAccount(r) \/ RenameUser(r) \/ StoreProfile(r)
      PROVE  LoginIsLinked'
  BY <1>2, <1>7 DEF linkAuthAccount, RenameUser, StoreProfile
<1>8. ASSUME (\E u \in Users : ExpireProfile(u)) \/ ServerCrash PROVE LoginIsLinked'
  BY <1>2, <1>8 DEF ExpireProfile, ServerCrash
<1> QED BY <1>4, <1>5, <1>6, <1>7, <1>8 DEF Next, Step, Look
-----------------------------------------------------------------------------
(***************************************************************************)
(* The theorems on types and logins.                                       *)
(***************************************************************************)

LEMMA LoginInvInit == Init => LoginInv
<1> SUFFICES ASSUME Init PROVE LoginInv
  OBVIOUS
<1>1. TypeOK
  BY IdleTypes DEF Init, TypeOK
<1>2. Known = {}
  BY DEF Init, Known
<1>3. OneUserPerEmail /\ LinksKnown /\ LoginIsLinked
  BY <1>2 DEF Init, OneUserPerEmail, LinksKnown, LoginIsLinked
<1>4. UnderTwoEmails \subseteq twoEmails /\ LoginsAgree
  BY AccountsAssumption DEF Init, UnderTwoEmails, LoginsAgree, LoginAgrees, Idle, Doing
<1> QED BY <1>1, <1>3, <1>4 DEF LoginInv

LEMMA LoginInvStutters ==
    ASSUME LoginInv, UNCHANGED vars
    PROVE  LoginInv'
<1>1. TypeOK'
  BY DEF LoginInv, TypeOK, vars
<1>2. OneUserPerEmail' /\ LinksKnown' /\ LoginIsLinked'
  BY DEF LoginInv, OneUserPerEmail, LinksKnown, LoginIsLinked, Known, vars
<1>3. (UnderTwoEmails \subseteq twoEmails)' /\ LoginsAgree'
  BY DEF LoginInv, UnderTwoEmails, LoginsAgree, LoginAgrees, Known, vars
<1> QED BY <1>1, <1>2, <1>3 DEF LoginInv

LEMMA LoginInvNext == LoginInv /\ [Next]_vars => LoginInv'
<1>1. ASSUME LoginInv, Next PROVE LoginInv'
  <2>1. TypeOK'
    BY <1>1, TypesKept DEF LoginInv
  <2>2. OneUserPerEmail' /\ LinksKnown' /\ LoginsAgree' /\ LoginIsLinked'
    BY <1>1, <2>1, EmailsStayUnique, LinksStayKnown, LoginsKeepAgreeing, AnswersAreLinked
  <2>3. (UnderTwoEmails \subseteq twoEmails)'
    BY <1>1, NothingLost
  <2> QED BY <2>1, <2>2, <2>3 DEF LoginInv
<1> QED BY <1>1, LoginInvStutters

LEMMA LoginInvHolds == Spec => []LoginInv
  BY LoginInvInit, LoginInvNext, PTL DEF Spec

\* Every state of users, links, cache and requests has its type: a request
\* never writes a row with a missing username or for a user it did not find.
THEOREM AccountsTypeCorrect == Spec => []TypeOK
<1>1. LoginInv => TypeOK
  BY DEF LoginInv
<1> QED BY <1>1, LoginInvHolds, PTL

\* However many logins, registrations and updates race, a login is answered
\* with the user its identity is linked to for good, unless that identity logs
\* in under two emails at once.
THEOREM LoginsAreLinked == Spec => []LoginIsLinked
<1>1. LoginInv => LoginIsLinked
  BY DEF LoginInv
<1> QED BY <1>1, LoginInvHolds, PTL
-----------------------------------------------------------------------------
(***************************************************************************)
(* The cache.  A user's profile is touched by the writes to the row and by *)
(* links, and each of them marks the queries in flight and ends in a clear.*)
(***************************************************************************)

\* What a step may do to the profile of a user that was there before.
ProfileStep(u) ==
    \/ ProfileOf(u)' = ProfileOf(u)
    \/ /\ \A q \in Requests : req[q].op = "fill" /\ req[q].user = u => u \in raced'
       /\ \E r \in Requests : req'[r].op = "clear" /\ req'[r].user = u
       /\ cache' = cache

LEMMA SameProfile ==
    ASSUME NEW u \in Users, user'[u].name = user[u].name,
           \A i \in Identities : (linked'[i] = u) <=> (linked[i] = u)
    PROVE  ProfileOf(u)' = ProfileOf(u)
  BY DEF ProfileOf

LEMMA ProfilesStep ==
    ASSUME LoginInv, Next, NEW u \in Known
    PROVE  ProfileStep(u) /\ raced \subseteq raced'
<1>0. /\ req \in [Requests -> Request] /\ user \in [Users -> Row \cup {Absent}]
      /\ linked \in [Identities -> Users \cup {Absent}] /\ LoginsAgree /\ u \in Users
  BY DEF LoginInv, TypeOK, Known
<1>1. ASSUME UNCHANGED <<user, linked>> PROVE ProfileStep(u)
  BY <1>0, <1>1, SameProfile DEF ProfileStep
<1>2. ASSUME NEW r \in Requests, CreateUser(r) PROVE ProfileStep(u) /\ raced \subseteq raced'
  <2>1. CASE UNCHANGED <<user, linked, session>>
    BY <1>1, <1>2, <2>1 DEF CreateUser
  <2>2. CASE ~ UNCHANGED <<user, linked, session>>
    <3>1. PICK v \in Users \ Known :
               /\ user' = [user EXCEPT ![v] = [email |-> req[r].email, name |-> req[r].name]]
               /\ linked' = [i \in Identities |-> IF i = req[r].who THEN v ELSE linked[i]]
      BY <1>2, <2>2, NewUser DEF LoginInv
    <3>2. req[r].who \in Identities => linked[req[r].who] = Absent
      BY <1>2, <2>2, NewUser, AccountsAssumption DEF LoginInv
    <3>3. u # v /\ u # Absent
      BY <1>0, <3>1, AccountsAssumption
    <3>4. user'[u] = user[u]
      BY <1>0, <3>1, <3>3
    <3>5. \A i \in Identities : (linked'[i] = u) <=> (linked[i] = u)
      BY <3>1, <3>2, <3>3
    <3> QED BY <1>0, <1>2, <3>4, <3>5, SameProfile DEF ProfileStep, CreateUser
  <2> QED BY <2>1, <2>2
<1>3. ASSUME NEW r \in Requests, NEW v \in Users, Touched(v)
      PROVE  /\ raced \subseteq raced'
             /\ \A q \in Requests : req[q].op = "fill" /\ req[q].user = v => v \in raced'
  BY <1>3 DEF Touched
<1>4. ASSUME NEW r \in Requests, linkAuthAccount(r) PROVE ProfileStep(u) /\ raced \subseteq raced'
  <2> DEFINE i == req[r].who
             v == req[r].user
             done == Doing("clear", i, req[r].email, v, Absent, Absent)
  <2>1. i \in Identities /\ v \in Users /\ user' = user /\ cache' = cache
    BY <1>0, <1>4 DEF linkAuthAccount, LoginsAgree, LoginAgrees, Known
  <2>2. CASE UNCHANGED <<linked, raced>>
    BY <1>1, <2>1, <2>2
  <2>3. CASE linked[i] = Absent /\ linked' = [linked EXCEPT ![i] = v] /\ Touched(v) /\ Goto(r, done)
    <3>1. raced \subseteq raced'
            /\ \A q \in Requests : req[q].op = "fill" /\ req[q].user = v => v \in raced'
      BY <1>3, <2>1, <2>3
    <3>2. req'[r] = done /\ done.op = "clear" /\ done.user = v
      BY <1>0, <2>3 DEF Goto, Doing
    <3>3. CASE u = v
      BY <2>1, <3>1, <3>2, <3>3 DEF ProfileStep
    <3>4. CASE u # v
      <4>1. \A j \in Identities : (linked'[j] = u) <=> (linked[j] = u)
        BY <1>0, <2>3, <3>4, AccountsAssumption
      <4> QED BY <1>0, <2>1, <3>1, <4>1, SameProfile DEF ProfileStep
    <3> QED BY <3>3, <3>4
  <2> QED BY <1>4, <2>2, <2>3 DEF linkAuthAccount
<1>5. ASSUME NEW r \in Requests, RenameUser(r) PROVE ProfileStep(u) /\ raced \subseteq raced'
  <2> DEFINE v == req[r].user
             done == Doing("clear", Absent, Absent, v, Absent, Absent)
  <2>1. v \in Users /\ linked' = linked /\ cache' = cache
    BY <1>0, <1>5 DEF RenameUser, LoginsAgree, LoginAgrees, Known
  <2>2. CASE UNCHANGED <<user, raced>>
    BY <1>1, <2>1, <2>2
  <2>3. CASE /\ user' = [user EXCEPT ![v] = [email |-> user[v].email, name |-> req[r].name]]
             /\ Touched(v) /\ Goto(r, done)
    <3>1. raced \subseteq raced'
            /\ \A q \in Requests : req[q].op = "fill" /\ req[q].user = v => v \in raced'
      BY <1>3, <2>1, <2>3
    <3>2. req'[r] = done /\ done.op = "clear" /\ done.user = v
      BY <1>0, <2>3 DEF Goto, Doing
    <3>3. CASE u = v
      BY <2>1, <3>1, <3>2, <3>3 DEF ProfileStep
    <3>4. CASE u # v
      <4>1. user'[u] = user[u]
        BY <1>0, <2>3, <3>4
      <4> QED BY <1>0, <2>1, <3>1, <4>1, SameProfile DEF ProfileStep
    <3> QED BY <3>3, <3>4
  <2> QED BY <1>5, <2>2, <2>3 DEF RenameUser
<1>6. ASSUME NEW r \in Requests, Look(r) \/ ClearProfile(r) \/ StoreProfile(r)
      PROVE  ProfileStep(u) /\ raced \subseteq raced'
  BY <1>1, <1>6 DEF Look, Register, Login, FindByEmail, generateUniqueUsername, Update,
       QueryProfile, NoWrite, ClearProfile, StoreProfile
<1>7. ASSUME (\E v \in Users : ExpireProfile(v)) \/ ServerCrash
      PROVE  ProfileStep(u) /\ raced \subseteq raced'
  BY <1>1, <1>7 DEF ExpireProfile, ServerCrash
<1> QED BY <1>2, <1>4, <1>5, <1>6, <1>7 DEF Next, Step, Look

\* How entries come and go, and what becomes of queries and clears in flight.
LEMMA CacheStep ==
    ASSUME LoginInv, Next, NEW u \in Users
    PROVE  \/ cache'[u] = cache[u]
           \/ cache'[u] = Absent
           \/ /\ UNCHANGED <<user, linked, raced>>
              /\ \E r \in Requests :
                   req[r].op = "fill" /\ req[r].user = u /\ cache'[u] = req[r].seen
<1>0. cache \in [Users -> Profile \cup {Absent}] /\ LoginsAgree
  BY DEF LoginInv, TypeOK
<1>1. ASSUME NEW r \in Requests, StoreProfile(r)
      PROVE  \/ cache'[u] = cache[u]
             \/ /\ UNCHANGED <<user, linked, raced>>
                /\ req[r].op = "fill" /\ req[r].user = u /\ cache'[u] = req[r].seen
  BY <1>0, <1>1 DEF StoreProfile
<1>2. ASSUME NEW r \in Requests, ClearProfile(r) PROVE cache'[u] = cache[u] \/ cache'[u] = Absent
  BY <1>0, <1>2 DEF ClearProfile
<1>3. ASSUME NEW v \in Users, ExpireProfile(v) PROVE cache'[u] = cache[u] \/ cache'[u] = Absent
  BY <1>0, <1>3 DEF ExpireProfile
<1>4. ASSUME NEW r \in Requests, Look(r) \/ CreateUser(r) \/ linkAuthAccount(r) \/ RenameUser(r)
      PROVE  cache' = cache
  BY <1>4 DEF Look, Register, Login, FindByEmail, generateUniqueUsername, Update, QueryProfile,
       NoWrite, CreateUser, linkAuthAccount, RenameUser
<1>5. ASSUME ServerCrash PROVE cache'[u] = Absent
  BY <1>5 DEF ServerCrash
<1> QED BY <1>1, <1>2, <1>3, <1>4, <1>5 DEF Next, Step, Look

LEMMA ClearsClear ==
    ASSUME LoginInv, Next, NEW q \in Requests, req[q].op = "clear"
    PROVE  req'[q] = req[q] \/ cache'[req[q].user] = Absent
<1>0. /\ req \in [Requests -> Request] /\ cache \in [Users -> Profile \cup {Absent}]
      /\ req[q].user \in Users
  BY DEF LoginInv, TypeOK, LoginsAgree, LoginAgrees, Known
<1>1. ASSUME NEW r \in Requests, NEW next, Goto(r, next), r # q PROVE req'[q] = req[q]
  BY <1>0, <1>1 DEF Goto
<1>2. ASSUME NEW r \in Requests, ClearProfile(r)
      PROVE  req'[q] = req[q] \/ cache'[req[q].user] = Absent
  <2>1. CASE r = q
    BY <1>0, <1>2, <2>1 DEF ClearProfile
  <2>2. CASE r # q
    BY <1>1, <1>2, <2>2 DEF ClearProfile, Finish
  <2> QED BY <2>1, <2>2
<1>3. ASSUME NEW r \in Requests, Look(r) PROVE req'[q] = req[q]
  BY <1>0, <1>3 DEF Look, Register, Login, FindByEmail, generateUniqueUsername, Update,
       QueryProfile, Goto
<1>4. ASSUME NEW r \in Requests, CreateUser(r) \/ linkAuthAccount(r) \/ RenameUser(r) \/ StoreProfile(r)
      PROVE  req'[q] = req[q]
  <2>1. r # q
    BY <1>4 DEF CreateUser, linkAuthAccount, RenameUser, StoreProfile
  <2> QED BY <1>1, <1>4, <2>1 DEF CreateUser, linkAuthAccount, RenameUser, StoreProfile, Finish
<1>5. ASSUME \E v \in Users : ExpireProfile(v) PROVE req'[q] = req[q]
  BY <1>5 DEF ExpireProfile
<1>6. ASSUME ServerCrash PROVE cache'[req[q].user] = Absent
  BY <1>0, <1>6 DEF ServerCrash
<1> QED BY <1>2, <1>3, <1>4, <1>5, <1>6 DEF Next, Step, Look

LEMMA QueriesStart ==
    ASSUME LoginInv, Next, NEW q \in Requests, req'[q].op = "fill"
    PROVE  \/ req'[q] = req[q]
           \/ UNCHANGED <<user, linked>> /\ req'[q].seen = ProfileOf(req'[q].user)
<1>0. req \in [Requests -> Request]
  BY DEF LoginInv, TypeOK
<1>1. ASSUME NEW r \in Requests, NEW next, Goto(r, next), next.op # "fill" PROVE req'[q] = req[q]
  BY <1>0, <1>1 DEF Goto
<1>2. ASSUME NEW r \in Requests, NEW u \in Users, QueryProfile(r, u)
      PROVE  \/ req'[q] = req[q]
             \/ UNCHANGED <<user, linked>> /\ req'[q].seen = ProfileOf(req'[q].user)
  <2>1. UNCHANGED <<user, linked>> /\ Goto(r, Doing("fill", Absent, Absent, u, Absent, ProfileOf(u)))
    BY <1>2 DEF QueryProfile, NoWrite
  <2>2. CASE q # r
    BY <1>0, <2>1, <2>2 DEF Goto
  <2>3. CASE q = r
    BY <1>0, <2>1, <2>3 DEF Goto, Doing
  <2> QED BY <2>2, <2>3
<1>3. ASSUME NEW r \in Requests, NEW e \in Emails, Register(r, e) PROVE req'[q] = req[q]
  BY <1>1, <1>3 DEF Register, Doing
<1>4. ASSUME NEW r \in Requests, NEW e \in Emails, NEW i \in Identities, Login(r, i, e)
      PROVE  req'[q] = req[q]
  BY <1>1, <1>4 DEF Login, Doing
<1>5. ASSUME NEW r \in Requests, FindByEmail(r) PROVE req'[q] = req[q]
  BY <1>1, <1>5 DEF FindByEmail, Doing
<1>6. ASSUME NEW r \in Requests, NEW n \in Names,
             generateUniqueUsername(r, n) \/ \E u \in Users : Update(r, u, n)
      PROVE  req'[q] = req[q]
  BY <1>1, <1>6 DEF generateUniqueUsername, Update, Doing
<1>7. ASSUME NEW r \in Requests,
             CreateUser(r) \/ linkAuthAccount(r) \/ RenameUser(r) \/ ClearProfile(r) \/ StoreProfile(r)
      PROVE  req'[q] = req[q]
  BY <1>1, <1>7 DEF CreateUser, linkAuthAccount, RenameUser, ClearProfile, StoreProfile,
       Finish, Idle, Doing
<1>8. ASSUME \E v \in Users : ExpireProfile(v) PROVE req'[q] = req[q]
  BY <1>8 DEF ExpireProfile
<1>9. ~ServerCrash
  BY DEF ServerCrash, Idle, Doing
<1> QED BY <1>2, <1>3, <1>4, <1>5, <1>6, <1>7, <1>8, <1>9 DEF Next, Step

LEMMA ProfilesKeepCurrent ==
    ASSUME ProfileInv, Next, LoginInv'
    PROVE  ProfileInv'
<1>0. /\ LoginInv /\ CachedKnown /\ QueriesCurrent /\ ProfileIsCurrent
      /\ UsersKept /\ LoginsAgree /\ Known \subseteq Users
      /\ req \in [Requests -> Request]
  BY NothingLost DEF ProfileInv, LoginInv, TypeOK, Known
<1>1. CachedKnown'
  <2>1. ASSUME NEW u \in Users, cache'[u] # Absent PROVE u \in Known
    <3>1. ASSUME NEW r \in Requests, req[r].op = "fill", req[r].user = u PROVE u \in Known
      BY <1>0, <3>1 DEF LoginsAgree, LoginAgrees
    <3> QED BY <1>0, <2>1, <3>1, CacheStep DEF CachedKnown
  <2> QED BY <1>0, <2>1 DEF CachedKnown, UsersKept
<1>2. QueriesCurrent'
  <2>1. ASSUME NEW q \in Requests, req'[q].op = "fill"
        PROVE  (req[q].user \in raced \/ req[q].seen = ProfileOf(req[q].user))'
    <3>1. CASE UNCHANGED <<user, linked>> /\ req'[q].seen = ProfileOf(req'[q].user)
      BY <3>1 DEF ProfileOf
    <3>2. CASE req'[q] = req[q]
      <4> DEFINE u == req[q].user
      <4>1. u \in Known /\ (u \in raced \/ req[q].seen = ProfileOf(u))
        BY <1>0, <2>1, <3>2 DEF LoginsAgree, LoginAgrees, QueriesCurrent
      <4>2. ProfileStep(u) /\ raced \subseteq raced'
        BY <1>0, <4>1, ProfilesStep
      <4>3. PICK v \in Known : v = u
        BY <4>1
      <4>4. u \in raced' \/ ProfileOf(v)' = ProfileOf(v)
        BY <2>1, <3>2, <4>2, <4>3 DEF ProfileStep
      <4>5. u \in raced' \/ req[q].seen = ProfileOf(v)'
        BY <4>1, <4>2, <4>3, <4>4
      <4> QED BY <3>2, <4>3, <4>5 DEF ProfileOf
    <3> QED BY <1>0, <2>1, <3>1, <3>2, QueriesStart
  <2> QED BY <2>1 DEF QueriesCurrent
<1>3. ProfileIsCurrent'
  <2>1. ASSUME NEW u \in Users, cache'[u] # Absent, u \notin raced'
        PROVE  \/ cache'[u] = ProfileOf(u)'
               \/ \E r \in Requests : req'[r].op = "clear" /\ req'[r].user = u
    <3>1. CASE cache'[u] = cache[u]
      <4>1. u \in Known
        BY <1>0, <2>1, <3>1 DEF CachedKnown
      <4>2. ProfileStep(u) /\ u \notin raced
        BY <1>0, <2>1, <4>1, ProfilesStep
      <4>3. CASE \E r \in Requests : req[r].op = "clear" /\ req[r].user = u
        BY <1>0, <2>1, <4>3, ClearsClear
      <4>4. CASE cache[u] = ProfileOf(u)
        BY <3>1, <4>2, <4>4 DEF ProfileStep
      <4> QED BY <1>0, <2>1, <3>1, <4>2, <4>3, <4>4 DEF ProfileIsCurrent
    <3>2. CASE /\ UNCHANGED <<user, linked, raced>>
               /\ \E r \in Requests :
                    req[r].op = "fill" /\ req[r].user = u /\ cache'[u] = req[r].seen
      BY <1>0, <2>1, <3>2 DEF QueriesCurrent, ProfileOf
    <3> QED BY <1>0, <2>1, <3>1, <3>2, CacheStep
  <2> QED BY <2>1 DEF ProfileIsCurrent
<1> QED BY <1>1, <1>2, <1>3 DEF ProfileInv
-----------------------------------------------------------------------------
(***************************************************************************)
(* The theorem on profiles.                                                *)
(***************************************************************************)

LEMMA ProfileInvInit == Init => ProfileInv
<1> SUFFICES ASSUME Init PROVE ProfileInv
  OBVIOUS
<1>1. CachedKnown /\ QueriesCurrent /\ ProfileIsCurrent
  BY DEF Init, CachedKnown, QueriesCurrent, ProfileIsCurrent, Idle, Doing
<1> QED BY <1>1, LoginInvInit DEF ProfileInv

LEMMA ProfileInvNext == ProfileInv /\ [Next]_vars => ProfileInv'
<1>1. ASSUME ProfileInv, Next PROVE ProfileInv'
  BY <1>1, LoginInvNext, ProfilesKeepCurrent DEF ProfileInv
<1>2. ASSUME ProfileInv, UNCHANGED vars PROVE ProfileInv'
  <2>1. LoginInv'
    BY <1>2, LoginInvStutters DEF ProfileInv
  <2>2. CachedKnown' /\ QueriesCurrent' /\ ProfileIsCurrent'
    BY <1>2 DEF ProfileInv, CachedKnown, QueriesCurrent, ProfileIsCurrent, ProfileOf, Known, vars
  <2> QED BY <2>1, <2>2 DEF ProfileInv
<1> QED BY <1>1, <1>2

\* The cached profile is the row's and its links', once the request that wrote
\* them has invalidated it, for every order of writes, clears, queries and
\* stores in which no row changed under a query in flight.
THEOREM CachedProfilesAreCurrent == Spec => []ProfileIsCurrent
<1>1. ProfileInv => ProfileIsCurrent
  BY DEF ProfileInv
<1> QED BY <1>1, ProfileInvInit, ProfileInvNext, PTL DEF Spec
-----------------------------------------------------------------------------
(***************************************************************************)
(* The unique indexes, for requests that no other overlaps.                *)
(***************************************************************************)

LEMMA GotoMoves ==
    ASSUME TypeOK, NEW r \in Requests, NEW next, Goto(r, next)
    PROVE  req'[r] = next /\ \A q \in Requests \ {r} : req'[q] = req[q]
  BY DEF TypeOK, Goto

\* What a look finds, or was not to find, the request may go by.
LEMMA LooksHold ==
    ASSUME TypeOK, NEW r \in Requests, ~InFlight(r) \/ LookupsHold(r), Look(r)
    PROVE  LookupsHold(r)'
<1>1. NoWrite
  BY DEF Look, Register, Login, FindByEmail, generateUniqueUsername, Update, QueryProfile
<1>2. /\ \A e : WithEmail(e)' = WithEmail(e)
      /\ \A n : WithName(n)' = WithName(n)
  BY <1>1 DEF NoWrite, WithEmail, WithName, Known
<1>3. ASSUME NEW next, Goto(r, next),
             next.op \in {"name", "create"} => WithEmail(next.email) = {},
             next.op \in {"email", "name", "create", "link"} /\ next.who # Absent =>
               linked[next.who] = Absent,
             next.op = "create" => WithName(next.name) = {},
             next.op = "rename" => WithName(next.name) \subseteq {next.user}
      PROVE  LookupsHold(r)'
  BY <1>1, <1>2, <1>3, GotoMoves DEF LookupsHold, NoWrite
<1>4. CASE UNCHANGED req /\ req[r].op = "idle"
  BY <1>4 DEF LookupsHold
<1>5. CASE \E e \in Emails : Register(r, e)
  BY <1>3, <1>5 DEF Register, Doing
<1>6. CASE \E e \in Emails, i \in Identities : Login(r, i, e)
  BY <1>3, <1>4, <1>6 DEF Login, Doing
<1>7. CASE FindByEmail(r)
  <2>1. LookupsHold(r) /\ req[r].op = "email"
    BY <1>7 DEF FindByEmail, InFlight
  <2> QED BY <1>3, <1>7, <2>1 DEF FindByEmail, Doing, LookupsHold
<1>8. CASE \E n \in Names : generateUniqueUsername(r, n)
  <2>1. LookupsHold(r) /\ req[r].op = "name"
    BY <1>8 DEF generateUniqueUsername, InFlight
  <2> QED BY <1>3, <1>8, <2>1 DEF generateUniqueUsername, Doing, LookupsHold
<1>9. CASE \E n \in Names, u \in Users : Update(r, u, n)
  BY <1>3, <1>9 DEF Update, Doing
<1>10. CASE \E u \in Users : QueryProfile(r, u)
  BY <1>3, <1>10 DEF QueryProfile, Doing
<1> QED BY <1>5, <1>6, <1>7, <1>8, <1>9, <1>10 DEF Look

\* A request that wrote has nothing more to look up.
LEMMA WritersDone ==
    ASSUME TypeOK, NEW r \in Requests,
           CreateUser(r) \/ linkAuthAccount(r) \/ RenameUser(r) \/ ClearProfile(r) \/ StoreProfile(r)
    PROVE  req'[r].op \in {"idle", "clear"}
  BY GotoMoves
     DEF CreateUser, linkAuthAccount, RenameUser, ClearProfile, StoreProfile, Finish, Idle, Doing

LEMMA OnlyItMoves ==
    ASSUME TypeOK, NEW r \in Requests, Step(r), NEW q \in Requests \ {r}
    PROVE  req'[q] = req[q]
<1>1. (\E next : Goto(r, next)) \/ req' = req
  BY DEF Step, Register, Login, FindByEmail, generateUniqueUsername, Update, CreateUser,
         linkAuthAccount, RenameUser, ClearProfile, QueryProfile, StoreProfile, Finish
<1> QED BY <1>1, GotoMoves

LEMMA ChecksNext == ChecksInv /\ [Next]_vars => ChecksInv'
<1> SUFFICES ASSUME ChecksInv, [Next]_vars PROVE ChecksInv'
  OBVIOUS
<1>1. LoginInv' /\ TypeOK
  BY LoginInvNext DEF ChecksInv, LoginInv
<1>2. ASSUME NEW r \in Requests, r \in alone'
      PROVE  LookupsHold(r)' /\ \A q \in Requests \ {r} : ~InFlight(q)'
  <2>1. CASE UNCHANGED vars
    <3>1. LookupsHold(r) /\ \A q \in Requests \ {r} : ~InFlight(q)
      BY <1>2, <2>1 DEF ChecksInv, vars
    <3> QED BY <2>1, <3>1 DEF vars, LookupsHold, InFlight, WithEmail, WithName, Known
  <2>2. CASE Next
    <3>1. /\ ToWrite(r)' /\ (r \in alone \/ ~InFlight(r))
          /\ \A q \in Requests \ {r} : ~InFlight(q)'
      BY <1>2, <2>2 DEF Next, AloneSoFar
    <3>2. r \in alone => LookupsHold(r) /\ \A q \in Requests \ {r} : ~InFlight(q)
      BY DEF ChecksInv
    <3>3. ASSUME Step(r) PROVE LookupsHold(r)'
      <4>1. CASE Look(r)
        BY <1>1, <3>1, <3>2, <4>1, LooksHold
      <4>2. CASE ~Look(r)
        <5>1. req'[r].op \in {"idle", "clear"}
          BY <1>1, <3>3, <4>2, WritersDone DEF Step, Look
        <5> QED BY <5>1 DEF LookupsHold
      <4> QED BY <4>1, <4>2
    <3>4. ASSUME NEW p \in Requests \ {r}, Step(p) PROVE LookupsHold(r)'
      <4>1. req'[r] = req[r]
        BY <1>1, <3>4, OnlyItMoves
      <4>2. LookupsHold(r) /\ ~InFlight(p) /\ ~InFlight(p)'
        BY <3>1, <3>2, <4>1 DEF ToWrite, InFlight
      <4>3. Look(p)
        BY <3>4, <4>2 DEF Step, Look, InFlight, CreateUser, linkAuthAccount, RenameUser,
                          ClearProfile, StoreProfile
      <4>4. UNCHANGED <<user, linked>>
        BY <4>3 DEF Look, Register, Login, FindByEmail, generateUniqueUsername, Update,
                    QueryProfile, NoWrite
      <4> QED BY <4>1, <4>2, <4>4 DEF LookupsHold, WithEmail, WithName, Known
    <3>5. ASSUME NEW u \in Users, ExpireProfile(u) PROVE LookupsHold(r)'
      <4>1. LookupsHold(r) /\ UNCHANGED <<user, linked, req>>
        BY <3>1, <3>2, <3>5 DEF ExpireProfile, ToWrite, InFlight
      <4> QED BY <4>1 DEF LookupsHold, WithEmail, WithName, Known
    <3>6. ASSUME ServerCrash PROVE LookupsHold(r)'
      BY <3>6 DEF ServerCrash, LookupsHold, Idle, Doing
    <3> QED BY <2>2, <3>1, <3>3, <3>4, <3>5, <3>6 DEF Next
  <2> QED BY <2>1, <2>2
<1>3. alone' \subseteq Requests
  BY <1>1 DEF LoginInv, TypeOK
<1> QED BY <1>1, <1>2, <1>3 DEF ChecksInv

\* A registration, login or change of a username that no other request overlaps does
\* not fail in the database at what its own checks looked for.
THEOREM IndexesAreNotNeeded == Spec => []ChecksSuffice
<1>1. Init => ChecksInv
  BY LoginInvInit DEF Init, ChecksInv
<1>2. ChecksInv => ChecksSuffice
  <2> SUFFICES ASSUME ChecksInv, NEW r \in alone PROVE
        /\ req[r].op = "create" => RoomFor(req[r])
        /\ req[r].op = "link" => linked[req[r].who] = Absent
        /\ req[r].op = "rename" => WithName(req[r].name) \subseteq {req[r].user}
    BY DEF ChecksSuffice
  <2>1. LookupsHold(r) /\ r \in Requests /\ LoginAgrees(r)
    BY DEF ChecksInv, LoginInv, LoginsAgree, TypeOK
  <2>2. req[r].op = "link" => req[r].who # Absent
    BY <2>1, AccountsAssumption DEF LoginAgrees
  <2> QED BY <2>1, <2>2 DEF LookupsHold, RoomFor
<1> QED BY <1>1, <1>2, ChecksNext, PTL DEF Spec
=============================================================================
