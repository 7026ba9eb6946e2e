------------------------------ MODULE Accounts ------------------------------
(***************************************************************************)
(* Users, the identities of login providers linked to them, and the cache  *)
(* of profiles (auth.service register, validateGoogleUser and              *)
(* validateMezonUser, users.service, users.repository).                    *)
(*                                                                         *)
(* A login looks for the identity, then for the email, then for a free     *)
(* username, and then creates or links.  Every look is a query of its own; *)
(* what stops a request whose answer has become wrong are the unique       *)
(* indexes: email, username, (provider, providerUserId) and                *)
(* (userId, provider).  Google and Mezon go the same way.  The email is    *)
(* what the provider says at this login; without one it is made from the   *)
(* identity.  Users are never deleted by the program.                      *)
(***************************************************************************)
EXTENDS Integers, FiniteSets

CONSTANTS Users,          \* identifiers of users rows
          Emails, Names,  \* Names stands for the usernames with and without random suffix
          Identities,     \* (provider, providerUserId)
          Provider,       \* the provider of an identity
          Requests,       \* requests the server has in flight
          Absent          \* no row, nobody, nothing cached

Row == [email : Emails, name : Names]

ASSUME AccountsAssumption ==
    /\ Absent \notin Users \cup Emails \cup Names \cup Identities
    /\ Absent \notin Row
    /\ Identities \subseteq DOMAIN Provider

VARIABLES user,           \* users: email and username
          linked,         \* user_auth_accounts of providers: the user of an identity
          cache,          \* the cached profile of a user
          req,            \* requests between two of their statements
          session,        \* logins that were answered, and with which user (for the properties)
          alone,          \* a request that is to write and was in flight alone so far (for the properties)
          raced,          \* users written while a query for their profile was in flight (for the properties)
          twoEmails       \* identities logging in under two emails at once (for the properties)

vars == <<user, linked, cache, req, session, alone, raced, twoEmails>>

Profile == [name : Names, linked : SUBSET Identities]

Request == [op : {"idle", "email", "name", "create", "link", "rename", "clear", "fill"},
            who : Identities \cup {Absent}, email : Emails \cup {Absent},
            user : Users \cup {Absent}, name : Names \cup {Absent},
            seen : Profile \cup {Absent}]

Doing(op, who, email, u, name, seen) ==
    [op |-> op, who |-> who, email |-> email, user |-> u, name |-> name, seen |-> seen]

Idle == Doing("idle", Absent, Absent, Absent, Absent, Absent)

TypeOK ==
    /\ user \in [Users -> Row \cup {Absent}]
    /\ linked \in [Identities -> Users \cup {Absent}]
    /\ cache \in [Users -> Profile \cup {Absent}]
    /\ req \in [Requests -> Request]
    /\ session \subseteq [who : Identities, user : Users]
    /\ alone \subseteq Requests
    /\ raced \subseteq Users
    /\ twoEmails \subseteq Identities

Known == {u \in Users : user[u] # Absent}

WithEmail(e) == {u \in Known : user[u].email = e}

WithName(n) == {u \in Known : user[u].name = n}

ProfileOf(u) == [name |-> user[u].name, linked |-> {i \in Identities : linked[i] = u}]

Init ==
    /\ user = [u \in Users |-> Absent]
    /\ linked = [i \in Identities |-> Absent]
    /\ cache = [u \in Users |-> Absent]
    /\ req = [r \in Requests |-> Idle]
    /\ session = {}
    /\ alone = {} /\ raced = {} /\ twoEmails = {}
-----------------------------------------------------------------------------
Goto(r, next) == req' = [req EXCEPT ![r] = next]

Finish(r) == Goto(r, Idle)

NoWrite == UNCHANGED <<user, linked, cache, raced>>

Answer(i, u) == session' = session \cup {[who |-> i, user |-> u]}

\* A row of u is written: profiles on their way to the cache are out of date.
Touched(u) ==
    raced' = IF \E q \in Requests : req[q].op = "fill" /\ req[q].user = u
             THEN raced \cup {u} ELSE raced

(***************************************************************************)
(* Registration and login.                                                 *)
(***************************************************************************)

\* register, findByEmail: an email that is taken is refused.
Register(r, e) ==
    /\ req[r].op = "idle"
    /\ WithEmail(e) = {}
    /\ Goto(r, Doing("name", Absent, e, Absent, Absent, Absent))
    /\ NoWrite /\ UNCHANGED session

\* Slip: looks for the email only.
Login_EmailOnly(r, i, e) ==
    /\ req[r].op = "idle"
    /\ Goto(r, Doing("email", i, e, Absent, Absent, Absent))
    /\ NoWrite /\ UNCHANGED session

\* findByProvider, once the provider has confirmed identity and email.
Login(r, i, e) ==
    /\ req[r].op = "idle"
    /\ \/ /\ linked[i] # Absent
          /\ Answer(i, linked[i])
          /\ UNCHANGED req
       \/ /\ linked[i] = Absent
          /\ Goto(r, Doing("email", i, e, Absent, Absent, Absent))
          /\ UNCHANGED session
    /\ NoWrite

\* findByEmail.
FindByEmail(r) ==
    /\ req[r].op = "email"
    /\ \/ \E u \in WithEmail(req[r].email) :
            Goto(r, Doing("link", req[r].who, req[r].email, u, Absent, Absent))
       \/ /\ WithEmail(req[r].email) = {}
          /\ Goto(r, Doing("name", req[r].who, req[r].email, Absent, Absent, Absent))
    /\ NoWrite /\ UNCHANGED session

\* Slip: takes the first candidate.
generateUniqueUsername_Unchecked(r, n) ==
    /\ req[r].op = "name"
    /\ Goto(r, Doing("create", req[r].who, req[r].email, Absent, n, Absent))
    /\ NoWrite /\ UNCHANGED session

\* The candidate of the loop that turned out to be free.
generateUniqueUsername(r, n) ==
    /\ req[r].op = "name"
    /\ WithName(n) = {}
    /\ Goto(r, Doing("create", req[r].who, req[r].email, Absent, n, Absent))
    /\ NoWrite /\ UNCHANGED session

\* The unique indexes have room for the rows of a new user.
RoomFor(new) ==
    /\ WithEmail(new.email) = {} /\ WithName(new.name) = {}
    /\ new.who # Absent => linked[new.who] = Absent

\* Rows of user, profile and account in one statement, or none of them.
CreateUser(r) ==
    LET new == req[r] IN
    /\ new.op = "create"
    /\ \/ /\ RoomFor(new)
          /\ \E u \in Users \ Known :
               /\ user' = [user EXCEPT ![u] = [email |-> new.email, name |-> new.name]]
               /\ linked' = [i \in Identities |-> IF i = new.who THEN u ELSE linked[i]]
               /\ IF new.who # Absent THEN Answer(new.who, u) ELSE UNCHANGED session
       \/ /\ ~RoomFor(new)
          /\ UNCHANGED <<user, linked, session>>
    /\ Finish(r)
    /\ UNCHANGED <<cache, raced>>

HasOther(u, i) ==
    \E j \in Identities \ {i} : Provider[j] = Provider[i] /\ linked[j] = u

\* linkAuthAccount: an upsert that leaves an identity alone that is linked, to
\* whomever; an insert runs into (userId, provider) when the user has another of the
\* same provider, which nothing looked for.  The user found by email is the answer.
linkAuthAccount(r) ==
    LET i == req[r].who
        u == req[r].user
    IN
    /\ req[r].op = "link"
    /\ \/ /\ linked[i] = Absent /\ ~HasOther(u, i)
          /\ linked' = [linked EXCEPT ![i] = u]
          /\ Touched(u)
          /\ Goto(r, Doing("clear", i, req[r].email, u, Absent, Absent))
       \/ /\ linked[i] # Absent
          /\ Goto(r, Doing("clear", i, req[r].email, u, Absent, Absent))
          /\ UNCHANGED <<linked, raced>>
       \/ /\ linked[i] = Absent /\ HasOther(u, i)
          /\ Finish(r)
          /\ UNCHANGED <<linked, raced>>
    /\ UNCHANGED <<user, cache, session>>

(***************************************************************************)
(* Profiles.                                                               *)
(***************************************************************************)

\* update: the user's own name is not looked for, another's is a conflict.  The
\* columns an update may write beside it are not modelled.
Update(r, u, n) ==
    /\ req[r].op = "idle"
    /\ u \in Known
    /\ WithName(n) \subseteq {u}
    /\ Goto(r, Doing("rename", Absent, Absent, u, n, Absent))
    /\ NoWrite /\ UNCHANGED session

RenameUser(r) ==
    LET u == req[r].user IN
    /\ req[r].op = "rename"
    /\ \/ /\ WithName(req[r].name) \subseteq {u}
          /\ user' = [user EXCEPT ![u] = [email |-> user[u].email, name |-> req[r].name]]
          /\ Touched(u)
          /\ Goto(r, Doing("clear", Absent, Absent, u, Absent, Absent))
       \/ /\ ~(WithName(req[r].name) \subseteq {u})
          /\ Finish(r)
          /\ UNCHANGED <<user, raced>>
    /\ UNCHANGED <<linked, cache, session>>

\* Slip: linking does not invalidate.
ClearProfile_NotOnLink(r) ==
    /\ req[r].op = "clear"
    /\ cache' = IF req[r].who = Absent THEN [cache EXCEPT ![req[r].user] = Absent] ELSE cache
    /\ IF req[r].who # Absent THEN Answer(req[r].who, req[r].user) ELSE UNCHANGED session
    /\ Finish(r)
    /\ UNCHANGED <<user, linked, raced>>

\* cacheService.del, and then the answer.
ClearProfile(r) ==
    /\ req[r].op = "clear"
    /\ cache' = [cache EXCEPT ![req[r].user] = Absent]
    /\ IF req[r].who # Absent THEN Answer(req[r].who, req[r].user) ELSE UNCHANGED session
    /\ Finish(r)
    /\ UNCHANGED <<user, linked, raced>>

\* getProfile with nothing cached: getOrSet queries, and stores what it got.
QueryProfile(r, u) ==
    /\ req[r].op = "idle"
    /\ u \in Known
    /\ cache[u] = Absent
    /\ Goto(r, Doing("fill", Absent, Absent, u, Absent, ProfileOf(u)))
    /\ NoWrite /\ UNCHANGED session

StoreProfile(r) ==
    /\ req[r].op = "fill"
    /\ cache' = [cache EXCEPT ![req[r].user] = req[r].seen]
    /\ Finish(r)
    /\ UNCHANGED <<user, linked, session, raced>>

\* Five minutes pass.
ExpireProfile(u) ==
    /\ cache[u] # Absent
    /\ cache' = [cache EXCEPT ![u] = Absent]
    /\ UNCHANGED <<user, linked, req, session, raced>>

\* The process stops; the cache is in its memory.
ServerCrash ==
    /\ req # [r \in Requests |-> Idle]
    /\ req' = [r \in Requests |-> Idle]
    /\ cache' = [u \in Users |-> Absent]
    /\ UNCHANGED <<user, linked, session, raced>>
-----------------------------------------------------------------------------
Step(r) ==
    \/ \E e \in Emails :
         Register(r, e) \/ \E i \in Identities : Login(r, i, e)
    \/ FindByEmail(r)
    \/ \E n \in Names :
         generateUniqueUsername(r, n) \/ \E u \in Users : Update(r, u, n)
    \/ CreateUser(r)
    \/ linkAuthAccount(r)
    \/ RenameUser(r)
    \/ ClearProfile(r)
    \/ \E u \in Users : QueryProfile(r, u)
    \/ StoreProfile(r)

InFlight(r) == req[r].op # "idle"

ToWrite(r) == req[r].op \in {"email", "name", "create", "link", "rename"}

\* Who was in flight alone, or starts alone, and still is.
AloneSoFar ==
    {r \in Requests : /\ ToWrite(r)' /\ (r \in alone \/ ~InFlight(r))
                     /\ \A q \in Requests \ {r} : ~InFlight(q)'}

\* Identities that log in twice at once, under different emails.
UnderTwoEmails ==
    {i \in Identities : \E r1, r2 \in Requests :
       req[r1].who = i /\ req[r2].who = i /\ req[r1].email # req[r2].email}

Next ==
    /\ \/ \E r \in Requests : Step(r)
       \/ \E u \in Users : ExpireProfile(u)
       \/ ServerCrash
    /\ alone' = AloneSoFar
    /\ twoEmails' = twoEmails \cup UnderTwoEmails'

Spec == Init /\ [][Next]_vars
-----------------------------------------------------------------------------
(***************************************************************************)
(* Properties.                                                             *)
(***************************************************************************)

\* A login is answered with the user its identity is linked to, now and ever
\* after: whatever the provider says about emails, and however many logins and
\* registrations race, unless the identity itself logs in under two emails at
\* once (then the upsert finds the link of the other login and is silent).
LoginIsLinked ==
    \A s \in session : s.who \notin twoEmails => linked[s.who] = s.user

\* The unique indexes on emails, usernames and identities are the last line only: a
\* registration, a first login or an update of the username that passed its own
\* checks finds room in them, unless another request overlapped it.  Of the index on
\* (userId, provider) nothing is said: no check looks at it, and it alone refuses a
\* second identity of a provider under the email of a user.
ChecksSuffice ==
    \A r \in alone :
      /\ req[r].op = "create" => RoomFor(req[r])
      /\ req[r].op = "link" => linked[req[r].who] = Absent
      /\ req[r].op = "rename" => WithName(req[r].name) \subseteq {req[r].user}

\* The cached profile is the user's, down to the linked identities, as soon as
\* the request that changed it has invalidated it; a query that was in flight
\* while the rows changed may store what is gone.
ProfileIsCurrent ==
    \A u \in Users :
      \/ cache[u] = Absent
      \/ u \in raced
      \/ cache[u] = ProfileOf(u)
      \/ \E r \in Requests : req[r].op = "clear" /\ req[r].user = u

\* The inductive invariant behind LoginIsLinked: once an identity is linked,
\* whoever still logs in with it carries the email of the user it is linked
\* to, because they all carry the same one.
LoginAgrees(r) ==
    /\ req[r].op \in {"email", "link"} => req[r].who \in Identities
    /\ req[r].op \in {"email", "name", "create", "link"} => req[r].email \in Emails
    /\ req[r].op \in {"create", "rename"} => req[r].name \in Names
    /\ req[r].op \in {"link", "rename", "clear", "fill"} => req[r].user \in Known
    /\ req[r].op \in {"rename", "fill"} => req[r].who = Absent
    /\ req[r].op = "fill" => req[r].seen \in Profile
    /\ req[r].op = "link" => user[req[r].user].email = req[r].email
    /\ req[r].op \in {"email", "name", "create", "link"} /\ req[r].who \in Identities \ twoEmails
         => linked[req[r].who] = Absent \/ user[linked[req[r].who]].email = req[r].email
    /\ req[r].op = "clear" /\ req[r].who \in Identities \ twoEmails
         => linked[req[r].who] = req[r].user

LoginsAgree == \A r \in Requests : LoginAgrees(r)

OneUserPerEmail == \A u, v \in Known : user[u].email = user[v].email => u = v

LinksKnown == \A i \in Identities : linked[i] # Absent => linked[i] \in Known

LoginInv ==
    /\ TypeOK
    /\ OneUserPerEmail
    /\ LinksKnown
    /\ UnderTwoEmails \subseteq twoEmails
    /\ LoginsAgree
    /\ LoginIsLinked

\* The inductive invariant behind ProfileIsCurrent: what a query is about to
\* store is current unless rows changed under it.
QueriesCurrent ==
    \A r \in Requests :
      req[r].op = "fill" => req[r].user \in raced \/ req[r].seen = ProfileOf(req[r].user)

CachedKnown == \A u \in Users : cache[u] # Absent => u \in Known

ProfileInv ==
    /\ LoginInv
    /\ CachedKnown
    /\ QueriesCurrent
    /\ ProfileIsCurrent

\* The inductive invariant behind ChecksSuffice: what a request looked for is still
\* not there, as long as no other came in between.
LookupsHold(r) ==
    /\ req[r].op \in {"name", "create"} => WithEmail(req[r].email) = {}
    /\ req[r].op \in {"email", "name", "create", "link"} /\ req[r].who # Absent =>
         linked[req[r].who] = Absent
    /\ req[r].op = "create" => WithName(req[r].name) = {}
    /\ req[r].op = "rename" => WithName(req[r].name) \subseteq {req[r].user}

ChecksInv ==
    /\ LoginInv
    /\ \A r \in alone : LookupsHold(r) /\ \A q \in Requests \ {r} : ~InFlight(q)
=============================================================================
