--------------------------- MODULE RefreshTokens ---------------------------
(***************************************************************************)
(* The refresh tokens of one user (auth.service, auth.repository).         *)
(*                                                                         *)
(* A refresh deletes the row of the token it was given and then inserts    *)
(* the row of a new one; logout, and a refresh that finds its row deleted  *)
(* under it, delete every row of the user.  Each statement commits on its  *)
(* own.  A session is the chain of tokens that starts with a login.        *)
(***************************************************************************)
EXTENDS Integers, FiniteSets

CONSTANTS Tokens,         \* hashes of random tokens: each is drawn once
          Requests,       \* requests the server has in flight
          Absent          \* no token

ASSUME TokensAssumption == Absent \notin Tokens

VARIABLES row,            \* refresh_tokens: not drawn, stored, past expiresAt, deleted
          session,        \* session[t]: the login t goes back to, as its first token
          req,            \* requests in flight
          ended           \* by session, what became of it when the program last said
                          \* that all sessions are revoked (for the properties)

vars == <<row, session, req, ended>>

Stored == {"live", "expired"}

\* A request holds the token it was given and the session it will extend.
Request == [op : {"idle", "revoke", "revoke_all", "create"},
            token : Tokens \cup {Absent}, session : Tokens \cup {Absent}]

Idle == [op |-> "idle", token |-> Absent, session |-> Absent]

TypeOK ==
    /\ row \in [Tokens -> {"none", "live", "expired", "gone"}]
    /\ session \in [Tokens -> Tokens \cup {Absent}]
    /\ req \in [Requests -> Request]
    /\ ended \in [Tokens -> {"no", "missed", "revoked"}]

Init ==
    /\ row = [t \in Tokens |-> "none"]
    /\ session = [t \in Tokens |-> Absent]
    /\ req = [r \in Requests |-> Idle]
    /\ ended = [t \in Tokens |-> "no"]
-----------------------------------------------------------------------------
Sessions == {session[t] : t \in Tokens} \ {Absent}

\* A refresh deleted the token of session s and has not inserted the next one.
MidRotation(s) == \E r \in Requests : req[r].op = "create" /\ req[r].session = s

MarkEnded ==
    ended' = [s \in Tokens |-> IF s \notin Sessions THEN ended[s]
                               ELSE IF MidRotation(s) THEN "missed" ELSE "revoked"]

\* Slip: deletes the tokens logins gave and not those refreshes gave.
revokeAllUserTokens_FirstOnly ==
    /\ row' = [t \in Tokens |-> IF row[t] = "live" /\ session[t] = t THEN "gone" ELSE row[t]]
    /\ MarkEnded
    /\ UNCHANGED session

\* deleteMany by user: every row there is, and no row that is still to come.
revokeAllUserTokens ==
    /\ row' = [t \in Tokens |-> IF row[t] \in Stored THEN "gone" ELSE row[t]]
    /\ MarkEnded
    /\ UNCHANGED session

\* A login (local, Google, Mezon or register) passed: its tokens are next.
Login(r) ==
    /\ req[r].op = "idle"
    /\ req' = [req EXCEPT ![r] = [op |-> "create", token |-> Absent, session |-> Absent]]
    /\ UNCHANGED <<row, session, ended>>

\* refreshTokens reads the row.  A row that is missing, as that of a token used
\* before, or past its expiresAt refuses the request and changes nothing.
RefreshFind(r, t) ==
    /\ req[r].op = "idle"
    /\ row[t] = "live"
    /\ req' = [req EXCEPT ![r] = [op |-> "revoke", token |-> t, session |-> session[t]]]
    /\ UNCHANGED <<row, session, ended>>

\* Slip: the number of rows deleted is not looked at.
RefreshRevoke_NoCount(r) ==
    /\ req[r].op = "revoke"
    /\ row' = [row EXCEPT ![req[r].token] = "gone"]
    /\ req' = [req EXCEPT ![r] = [op |-> "create", token |-> Absent, session |-> req[r].session]]
    /\ UNCHANGED <<session, ended>>

\* revokeRefreshToken: deleteMany, whose count says whether this request was the
\* one that deleted the row.
RefreshRevoke(r) ==
    /\ req[r].op = "revoke"
    /\ \/ /\ row[req[r].token] \in Stored
          /\ row' = [row EXCEPT ![req[r].token] = "gone"]
          /\ req' = [req EXCEPT ![r] = [op |-> "create", token |-> Absent,
                                        session |-> req[r].session]]
       \/ /\ row[req[r].token] \notin Stored
          /\ req' = [req EXCEPT ![r] = [op |-> "revoke_all", token |-> Absent,
                                        session |-> Absent]]
          /\ UNCHANGED row
    /\ UNCHANGED <<session, ended>>

\* 'Token reuse detected. All sessions revoked for security.'
RefreshRevokeAll(r) ==
    /\ req[r].op = "revoke_all"
    /\ revokeAllUserTokens
    /\ req' = [req EXCEPT ![r] = Idle]

\* Slip: the insert is sent again although its first answer was only late.
CreateToken_Twice(r, t) ==
    /\ req[r].op = "create"
    /\ row[t] = "none"
    /\ row' = [row EXCEPT ![t] = "live"]
    /\ session' = [session EXCEPT ![t] = IF req[r].session = Absent THEN t
                                         ELSE req[r].session]
    /\ \/ req' = [req EXCEPT ![r] = Idle]
       \/ UNCHANGED req
    /\ UNCHANGED ended

\* The end of generateTokens.  The first token of a login names the session.
CreateToken(r, t) ==
    /\ req[r].op = "create"
    /\ row[t] = "none"
    /\ row' = [row EXCEPT ![t] = "live"]
    /\ session' = [session EXCEPT ![t] = IF req[r].session = Absent THEN t
                                         ELSE req[r].session]
    /\ req' = [req EXCEPT ![r] = Idle]
    /\ UNCHANGED ended

\* One statement; the request is not in flight before or after it.
Logout(r) ==
    /\ req[r].op = "idle"
    /\ revokeAllUserTokens
    /\ UNCHANGED req

\* expiresAt passes.  Nothing calls deleteExpiredTokens: the row stays.
Expire(t) ==
    /\ row[t] = "live"
    /\ row' = [row EXCEPT ![t] = "expired"]
    /\ UNCHANGED <<session, req, ended>>

\* The process stops between two statements of its requests.
ServerCrash ==
    /\ \E r \in Requests : req[r].op # "idle"
    /\ req' = [r \in Requests |-> Idle]
    /\ UNCHANGED <<row, session, ended>>

Step(r) ==
    \/ Login(r)
    \/ \E t \in Tokens : RefreshFind(r, t) \/ CreateToken(r, t)
    \/ RefreshRevoke(r)
    \/ RefreshRevokeAll(r)
    \/ Logout(r)

Next ==
    \/ \E r \in Requests : Step(r)
    \/ \E t \in Tokens : Expire(t)
    \/ ServerCrash

Spec == Init /\ [][Next]_vars
-----------------------------------------------------------------------------
\* A login is one session: however often and from however many requests at once
\* its tokens are refreshed, at most one of them is stored, so that the token of
\* a refresh that lost the race opens no second session.
OneSessionPerLogin ==
    \A s, t \in Tokens :
      row[s] \in Stored /\ row[t] \in Stored /\ session[s] = session[t] => s = t

\* A session that was not in the middle of a rotation when a logout, or the
\* detection of a reused token, deleted the rows of the user never has a stored
\* token again: no refresh in flight then, with that token or an older one of the
\* session, brings it back.  (One in the middle of a rotation comes back.)
RevokedForGood ==
    \A t \in Tokens : row[t] \in Stored => ended[session[t]] # "revoked"

(***************************************************************************)
(* The sessions a client sees, and the specification they implement.       *)
(***************************************************************************)
StoredOf(s) == {t \in Tokens : row[t] \in Stored /\ session[t] = s}

TokenOf(s) == IF StoredOf(s) = {} THEN Absent ELSE CHOOSE t \in StoredOf(s) : TRUE

Promise == INSTANCE UserSessions
             WITH Tokens <- Tokens, Nothing <- Absent,
                  drawn <- {t \in Tokens : row[t] # "none"},
                  token <- [s \in Tokens |-> TokenOf(s)],
                  renewing <- {s \in Tokens : MidRotation(s)}

\* Whatever refreshes, logouts and crashes overlap, each step is one of UserSessions
\* or changes nothing there: a token is turned in once however many requests were
\* given it, renewed once, and a session that ended is not opened again.
SessionsRefined == Promise!SessionsSpec

(***************************************************************************)
(* The inductive invariant behind OneSessionPerLogin.                      *)
(***************************************************************************)

\* A drawn token belongs to a session, and the session to a first token.
SessionsNamed ==
    \A t \in Tokens :
      IF row[t] = "none" THEN session[t] = Absent
      ELSE session[t] \in Tokens /\ session[session[t]] = session[t]

\* A request that deleted the stored token of a session is the only one about to
\* extend it, and the session has no other stored token.
ExtendedOnce ==
    \A r \in Requests :
      /\ req[r].op = "revoke" =>
           /\ req[r].token \in Tokens /\ row[req[r].token] # "none"
           /\ req[r].session = session[req[r].token]
      /\ req[r].op = "create" /\ req[r].session # Absent =>
           /\ session[req[r].session] = req[r].session
           /\ \A t \in Tokens : row[t] \in Stored => session[t] # req[r].session
           /\ \A q \in Requests :
                req[q].op = "create" /\ req[q].session = req[r].session => q = r

SessionInv == TypeOK /\ SessionsNamed /\ ExtendedOnce /\ OneSessionPerLogin

\* The inductive invariant behind RevokedForGood: a revoked session has nobody to
\* extend it, and only sessions that began are revoked.
NobodyExtendsRevoked ==
    /\ \A s \in Tokens : ended[s] = "revoked" => ~MidRotation(s)
    /\ \A s \in Tokens : ended[s] # "no" => row[s] # "none"

RevokedInv == NobodyExtendsRevoked /\ RevokedForGood
=============================================================================
