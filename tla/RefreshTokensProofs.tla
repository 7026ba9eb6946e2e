------------------------ MODULE RefreshTokensProofs ------------------------
(***************************************************************************)
(* Proofs about RefreshTokens for every set of tokens and requests.        *)
(***************************************************************************)
EXTENDS RefreshTokens, TLAPS

LEMMA IdleIsRequest == Idle \in Request /\ Idle.op = "idle"
  BY DEF Idle, Request

LEMMA InitSession == Init => SessionInv
  BY IdleIsRequest
     DEF Init, SessionInv, TypeOK, SessionsNamed, ExtendedOnce, OneSessionPerLogin, Stored

LEMMA RevokeAllKeeps ==
  ASSUME SessionInv, NEW r \in Requests, revokeAllUserTokens,
         req' = req \/ req' = [req EXCEPT ![r] = Idle]
  PROVE  SessionInv'
  <1>1. /\ \A t \in Tokens : row'[t] = IF row[t] \in Stored THEN "gone" ELSE row[t]
        /\ UNCHANGED session
    BY DEF revokeAllUserTokens
  <1>2. TypeOK'
    BY IdleIsRequest DEF SessionInv, TypeOK, revokeAllUserTokens, MarkEnded
  <1>3. \A t \in Tokens : row'[t] \notin Stored /\ (row'[t] = "none" <=> row[t] = "none")
    BY <1>1 DEF Stored
  <1>4. SessionsNamed' /\ OneSessionPerLogin'
    BY <1>1, <1>3 DEF SessionInv, SessionsNamed, OneSessionPerLogin
  <1>5. ExtendedOnce'
    BY <1>1, <1>3, IdleIsRequest DEF SessionInv, ExtendedOnce, TypeOK
  <1> QED
    BY <1>2, <1>4, <1>5 DEF SessionInv

LEMMA StepKeeps ==
  ASSUME SessionInv, NEW r \in Requests, Step(r)
  PROVE  SessionInv'
  <1>0. SessionInv /\ TypeOK /\ SessionsNamed /\ ExtendedOnce /\ OneSessionPerLogin
    BY DEF SessionInv
  <1>1. CASE Login(r)
    <2>1. /\ req'[r].op = "create" /\ req'[r].session = Absent
          /\ \A q \in Requests \ {r} : req'[q] = req[q]
          /\ UNCHANGED <<row, session, ended>>
      BY <1>0, <1>1 DEF Login, TypeOK
    <2>2. TypeOK'
      BY <1>0, <1>1 DEF Login, TypeOK, Request
    <2> QED
      BY <1>0, <2>1, <2>2 DEF SessionInv, SessionsNamed, ExtendedOnce, OneSessionPerLogin
  <1>2. ASSUME NEW t \in Tokens, RefreshFind(r, t) PROVE SessionInv'
    <2>1. /\ req'[r].op = "revoke" /\ req'[r].token = t /\ req'[r].session = session[t]
          /\ \A q \in Requests \ {r} : req'[q] = req[q]
          /\ row[t] # "none"
          /\ UNCHANGED <<row, session, ended>>
      BY <1>0, <1>2 DEF RefreshFind, TypeOK
    <2>2. TypeOK'
      BY <1>0, <1>2 DEF RefreshFind, TypeOK, Request
    <2> QED
      BY <1>0, <2>1, <2>2 DEF SessionInv, SessionsNamed, ExtendedOnce, OneSessionPerLogin
  <1>3. ASSUME NEW t \in Tokens, CreateToken(r, t) PROVE SessionInv'
    <2> DEFINE s == IF req[r].session = Absent THEN t ELSE req[r].session
    <2>1. /\ row[t] = "none" /\ row'[t] = "live" /\ session'[t] = s
          /\ \A x \in Tokens \ {t} : row'[x] = row[x] /\ session'[x] = session[x]
          /\ req'[r].op = "idle" /\ \A q \in Requests \ {r} : req'[q] = req[q]
          /\ UNCHANGED ended
      BY <1>0, <1>3, IdleIsRequest DEF CreateToken, TypeOK
    <2>2. TypeOK'
      BY <1>0, <1>3, IdleIsRequest DEF CreateToken, TypeOK, Request
    <2>3. \/ s = t
          \/ s \in Tokens \ {t} /\ s # Absent /\ s = req[r].session /\ session[s] = s /\ row[s] # "none"
      <3>1. CASE req[r].session = Absent
        BY <3>1
      <3>2. CASE req[r].session # Absent
        <4>1. s = req[r].session /\ s \in Tokens /\ session[s] = s
          BY <1>0, <1>3, <3>2 DEF CreateToken, ExtendedOnce, TypeOK, Request
        <4>2. row[s] # "none"
          BY <4>1, <3>2, <1>0, TokensAssumption DEF SessionsNamed
        <4> QED
          BY <4>1, <4>2, <2>1, <3>2
      <3> QED
        BY <3>1, <3>2
    <2>4. \A x \in Tokens \ {t} : session[x] # t
      BY <1>0, <2>1, TokensAssumption DEF SessionsNamed
    <2>5. \A x \in Tokens \ {t} : row[x] \in Stored => session[x] # s
      BY <1>0, <1>3, <2>3, <2>4 DEF CreateToken, ExtendedOnce
    <2>6. \A q \in Requests \ {r} :
            req[q].op = "create" /\ req[q].session # Absent => req[q].session # s
      <3> SUFFICES ASSUME NEW q \in Requests \ {r}, req[q].op = "create",
                          req[q].session # Absent, req[q].session = s
                   PROVE  FALSE
        OBVIOUS
      <3>1. s # t
        BY <1>0, <2>1, TokensAssumption DEF ExtendedOnce, SessionsNamed
      <3>2. req[r].op = "create" /\ req[r].session = s /\ s # Absent
        BY <1>3, <2>3, <3>1 DEF CreateToken
      <3> QED
        BY <1>0, <3>2 DEF ExtendedOnce
    <2> HIDE DEF s
    <2>7. SessionsNamed'
      BY <1>0, <2>1, <2>3, <2>4 DEF SessionsNamed
    <2>8. OneSessionPerLogin'
      BY <1>0, <2>1, <2>5 DEF OneSessionPerLogin
    <2>9. ExtendedOnce'
      <3> SUFFICES ASSUME NEW q \in Requests \ {r}
                   PROVE  /\ req[q].op = "revoke" =>
                               /\ req[q].token \in Tokens /\ row'[req[q].token] # "none"
                               /\ req[q].session = session'[req[q].token]
                          /\ req[q].op = "create" /\ req[q].session # Absent =>
                               /\ session'[req[q].session] = req[q].session
                               /\ \A x \in Tokens : row'[x] \in Stored => session'[x] # req[q].session
                               /\ \A p \in Requests :
                                    req'[p].op = "create" /\ req'[p].session = req[q].session => p = q
        BY <2>1 DEF ExtendedOnce
      <3>1. CASE req[q].op = "revoke"
        BY <1>0, <2>1, <3>1 DEF ExtendedOnce
      <3>2. CASE req[q].op = "create" /\ req[q].session # Absent
        <4>1. req[q].session # t /\ req[q].session \in Tokens
          BY <1>0, <2>1, <3>2, TokensAssumption DEF ExtendedOnce, SessionsNamed, TypeOK, Request
        <4> QED
          BY <1>0, <2>1, <2>6, <3>2, <4>1 DEF ExtendedOnce
      <3> QED
        BY <3>1, <3>2
    <2> QED
      BY <2>2, <2>7, <2>8, <2>9 DEF SessionInv
  <1>4. CASE RefreshRevoke(r)
    <2> DEFINE t == req[r].token
               s == req[r].session
    <2>1. t \in Tokens /\ row[t] # "none" /\ s = session[t] /\ s \in Tokens /\ session[s] = s
      BY <1>0, <1>4 DEF RefreshRevoke, ExtendedOnce, SessionsNamed
    <2>2. TypeOK'
      BY <1>0, <1>4, <2>1 DEF RefreshRevoke, TypeOK, Request
    <2>3. CASE row[t] \in Stored
      <3>1. /\ row'[t] = "gone" /\ \A x \in Tokens \ {t} : row'[x] = row[x]
            /\ req'[r].op = "create" /\ req'[r].session = s
            /\ \A q \in Requests \ {r} : req'[q] = req[q]
            /\ UNCHANGED session
        BY <1>0, <1>4, <2>1, <2>3 DEF RefreshRevoke, TypeOK
      <3>2. \A q \in Requests : req[q].op = "create" /\ req[q].session # Absent => req[q].session # s
        BY <1>0, <2>1, <2>3 DEF ExtendedOnce
      <3>3. \A x \in Tokens \ {t} : row[x] \in Stored => session[x] # s
        BY <1>0, <2>1, <2>3 DEF OneSessionPerLogin
      <3>4. s # Absent
        BY <2>1, TokensAssumption
      <3> HIDE DEF t, s
      <3>5. SessionsNamed' /\ OneSessionPerLogin'
        BY <1>0, <2>1, <3>1 DEF SessionsNamed, OneSessionPerLogin, Stored
      <3>6. ExtendedOnce'
        BY <1>0, <2>1, <3>1, <3>2, <3>3, <3>4 DEF ExtendedOnce, Stored
      <3> QED
        BY <2>2, <3>5, <3>6 DEF SessionInv
    <2>4. CASE row[t] \notin Stored
      <3>1. /\ req'[r].op = "revoke_all"
            /\ \A q \in Requests \ {r} : req'[q] = req[q]
            /\ UNCHANGED <<row, session>>
        BY <1>0, <1>4, <2>4 DEF RefreshRevoke, TypeOK
      <3> QED
        BY <1>0, <2>2, <3>1 DEF SessionInv, SessionsNamed, ExtendedOnce, OneSessionPerLogin
    <2> QED
      BY <2>3, <2>4
  <1>5. CASE RefreshRevokeAll(r)
    BY <1>0, <1>5, RevokeAllKeeps DEF RefreshRevokeAll
  <1>6. CASE Logout(r)
    BY <1>0, <1>6, RevokeAllKeeps DEF Logout
  <1> QED
    BY <1>1, <1>2, <1>3, <1>4, <1>5, <1>6 DEF Step

LEMMA NextSession == SessionInv /\ [Next]_vars => SessionInv'
  <1> SUFFICES ASSUME SessionInv, [Next]_vars PROVE SessionInv'
    OBVIOUS
  <1>1. ASSUME NEW r \in Requests, Step(r) PROVE SessionInv'
    BY <1>1, StepKeeps
  <1>2. ASSUME NEW t \in Tokens, Expire(t) PROVE SessionInv'
    <2>1. /\ row[t] = "live" /\ row'[t] = "expired"
          /\ \A x \in Tokens \ {t} : row'[x] = row[x]
          /\ UNCHANGED <<session, req, ended>>
      BY <1>2 DEF Expire, SessionInv, TypeOK
    <2>2. TypeOK'
      BY <1>2 DEF Expire, SessionInv, TypeOK
    <2>3. \A x \in Tokens : (row'[x] \in Stored) = (row[x] \in Stored)
      BY <2>1 DEF Stored
    <2>4. \A x \in Tokens : (row'[x] = "none") = (row[x] = "none")
      BY <2>1 DEF Stored
    <2> QED
      BY <2>1, <2>2, <2>3, <2>4 DEF SessionInv, SessionsNamed, ExtendedOnce, OneSessionPerLogin
  <1>3. CASE ServerCrash
    BY <1>3, IdleIsRequest
       DEF ServerCrash, SessionInv, TypeOK, SessionsNamed, ExtendedOnce, OneSessionPerLogin
  <1>4. CASE UNCHANGED vars
    BY <1>4 DEF vars, SessionInv, TypeOK, SessionsNamed, ExtendedOnce, OneSessionPerLogin, Stored
  <1> QED
    BY <1>1, <1>2, <1>3, <1>4 DEF Next

\* Every reachable state of tokens, sessions and requests is well typed.
THEOREM TokensTypeCorrect == Spec => []TypeOK
  <1>1. SessionInv => TypeOK
    BY DEF SessionInv
  <1> QED
    BY <1>1, InitSession, NextSession, PTL DEF Spec

\* A login never becomes two sessions, whatever refreshes, logouts and crashes
\* overlap: the count of deleteMany lets one refresh of a token through.
THEOREM RotationKeepsOneSession == Spec => []OneSessionPerLogin
  <1>1. SessionInv => OneSessionPerLogin
    BY DEF SessionInv
  <1> QED
    BY <1>1, InitSession, NextSession, PTL DEF Spec
-----------------------------------------------------------------------------
(***************************************************************************)
(* What was revoked stays revoked.                                         *)
(***************************************************************************)

LEMMA RevokeAllRevoked ==
  ASSUME SessionInv, RevokedInv, NEW r \in Requests, revokeAllUserTokens,
         req' = req \/ req' = [req EXCEPT ![r] = Idle]
  PROVE  RevokedInv'
  <1>0. TypeOK /\ SessionsNamed /\ NobodyExtendsRevoked
    BY DEF SessionInv, RevokedInv
  <1>1. /\ \A t \in Tokens : row'[t] \notin Stored /\ (row'[t] = "none" <=> row[t] = "none")
        /\ UNCHANGED session
    BY DEF revokeAllUserTokens, Stored
  <1>2. \A s \in Tokens : ended'[s] = IF s \notin Sessions THEN ended[s]
                                      ELSE IF MidRotation(s) THEN "missed" ELSE "revoked"
    BY DEF revokeAllUserTokens, MarkEnded
  <1>3. \A s \in Tokens : MidRotation(s)' => MidRotation(s)
    BY <1>0, IdleIsRequest DEF MidRotation, TypeOK
  <1>4. \A s \in Tokens : s \in Sessions => row[s] # "none"
    BY <1>0, TokensAssumption DEF Sessions, SessionsNamed
  <1>5. NobodyExtendsRevoked'
    BY <1>0, <1>1, <1>2, <1>3, <1>4 DEF NobodyExtendsRevoked
  <1> QED
    BY <1>1, <1>5 DEF RevokedInv, RevokedForGood

LEMMA NextRevoked == SessionInv /\ RevokedInv /\ [Next]_vars => RevokedInv'
  <1> SUFFICES ASSUME SessionInv, RevokedInv, [Next]_vars PROVE RevokedInv'
    OBVIOUS
  <1>0. /\ TypeOK /\ SessionsNamed /\ ExtendedOnce
        /\ NobodyExtendsRevoked /\ RevokedForGood
    BY DEF SessionInv, RevokedInv
  <1>1. ASSUME NEW r \in Requests, Login(r) \/ \E t \in Tokens : RefreshFind(r, t)
        PROVE  RevokedInv'
    <2>1. /\ \A q \in Requests \ {r} : req'[q] = req[q]
          /\ req'[r].op = "create" => req'[r].session = Absent
          /\ UNCHANGED <<row, session, ended>>
      BY <1>0, <1>1 DEF Login, RefreshFind, TypeOK
    <2> QED
      BY <1>0, <2>1, TokensAssumption
         DEF RevokedInv, NobodyExtendsRevoked, RevokedForGood, MidRotation
  <1>2. ASSUME NEW r \in Requests, NEW t \in Tokens, CreateToken(r, t) PROVE RevokedInv'
    <2> DEFINE s == IF req[r].session = Absent THEN t ELSE req[r].session
    <2>1. /\ row[t] = "none" /\ row'[t] = "live" /\ session'[t] = s
          /\ \A x \in Tokens \ {t} : row'[x] = row[x] /\ session'[x] = session[x]
          /\ req'[r].op = "idle" /\ \A q \in Requests \ {r} : req'[q] = req[q]
          /\ UNCHANGED ended
      BY <1>0, <1>2, IdleIsRequest DEF CreateToken, TypeOK
    <2>2. ended[s] # "revoked"
      <3>1. CASE req[r].session = Absent
        BY <1>0, <2>1, <3>1 DEF NobodyExtendsRevoked
      <3>2. CASE req[r].session # Absent
        <4>1. req[r].op = "create" /\ req[r].session \in Tokens
          BY <1>0, <1>2, <3>2 DEF CreateToken, TypeOK, Request
        <4> QED
          BY <1>0, <3>2, <4>1 DEF NobodyExtendsRevoked, MidRotation
      <3> QED
        BY <3>1, <3>2
    <2> HIDE DEF s
    <2> QED
      BY <1>0, <2>1, <2>2 DEF RevokedInv, NobodyExtendsRevoked, RevokedForGood, MidRotation
  <1>3. ASSUME NEW r \in Requests, RefreshRevoke(r) PROVE RevokedInv'
    <2> DEFINE t == req[r].token
               s == req[r].session
    <2>1. t \in Tokens /\ row[t] # "none" /\ s = session[t] /\ s \in Tokens
      BY <1>0, <1>3 DEF RefreshRevoke, ExtendedOnce, SessionsNamed
    <2>2. CASE row[t] \in Stored
      <3>1. /\ row'[t] = "gone" /\ \A x \in Tokens \ {t} : row'[x] = row[x]
            /\ req'[r].op = "create" /\ req'[r].session = s
            /\ \A q \in Requests \ {r} : req'[q] = req[q]
            /\ UNCHANGED <<session, ended>>
        BY <1>0, <1>3, <2>1, <2>2 DEF RefreshRevoke, TypeOK
      <3>2. ended[s] # "revoked"
        BY <1>0, <2>1, <2>2 DEF RevokedForGood
      <3> HIDE DEF t, s
      <3> QED
        BY <1>0, <2>1, <3>1, <3>2
           DEF RevokedInv, NobodyExtendsRevoked, RevokedForGood, MidRotation, Stored
    <2>3. CASE row[t] \notin Stored
      <3>1. /\ req'[r].op = "revoke_all"
            /\ \A q \in Requests \ {r} : req'[q] = req[q]
            /\ UNCHANGED <<row, session, ended>>
        BY <1>0, <1>3, <2>3 DEF RefreshRevoke, TypeOK
      <3> QED
        BY <1>0, <3>1 DEF RevokedInv, NobodyExtendsRevoked, RevokedForGood, MidRotation
    <2> QED
      BY <2>2, <2>3
  <1>4. ASSUME NEW r \in Requests, RefreshRevokeAll(r) \/ Logout(r) PROVE RevokedInv'
    BY <1>4, RevokeAllRevoked DEF RefreshRevokeAll, Logout
  <1>5. ASSUME NEW t \in Tokens, Expire(t) PROVE RevokedInv'
    <2>1. /\ row[t] = "live" /\ row'[t] = "expired"
          /\ \A x \in Tokens \ {t} : row'[x] = row[x]
          /\ UNCHANGED <<session, req, ended>>
      BY <1>0, <1>5 DEF Expire, TypeOK
    <2> QED
      BY <1>0, <2>1 DEF RevokedInv, NobodyExtendsRevoked, RevokedForGood, MidRotation, Stored
  <1>6. CASE ServerCrash
    BY <1>0, <1>6, IdleIsRequest
       DEF ServerCrash, RevokedInv, NobodyExtendsRevoked, RevokedForGood, MidRotation
  <1>7. CASE UNCHANGED vars
    BY <1>0, <1>7 DEF vars, RevokedInv, NobodyExtendsRevoked, RevokedForGood, MidRotation, Stored
  <1> QED
    BY <1>1, <1>2, <1>3, <1>4, <1>5, <1>6, <1>7 DEF Next, Step

\* A session revoked outside a rotation has no stored token ever after, in every
\* interleaving of refreshes, logouts and crashes.
THEOREM RevocationIsFinal == Spec => []RevokedForGood
  <1>1. Init => RevokedInv
    BY IdleIsRequest
       DEF Init, RevokedInv, NobodyExtendsRevoked, RevokedForGood, MidRotation, Stored
  <1>2. RevokedInv => RevokedForGood
    BY DEF RevokedInv
  <1> QED
    BY <1>1, <1>2, InitSession, NextSession, NextRevoked, PTL DEF Spec
-----------------------------------------------------------------------------
(***************************************************************************)
(* RefreshTokens implements UserSessions.                                  *)
(***************************************************************************)

\* A session with one stored token has that token.
LEMMA OnlyToken ==
  ASSUME NEW S, NEW t, S = {t}
  PROVE  (IF S = {} THEN Absent ELSE CHOOSE x \in S : TRUE) = t
  OBVIOUS

\* A session has a token exactly when one is stored.
LEMMA TokenStored ==
  ASSUME NEW s
  PROVE  IF StoredOf(s) = {} THEN TokenOf(s) = Absent
         ELSE TokenOf(s) \in Tokens /\ TokenOf(s) # Absent
  <1>1. StoredOf(s) \subseteq Tokens
    BY DEF StoredOf
  <1> QED
    BY <1>1, TokensAssumption DEF TokenOf

LEMMA TokenFrame ==
  ASSUME NEW s, StoredOf(s)' = StoredOf(s)
  PROVE  TokenOf(s)' = TokenOf(s)
  BY DEF TokenOf

LEMMA InitPromise == Init => Promise!SessionsInit
  BY TokensAssumption DEF Init, Promise!SessionsInit, MidRotation, Idle, TokenOf, StoredOf, Stored

\* A step that leaves rows, sessions and rotations alone leaves the promise alone.
LEMMA PromiseUnchanged ==
  ASSUME \A t \in Tokens : /\ (row'[t] = "none") = (row[t] = "none")
                           /\ (row'[t] \in Stored) = (row[t] \in Stored),
         session' = session,
         \A s \in Tokens : MidRotation(s)' = MidRotation(s)
  PROVE  UNCHANGED Promise!sessionVars
  <1>1. \A s \in Tokens : StoredOf(s)' = StoredOf(s)
    BY DEF StoredOf
  <1>2. \A s \in Tokens : TokenOf(s)' = TokenOf(s)
    BY <1>1, TokenFrame
  <1> QED
    BY <1>2 DEF Promise!sessionVars

LEMMA TurnInPromise ==
  ASSUME SessionInv, NEW r \in Requests, RefreshRevoke(r), row[req[r].token] \in Stored
  PROVE  Promise!SessionsNext
  <1>0. TypeOK /\ SessionsNamed /\ ExtendedOnce /\ OneSessionPerLogin
    BY DEF SessionInv
  <1>1. PICK t \in Tokens, s \in Tokens :
          t = req[r].token /\ s = req[r].session /\ s = session[t] /\ row[t] # "none"
    BY <1>0 DEF RefreshRevoke, ExtendedOnce, SessionsNamed
  <1>2. /\ row'[t] = "gone" /\ \A x \in Tokens \ {t} : row'[x] = row[x]
        /\ req'[r].op = "create" /\ req'[r].session = s
        /\ \A q \in Requests \ {r} : req'[q] = req[q]
        /\ req[r].op = "revoke" /\ UNCHANGED session
    BY <1>0, <1>1 DEF RefreshRevoke, TypeOK
  <1>3. t \in StoredOf(s) /\ StoredOf(s)' = {}
    BY <1>0, <1>1, <1>2 DEF StoredOf, OneSessionPerLogin, Stored
  <1>4. \A x \in Tokens \ {s} : StoredOf(x)' = StoredOf(x)
    BY <1>1, <1>2 DEF StoredOf, Stored
  <1>5. TokenOf(s) # Absent /\ TokenOf(s)' = Absent
    BY <1>3, TokenStored DEF TokenOf
  <1>6. \A x \in Tokens \ {s} : TokenOf(x)' = TokenOf(x)
    BY <1>4, TokenFrame
  <1>7. \A x \in Tokens : MidRotation(x)' <=> (MidRotation(x) \/ x = s)
    BY <1>2 DEF MidRotation
  <1>8. \A x \in Tokens : (row'[x] = "none") = (row[x] = "none")
    BY <1>1, <1>2
  <1>9. Promise!TurnIn(s)
    BY <1>1, <1>5, <1>6, <1>7, <1>8 DEF Promise!TurnIn
  <1> QED
    BY <1>1, <1>9 DEF Promise!SessionsNext

LEMMA CreatePromise ==
  ASSUME SessionInv, NEW r \in Requests, NEW t \in Tokens, CreateToken(r, t)
  PROVE  Promise!SessionsNext
  <1>0. TypeOK /\ SessionsNamed /\ ExtendedOnce /\ OneSessionPerLogin
    BY DEF SessionInv
  <1>2. PICK s \in Tokens : s = IF req[r].session = Absent THEN t ELSE req[r].session
    BY <1>0 DEF CreateToken, TypeOK, Request
  <1>1. /\ row[t] = "none" /\ row'[t] = "live" /\ session'[t] = s
        /\ \A x \in Tokens \ {t} : row'[x] = row[x] /\ session'[x] = session[x]
        /\ req[r].op = "create"
        /\ req'[r].op = "idle" /\ \A q \in Requests \ {r} : req'[q] = req[q]
    BY <1>0, <1>2, IdleIsRequest DEF CreateToken, TypeOK
  <1>3. \A x \in Tokens : row[x] \in Stored => session[x] # s
    BY <1>0, <1>1, <1>2, TokensAssumption DEF ExtendedOnce, SessionsNamed, Stored
  <1>4. \A q \in Requests \ {r} : req[q].op = "create" => req[q].session # s
    <2>1. CASE req[r].session = Absent
      BY <1>0, <1>1, <1>2, <2>1, TokensAssumption DEF ExtendedOnce, SessionsNamed
    <2>2. CASE req[r].session # Absent
      BY <1>0, <1>1, <1>2, <2>2 DEF ExtendedOnce
    <2> QED
      BY <2>1, <2>2
  <1>5. s # t => req[r].session = s
    BY <1>2
  <1>6. req[r].session = Absent \/ req[r].session = s
    BY <1>2
  <1>7. s = t => req[r].session = Absent
    BY <1>0, <1>1, <1>2, TokensAssumption DEF ExtendedOnce, SessionsNamed
  <1>8. StoredOf(s)' = {t} /\ \A x \in Tokens \ {s} : StoredOf(x)' = StoredOf(x)
    BY <1>1, <1>2, <1>3 DEF StoredOf, Stored
  <1>9. TokenOf(s)' = t
    BY <1>8, OnlyToken DEF TokenOf
  <1>14. \A x \in Tokens \ {s} : TokenOf(x)' = TokenOf(x)
    BY <1>8, TokenFrame
  <1>10. \A x \in Tokens : MidRotation(x)' <=> (MidRotation(x) /\ x # s)
    BY <1>1, <1>2, <1>4, <1>6, TokensAssumption DEF MidRotation
  <1>11. \A x \in Tokens : (row'[x] # "none") = (row[x] # "none" \/ x = t)
    BY <1>1
  <1>12. CASE s = t
    <2>1. ~MidRotation(s)
      BY <1>1, <1>2, <1>4, <1>7, <1>12, TokensAssumption DEF MidRotation
    <2>2. [x \in Tokens |-> TokenOf(x)]' = [[x \in Tokens |-> TokenOf(x)] EXCEPT ![t] = t]
      BY <1>9, <1>12, <1>14
    <2>3. UNCHANGED {x \in Tokens : MidRotation(x)}
      BY <1>10, <1>12, <2>1
    <2>4. {x \in Tokens : row[x] # "none"}' = {x \in Tokens : row[x] # "none"} \cup {t}
      BY <1>11
    <2>5. Promise!Open(t)
      BY <1>1, <2>2, <2>3, <2>4 DEF Promise!Open
    <2> QED
      BY <2>5 DEF Promise!SessionsNext
  <1>13. CASE s # t
    <2>1. MidRotation(s)
      BY <1>1, <1>5, <1>13 DEF MidRotation
    <2>2. Promise!Renew(s, t)
      BY <1>1, <1>2, <1>9, <1>10, <1>11, <1>14, <2>1 DEF Promise!Renew
    <2> QED
      BY <1>2, <2>2 DEF Promise!SessionsNext
  <1> QED
    BY <1>12, <1>13

LEMMA RevokePromise ==
  ASSUME SessionInv, NEW r \in Requests, RefreshRevokeAll(r) \/ Logout(r)
  PROVE  Promise!SessionsNext
  <1>1. /\ \A t \in Tokens : row'[t] \notin Stored /\ (row'[t] = "none" <=> row[t] = "none")
        /\ UNCHANGED session
    BY DEF RefreshRevokeAll, Logout, revokeAllUserTokens, Stored
  <1>2. \A s \in Tokens : MidRotation(s)' = MidRotation(s)
    BY IdleIsRequest DEF RefreshRevokeAll, Logout, MidRotation, SessionInv, TypeOK
  <1>3. \A s \in Tokens : TokenOf(s)' = Absent
    BY <1>1 DEF TokenOf, StoredOf
  <1>4. Promise!RevokeAll
    BY <1>1, <1>2, <1>3 DEF Promise!RevokeAll
  <1> QED
    BY <1>4 DEF Promise!SessionsNext

LEMMA NextPromise ==
  SessionInv /\ [Next]_vars => [Promise!SessionsNext]_(Promise!sessionVars)
  <1> SUFFICES ASSUME SessionInv, [Next]_vars
               PROVE  Promise!SessionsNext \/ UNCHANGED Promise!sessionVars
    OBVIOUS
  <1>0. TypeOK
    BY DEF SessionInv
  <1>1. ASSUME NEW r \in Requests, Login(r) \/ \E t \in Tokens : RefreshFind(r, t)
        PROVE  UNCHANGED Promise!sessionVars
    <2>1. /\ \A q \in Requests \ {r} : req'[q] = req[q]
          /\ req[r].op = "idle" /\ (req'[r].op = "create" => req'[r].session = Absent)
          /\ UNCHANGED <<row, session>>
      BY <1>0, <1>1 DEF Login, RefreshFind, TypeOK
    <2>2. \A s \in Tokens : MidRotation(s)' = MidRotation(s)
      BY <2>1, TokensAssumption DEF MidRotation
    <2> QED
      BY <2>1, <2>2, PromiseUnchanged
  <1>2. ASSUME NEW r \in Requests, RefreshRevoke(r), row[req[r].token] \notin Stored
        PROVE  UNCHANGED Promise!sessionVars
    <2>1. /\ \A q \in Requests \ {r} : req'[q] = req[q]
          /\ req[r].op = "revoke" /\ req'[r].op = "revoke_all"
          /\ UNCHANGED <<row, session>>
      BY <1>0, <1>2 DEF RefreshRevoke, TypeOK
    <2>2. \A s \in Tokens : MidRotation(s)' = MidRotation(s)
      BY <2>1 DEF MidRotation
    <2> QED
      BY <2>1, <2>2, PromiseUnchanged
  <1>3. ASSUME NEW t \in Tokens, Expire(t) PROVE UNCHANGED Promise!sessionVars
    <2>1. \A x \in Tokens : /\ (row'[x] = "none") = (row[x] = "none")
                            /\ (row'[x] \in Stored) = (row[x] \in Stored)
      BY <1>0, <1>3 DEF Expire, TypeOK, Stored
    <2>2. session' = session /\ \A s \in Tokens : MidRotation(s)' = MidRotation(s)
      BY <1>3 DEF Expire, MidRotation
    <2> QED
      BY <2>1, <2>2, PromiseUnchanged
  <1>4. CASE ServerCrash
    <2>1. \A s \in Tokens : TokenOf(s)' = TokenOf(s) /\ ~MidRotation(s)'
      BY <1>4, IdleIsRequest DEF ServerCrash, TokenOf, StoredOf, MidRotation
    <2>2. Promise!Abandon
      BY <1>4, <2>1 DEF ServerCrash, Promise!Abandon
    <2> QED
      BY <2>2 DEF Promise!SessionsNext
  <1>5. CASE UNCHANGED vars
    BY <1>5, PromiseUnchanged DEF vars, MidRotation
  <1> QED
    BY <1>1, <1>2, <1>3, <1>4, <1>5, TurnInPromise, CreatePromise, RevokePromise DEF Next, Step

\* The tokens implement sessions that have one token at a time, and once over are over,
\* for any number of tokens and requests.
THEOREM TokensAreSessions == Spec => SessionsRefined
  <1> QED
    BY InitSession, NextSession, InitPromise, NextPromise, PTL
       DEF Spec, SessionsRefined, Promise!SessionsSpec
=============================================================================
