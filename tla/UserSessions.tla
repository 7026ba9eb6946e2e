---------------------------- MODULE UserSessions ----------------------------
(***************************************************************************)
(* What refresh tokens promise, with no request, row or count in sight: a  *)
(* session has one token at a time, which is turned in for the next one.   *)
(* Revocation takes the tokens of all sessions.  A session that has no     *)
(* token and is not being renewed is over for good.                        *)
(*                                                                         *)
(* RefreshTokens implements this specification.                            *)
(***************************************************************************)
CONSTANTS Tokens,
          Nothing         \* what a session without a token has

VARIABLES drawn,          \* tokens that were ever given out
          token,          \* by session, which its first token names: its token
          renewing        \* sessions whose token was turned in

sessionVars == <<drawn, token, renewing>>

SessionsInit ==
    /\ drawn = {}
    /\ token = [s \in Tokens |-> Nothing]
    /\ renewing = {}

\* A login gives a token nobody ever had.
Open(t) ==
    /\ t \notin drawn
    /\ drawn' = drawn \cup {t}
    /\ token' = [token EXCEPT ![t] = t]
    /\ UNCHANGED renewing

\* A refresh turns in the token of a session, once ...
TurnIn(s) ==
    /\ token[s] # Nothing
    /\ token' = [token EXCEPT ![s] = Nothing]
    /\ renewing' = renewing \cup {s}
    /\ UNCHANGED drawn

\* ... and gives its session a new one, once.
Renew(s, t) ==
    /\ s \in renewing /\ t \notin drawn
    /\ drawn' = drawn \cup {t}
    /\ token' = [token EXCEPT ![s] = t]
    /\ renewing' = renewing \ {s}

\* Logout, or a token that was used again, ends every session but those whose token
\* is turned in at the moment.
RevokeAll ==
    /\ token' = [s \in Tokens |-> Nothing]
    /\ UNCHANGED <<drawn, renewing>>

\* A refresh that is given up leaves its session without a token.
Abandon ==
    /\ renewing' = {}
    /\ UNCHANGED <<drawn, token>>

SessionsNext ==
    \/ \E s, t \in Tokens : Open(t) \/ TurnIn(s) \/ Renew(s, t)
    \/ RevokeAll
    \/ Abandon

SessionsSpec == SessionsInit /\ [][SessionsNext]_sessionVars
=============================================================================
