------------------------------- MODULE Sessions -------------------------------
(***************************************************************************)
(* One user's logins, requests and logouts: dao/redis/session.go,          *)
(* logic/user.go, middlewares/auth.go.  The user has one session key;      *)
(* every login writes it with a new session id, and a token is good as     *)
(* long as the key holds its id.                                           *)
(*                                                                         *)
(* A token is its session id.  What is refused changes nothing.            *)
(***************************************************************************)

CONSTANTS
    Tokens,         \* one per login
    NoToken,
    Requests        \* requests on protected routes that are served at a time

ASSUME TokensAssumption == NoToken \notin Tokens

VARIABLES
    session,        \* auth:session:<user>
    login,          \* per token: how far its login is
    newest,         \* the token whose session was written last
    ended,          \* tokens whose session expired or whose user logged out
    expired,        \* tokens past their own time of expiry
    serving         \* per request behind the auth middleware: its token

sessionVars == <<session, login, newest, ended, expired, serving>>

SessionTypeOK ==
    /\ session \in Tokens \cup {NoToken} /\ newest \in Tokens \cup {NoToken}
    /\ login \in [Tokens -> {"none", "signed", "issued", "failed"}]
    /\ ended \subseteq Tokens /\ expired \subseteq Tokens
    /\ serving \in [Requests -> Tokens \cup {NoToken}]

SessionInit ==
    /\ session = NoToken /\ newest = NoToken
    /\ login = [s \in Tokens |-> "none"]
    /\ ended = {} /\ expired = {}
    /\ serving = [r \in Requests |-> NoToken]

\* GenToken, with a session id that nobody had.
GenToken(s) ==
    /\ login[s] = "none"
    /\ login' = [login EXCEPT ![s] = "signed"]
    /\ UNCHANGED <<session, newest, ended, expired, serving>>

SetSession(s) == session' = s /\ newest' = s

Login(s) ==
    /\ login[s] = "signed" /\ SetSession(s)
    /\ login' = [login EXCEPT ![s] = "issued"]
    /\ UNCHANGED <<ended, expired, serving>>

\* The token is not given to the user, whether or not Redis has taken the write.
LoginFails(s) ==
    /\ login[s] = "signed"
    /\ login' = [login EXCEPT ![s] = "failed"]
    /\ SetSession(s) \/ UNCHANGED <<session, newest>>
    /\ UNCHANGED <<ended, expired, serving>>

\* A middleware that asks whether the user has a session, not which.
AnySession(s) == login[s] = "issued" /\ s \notin expired /\ session # NoToken
\* JWTAuthMiddleware: ParseToken and ValidateSession.
Valid(s) == login[s] = "issued" /\ s \notin expired /\ session = s

Authenticate(r, s) ==
    /\ serving[r] = NoToken /\ Valid(s)
    /\ serving' = [serving EXCEPT ![r] = s]
    /\ UNCHANGED <<session, login, newest, ended, expired>>

\* A handler that does not touch the session, or fails before it does.
Answer(r) ==
    /\ serving[r] # NoToken
    /\ serving' = [serving EXCEPT ![r] = NoToken]
    /\ UNCHANGED <<session, login, newest, ended, expired>>

\* A deletion without the comparison, and none.
DeleteAny(s) == session' = NoToken
DeleteNothing(s) == UNCHANGED session
\* deleteSessionScript.
DeleteSession(s) == session' = IF session = s THEN NoToken ELSE session

Logout(r) ==
    /\ serving[r] # NoToken
    /\ DeleteSession(serving[r])
    /\ ended' = ended \cup {serving[r]}
    /\ serving' = [serving EXCEPT ![r] = NoToken]
    /\ UNCHANGED <<login, newest, expired>>

\* The time to live of the key.
SessionExpires ==
    /\ session # NoToken /\ session' = NoToken
    /\ ended' = ended \cup {session}
    /\ UNCHANGED <<login, newest, expired, serving>>

\* The same moment by the clock of the instance.
TokenExpires(s) ==
    /\ login[s] = "issued" /\ s \notin expired /\ expired' = expired \cup {s}
    /\ UNCHANGED <<session, login, newest, ended, serving>>

SessionStep ==
    \/ \E s \in Tokens : GenToken(s) \/ Login(s) \/ LoginFails(s) \/ TokenExpires(s)
    \/ \E r \in Requests : Logout(r) \/ \E s \in Tokens : Authenticate(r, s)
    \/ SessionExpires

SessionNext == SessionStep \/ \E r \in Requests : Answer(r)

SessionSpec == SessionInit /\ [][SessionNext]_sessionVars

-----------------------------------------------------------------------------

\* The session is that of the login that was written last
\* (docs/PROJECT_REFACTOR_DESIGN.md, 8.1), until it expires or this very login logs
\* out: a logout with an older token that was let in before must not end it (8.3).
NewestLoginHolds == session = newest \/ (session = NoToken /\ newest \in ended)

\* After a logout, or the end of a session, its token is never let in again.
LogoutIsFinal == \A s \in ended : ~Valid(s)

\* The inductive strengthening: only a login that is under way can still write.
SessionInv ==
    /\ SessionTypeOK /\ NewestLoginHolds /\ session \notin ended
    /\ \A s \in expired : login[s] = "issued"
    /\ \A s \in Tokens : login[s] \in {"none", "signed"} =>
          s # session /\ s \notin ended /\ \A r \in Requests : serving[r] # s

\* Login on a single device (docs/PROJECT_REFACTOR_DESIGN.md, 8): whatever logins,
\* logouts and expiries overlap, or fail halfway, one token at most is let in, and
\* each is good for one span of time, from its login to its end.
Device == INSTANCE SingleDevice WITH
    good <- {s \in Tokens : Valid(s)},
    spent <- {s \in Tokens : login[s] = "issued" /\ ~Valid(s)}
ImplementsSingleDevice == Device!Spec
=============================================================================
