----------------------------- MODULE UserRequests -----------------------------
(***************************************************************************)
(* What a user's request passes before its handler, as router/router.go    *)
(* wires it: the session check for every protected route, then the rate    *)
(* limit for votes.  A vote that has passed the session check does not     *)
(* look at the session again.                                              *)
(***************************************************************************)
EXTENDS Sessions, RateLimit

userVars == <<sessionVars, limitVars>>

UserInit == SessionInit /\ LimitInit

\* A vote behind the session check enters the rate limit.
VoteEnters(r) == Answer(r) /\ TakeTime

\* Logging in and out, and the requests that are no votes.
Account ==
    /\ SessionStep \/ \E r \in Requests : Answer(r)
    /\ UNCHANGED limitVars

Voting == \/ \E r \in Requests : VoteEnters(r)
          \/ LimitStep /\ UNCHANGED sessionVars

UserNext == Account \/ Voting

UserSpec == UserInit /\ [][UserNext]_userVars

-----------------------------------------------------------------------------

\* The two inductive invariants, of which the properties of Sessions and RateLimit
\* are consequences.  Neither needs the other.
UserInv == SessionInv /\ LimitInv
=============================================================================
