----------------------------- MODULE SingleDevice -----------------------------
(***************************************************************************)
(* What the sessions promise a user (docs/PROJECT_REFACTOR_DESIGN.md, 8):  *)
(* at any time one token at most is let in, a new login replaces the token *)
(* before it, and a token that has once been refused is never let in again.*)
(***************************************************************************)

CONSTANT Tokens

VARIABLES
    good,        \* the tokens with which a request is let in
    spent        \* the tokens that were given out and are good no more

vars == <<good, spent>>

Init == good = {} /\ spent = {}

\* A login is answered with a fresh token, and the one before it is no good.
SignIn(s) ==
    /\ s \notin good \cup spent
    /\ good' = {s} /\ spent' = spent \cup good

\* Logging out, expiry, or a login that has failed halfway.
End ==
    /\ good # {}
    /\ good' = {} /\ spent' = spent \cup good

Next == End \/ \E s \in Tokens : SignIn(s)

Spec == Init /\ [][Next]_vars
=============================================================================
