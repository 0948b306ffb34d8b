---------------------------- MODULE MCUserRequests ----------------------------
EXTENDS UserRequests, TLC

\* Logins are interchangeable.
Symmetry == Permutations(Tokens)
=============================================================================
