----------------------------- MODULE MCPostIndex -----------------------------
EXTENDS PostIndex, TLC

\* Instances, users and posts are interchangeable; for safety properties only.
Symmetry == Permutations(Users) \cup Permutations(Posts) \cup Permutations(Apis)
=============================================================================
