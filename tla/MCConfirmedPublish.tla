-------------------------- MODULE MCConfirmedPublish --------------------------
EXTENDS ConfirmedPublish, TLC

\* Callers are interchangeable.
Symmetry == Permutations(Callers)
=============================================================================
