---------------------------- MODULE MCVotePipeline ----------------------------
EXTENDS VotePipeline, TLC

\* Users are interchangeable, and so are consumers and relays; for the runs of
\* safety properties only.
Symmetry == Permutations(Users) \cup Permutations(Consumers) \cup Permutations(Relays)
=============================================================================
