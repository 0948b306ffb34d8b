----------------------------- MODULE MCPostLists -----------------------------
EXTENDS PostLists, TLC
=============================================================================
