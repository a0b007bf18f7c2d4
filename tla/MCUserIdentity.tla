--------------------------- MODULE MCUserIdentity ---------------------------
EXTENDS UserIdentity, TLC

Interchangeable == Permutations(Users) \cup Permutations(Procs)
=============================================================================
