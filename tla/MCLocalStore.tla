------------------------------ MODULE MCLocalStore -----------------------------
EXTENDS LocalStore, TLC

Symmetry == Permutations(Processes) \cup Permutations(Ids)
=============================================================================
