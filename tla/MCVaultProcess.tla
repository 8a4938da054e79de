---------------------------- MODULE MCVaultProcess ----------------------------
(* Model-checking instance of VaultProcess. *)
EXTENDS VaultProcess, TLC

Symmetry == Permutations(Edits) \cup Permutations(Versions) \cup Permutations(Selectors)
=============================================================================
