-------------------------- MODULE MCVaultApplication --------------------------
(* Model-checking instance of VaultApplication: every constant set holds     *)
(* interchangeable model values.                                             *)
EXTENDS VaultApplication, TLC

Symmetry == Permutations(Edits) \cup Permutations(Versions) \cup Permutations(Selectors)
=============================================================================
