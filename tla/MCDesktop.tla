------------------------------- MODULE MCDesktop -------------------------------
(* Model-checking instance of Desktop. *)
EXTENDS Desktop, TLC

Symmetry == Permutations(Queries) \cup Permutations(Nonces)
=============================================================================
