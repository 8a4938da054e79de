----------------------------- MODULE MCPendingStore ----------------------------
(* Instance of PendingStore for TLC: the identifiers are interchangeable. *)
EXTENDS PendingStore, TLC

IdSymmetry == Permutations(Ids)
=============================================================================
