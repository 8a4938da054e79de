--------------------------- MODULE MCFacadeExecutor ---------------------------
(* Model-checking instance of FacadeExecutor. *)
EXTENDS FacadeExecutor, TLC
=============================================================================
