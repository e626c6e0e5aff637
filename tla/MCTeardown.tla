----------------------------- MODULE MCTeardown -----------------------------
(* Model-checking instances of Teardown. *)
EXTENDS Teardown
=============================================================================
