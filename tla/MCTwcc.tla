------------------------------- MODULE MCTwcc -------------------------------
(* Model-checking instance of Twcc. *)
EXTENDS Twcc
=============================================================================
