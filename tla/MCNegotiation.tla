---------------------------- MODULE MCNegotiation ----------------------------
(* Model-checking instance of Negotiation. *)
EXTENDS Negotiation
=============================================================================
