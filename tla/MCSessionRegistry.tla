-------------------------- MODULE MCSessionRegistry --------------------------
(* Model-checking instance of SessionRegistry. *)
EXTENDS SessionRegistry, TLC

\* The peers are interchangeable.
AnyOrder == Permutations(Peers)
=============================================================================
