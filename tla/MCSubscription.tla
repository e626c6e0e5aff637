--------------------------- MODULE MCSubscription ---------------------------
(* Model-checking instance of Subscription: one publisher and its watchers. *)
EXTENDS Subscription, TLC

CONSTANTS p1, p2, p3, t1

OnePublisher == t1 :> p1
=============================================================================
