---------------------------- MODULE MCRetransmit ----------------------------
(* Layer 0 starts so that its numbers wrap around, layer 1 elsewhere.       *)
EXTENDS Retransmit

StartOfLayers == [l \in Layers |-> IF l = 0 THEN 14 ELSE 3]
=============================================================================
