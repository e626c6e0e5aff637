--------------------------- MODULE MCPacketBuffer ---------------------------
(* Model-checking instances of PacketBuffer. *)
EXTENDS PacketBuffer
=============================================================================
