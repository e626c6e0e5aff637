--------------------------- MODULE MCDataChannels ---------------------------
(* Model-checking instance of DataChannels. *)
EXTENDS DataChannels
=============================================================================
