--------------------------- MODULE MCLayerSwitch ---------------------------
(* Model-checking instance of LayerSwitch; MCLayerSwitch.cfg has its bounds. *)
EXTENDS LayerSwitch
=============================================================================
