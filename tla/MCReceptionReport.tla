------------------------- MODULE MCReceptionReport -------------------------
(* Model-checking instance of ReceptionReport. *)
EXTENDS ReceptionReport
=============================================================================
