------------------------- MODULE MCLayoutValidation -------------------------
(* A small instance of LayoutValidation: integers of four bits.              *)
EXTENDS LayoutValidation
=============================================================================
