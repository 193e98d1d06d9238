--------------------------- MODULE MCMikroMk3Lights ---------------------------
(***************************************************************************)
(* Instances of MikroMk3Lights for TLC: all lights off and two images.     *)
(***************************************************************************)
EXTENDS MikroMk3Lights

CONSTANTS dark, red, blue

MCImages == {dark, red, blue}
=============================================================================
