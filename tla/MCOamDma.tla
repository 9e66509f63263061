------------------------------ MODULE MCOamDma ------------------------------
(***************************************************************************)
(* An instance of OamDma for TLC: an OAM of three bytes, one page on each  *)
(* kind of bus.                                                            *)
(***************************************************************************)
EXTENDS OamDma

CONSTANTS Vram, Rom, Ram
=============================================================================
