---------------------------- MODULE MCCpuControl ----------------------------
(***************************************************************************)
(* An instance of CpuControl for TLC: two interrupts, and an oscillator    *)
(* that starts within three M-cycles.  The arithmetic is checked on the way. *)
(***************************************************************************)
EXTENDS CpuControl, MCAlu
=============================================================================
