----------------------------- MODULE MCWebSave -----------------------------
(***************************************************************************)
(* Instances of WebSave for TLC: two battery games and one game without a  *)
(* battery, which the save timers never serve.                             *)
(***************************************************************************)
EXTENDS WebSave

CONSTANTS RomA, RomB, NoBattery
=============================================================================
