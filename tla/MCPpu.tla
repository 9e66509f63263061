------------------------------- MODULE MCPpu -------------------------------
(***************************************************************************)
(* An instance of Ppu for TLC: two drawn lines and three of VBlank - the    *)
(* first, one in between and the last - and four objects in OAM.  The small *)
(* distances inside a line (2 to 12 dots) are those of the code.            *)
(***************************************************************************)
EXTENDS Ppu

\* LYC: both drawn lines, the first of VBlank, the last line, and no line.
SomeLines == {0, 1, 2, 4, 5}
=============================================================================
