---------------------------- MODULE LcdTimetable ----------------------------
(***************************************************************************)
(* What module Ppu promises a program: everything that the program can read *)
(* from the LCD, except the STAT interrupt, is a table of the line, of the  *)
(* dot in it and of whether the line is still being drawn.  The only choice *)
(* is how long mode 3 takes.                                                *)
(***************************************************************************)
EXTENDS Integers

CONSTANTS Visible, Lines, LineDots, ScanEntries, DrawMin, DrawMax

VARIABLES
  phase,     \* "off", "startup", "scan", "draw", "hblank" or "vblank"
  line, pos, \* the line, and the dots of it that have passed
  first,     \* this is the line that follows LCD on
  blank,     \* nothing is shown until the first VBlank after LCD on
  seen,      \* what the program can read or reach
  vblank     \* the step that has just been made requested the VBlank interrupt

place == <<phase, line, pos, first, blank>>
vars == <<place, seen, vblank>>

ScanEnd == 4 + 2 * ScanEntries
Length == IF first THEN LineDots - 6 ELSE LineDots
DrawFrom == IF first THEN ScanEnd - 4 ELSE ScanEnd

-----------------------------------------------------------------------------
(* The table. *)

LY ==
  IF line < Visible
  THEN IF pos < 3 /\ line > 0 THEN line - 1 ELSE line
  ELSE IF pos < 2 THEN line - 1
  ELSE IF line = Lines - 1 /\ pos >= 8 THEN 0 ELSE line

\* The value that is compared with LYC; -1 equals none.
Compared ==
  CASE line = 0 -> 0
    [] 0 < line /\ line < Visible ->
         IF pos < 3 THEN line - 1 ELSE IF pos = 3 THEN -1 ELSE line
    [] Visible <= line ->
         IF line = Lines - 1 /\ pos >= 8
         THEN IF pos < 12 THEN -1 ELSE 0
         ELSE IF pos < 4 THEN -1 ELSE line

\* Line 0 shows VBlank for three dots and mode 0 for one.
Mode ==
  CASE phase = "scan" -> CASE pos >= 4 -> "OamScan"
                           [] line = 0 /\ pos < 3 -> "VBlank"
                           [] OTHER -> "HBlank"
    [] phase = "draw" -> "Drawing"
    [] phase = "vblank" -> "VBlank"
    [] OTHER -> "HBlank"

Blocked ==
  CASE phase = "draw" -> {"vram_read", "vram_write", "oam_read", "oam_write"}
    [] phase = "scan" ->
         (IF pos >= 3 THEN {"oam_read"} ELSE {})
           \union (IF 4 <= pos /\ pos < ScanEnd - 4 THEN {"oam_write"} ELSE {})
           \union (IF pos >= ScanEnd - 4 THEN {"vram_read"} ELSE {})
    [] phase = "startup" -> IF pos >= ScanEnd - 6 THEN {"oam_write"} ELSE {}
    [] OTHER -> {}

\* The row of OAM that a stray address corrupts: the one after the row that is
\* being scanned, and none after the last.
Corrupted(port) ==
  LET row == ((pos - 6) \div 4) + 1 IN
  IF /\ phase = "scan" /\ port \in Blocked
     /\ pos >= 6 /\ row < ScanEntries \div 2
  THEN row ELSE -1

Seen ==
  [ ly |-> LY, compared |-> Compared, mode |-> Mode, blocked |-> Blocked,
    read_corrupts |-> Corrupted("oam_read"), write_corrupts |-> Corrupted("oam_write") ]

-----------------------------------------------------------------------------

\* The phase in the dot after this one, if the line goes on.
DotInLine ==
  /\ pos + 1 < Length
  /\ pos' = pos + 1
  /\ UNCHANGED <<line, first>>
  /\ CASE phase \in {"startup", "scan"} ->
            phase' = IF pos' = DrawFrom THEN "draw" ELSE phase
       [] phase = "draw" ->
            /\ phase' \in {"draw", "hblank"}
            /\ phase' = "draw" => pos' < DrawFrom + DrawMax
            /\ phase' = "hblank" => pos' >= DrawFrom + DrawMin
       [] OTHER -> phase' = IF line = Visible /\ pos' = 5 THEN "vblank" ELSE phase
  /\ vblank' = (line = Visible /\ pos' = 5)
  /\ blank' = (blank /\ ~vblank')

LastDot ==
  /\ pos + 1 = Length
  /\ phase \in {"hblank", "vblank"}
  /\ pos' = 0 /\ first' = FALSE
  /\ line' = (line + 1) % Lines
  /\ phase' = IF line' < Visible THEN "scan" ELSE phase
  /\ vblank' = FALSE /\ UNCHANGED blank

Tick == phase # "off" /\ (DotInLine \/ LastDot)

SwitchOn ==
  /\ phase = "off"
  /\ phase' = "startup" /\ first' = TRUE /\ vblank' = FALSE
  /\ UNCHANGED <<line, pos, blank>>

AtRest ==
  phase = "off" /\ line = 0 /\ pos = 0 /\ first = FALSE /\ blank = TRUE /\ vblank = FALSE

SwitchOff == AtRest'

\* The CPU does something else.
Rest == vblank' = FALSE /\ UNCHANGED place

Init == AtRest /\ seen = Seen

Next == (Tick \/ SwitchOn \/ SwitchOff \/ Rest) /\ seen' = Seen'

Spec == Init /\ [][Next]_vars
=============================================================================
