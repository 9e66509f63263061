----------------------------- MODULE MCScanline -----------------------------
(* Lines of 16 columns and at most two objects.                             *)
EXTENDS Scanline

MCClearColumns == {c \in 0 .. 255 : c % 3 = 0}

All == {"bg", "window", "objects"}

Obj(x, y, behind, opaque) == [x |-> x, y |-> y, behind |-> behind, opaque |-> opaque]

At(x) == Obj(x, 16, FALSE, 0 .. 7)

\* The line is number 7: an object of 8 rows with y = 16 ends there, one with
\* y = 15 has ended and one with y = 24 begins a line later.
Line(scx, wx, latched, lcdc, oam) ==
  [ scx |-> scx, wx |-> wx, window_y_triggered |-> latched, lcdc |-> lcdc, oam |-> oam,
    scanline |-> 7, height |-> 8 ]

Tables ==
  { <<>>, <<At(1)>>, <<At(23)>>, <<At(0), At(6)>>, <<At(24), At(5)>>,
    <<At(12), At(8)>>, <<At(9), Obj(9, 16, TRUE, {0, 3, 7})>>,
    <<Obj(9, 15, FALSE, 0 .. 7), Obj(14, 16, TRUE, 0 .. 7), At(15), At(20)>>,
    <<Obj(6, 24, FALSE, 0 .. 7), Obj(4, 16, TRUE, {1, 2, 6}), Obj(7, 9, FALSE, {0, 5})>> }

Grounds ==
  { <<FALSE, {"bg", "objects"}>>, <<TRUE, All>>, <<TRUE, {"bg", "objects"}>>,
    <<TRUE, {"objects", "window"}>>, <<TRUE, {"bg", "window"}>> }

StaticLines ==
  { Line(scx, wx, g[1], g[2], oam) :
      scx \in {0, 1, 7, 252}, wx \in {0, 3, 7, 12, 21, 22, 23}, g \in Grounds, oam \in Tables }

MCWrittenLines ==
  { Line(scx, wx, TRUE, lcdc, oam) :
      scx \in {0, 5}, wx \in {6, 12}, lcdc \in {All, {"bg", "objects"}},
      oam \in {<<At(3), At(9)>>, <<At(13)>>} }

MCScanLines == StaticLines \union MCWrittenLines

MCWrites ==
  { [register |-> "lcdc", value |-> All], [register |-> "lcdc", value |-> {"bg", "objects"}],
    [register |-> "lcdc", value |-> {"bg", "window"}],
    [register |-> "wx", value |-> 15], [register |-> "wx", value |-> 23],
     [register |-> "scx", value |-> 9] }

\* Lines that only show an object that x = 0 keeps left of the screen.
LinesWithZero == { Line(scx, 0, FALSE, {"bg", "objects"}, <<At(0)>>) : scx \in {0, 3} }
=============================================================================
