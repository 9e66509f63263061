SPECIFICATION FairSpec
CONSTANTS
  Visible = 2
  Lines = 5
  LineDots = 28
  ScanEntries = 4
  DrawMin = 6
  DrawMax = 9
  LycValues <- SomeLines
INVARIANTS
  TypeOK
  StatLineFollowsSources
PROPERTIES
  ImplementsTimetable
  StatInterruptsAreEdges
  FramesRecur
