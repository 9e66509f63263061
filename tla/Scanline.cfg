CONSTANTS
  Width = 16
  MaxObjects = 2
  ScanLines <- MCScanLines
  WrittenLines <- MCWrittenLines
  Writes <- MCWrites
  MaxWrites = 2
  ClearColumns <- MCClearColumns
SPECIFICATION DrawSpec
INVARIANTS
  PictureIsRight
  ObjectsStayInPlace
  DrawingIsBounded
\* The line ends.
CHECK_DEADLOCK FALSE
