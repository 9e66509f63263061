CONSTANTS
  Width = 16
  MaxObjects = 2
  ScanLines <- LinesWithZero
  WrittenLines = {}
  Writes = {}
  MaxWrites = 0
  ClearColumns <- MCClearColumns
SPECIFICATION DrawSpec
INVARIANT ObjectAtZeroIsOffScreen
CHECK_DEADLOCK FALSE
