SPECIFICATION Spec
CONSTANTS
  Millis = 2
  Ticks = 3
  Limit <- Two
  Size <- Three
  LowDays = 2
  Byte = 6
  Word = 8
  Files <- Found
  ProgramWrites <- Some
  MaxTime = 4
  MaxAccesses = 2
  MaxSaves = 1
  MaxLoads = 1
INVARIANTS
  OnlyFilesLeaveTheRange
  CleanMeansSaved
  NothingIsFromTheFuture
PROPERTIES
  ImplementsChip
