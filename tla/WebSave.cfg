SPECIFICATION FairSpec
CONSTANTS
  RomA = RomA
  RomB = RomB
  NoBattery = NoBattery
  Roms = {RomA, RomB, NoBattery}
  Battery = {RomA, RomB}
  Clocked = {RomA}
  NoRom = NoRom
  Never = Never
  Debounce = 1
  MaxDirty = 2
  Retry = 1
  MaxWrites = 2
  MaxLoads = 2
CHECK_DEADLOCK FALSE
INVARIANTS
  SavesStayWithTheirGame
  OneStoreAtATime
  WaitingCartridgeHasItsLoad
  CleanRamIsSaved
  DirtyRamIsNotOverdue
PROPERTIES
  UnsavedRamIsDroppedOnlyBehindASave
  ChosenCartridgeRuns
  ChangesReachTheStore
