SPECIFICATION Spec
CONSTANTS
  Images <- Cartridges
  Reloads <- TwoCartridges
  ProgramReads <- SomeReads
  ProgramWrites <- SomeWrites
INVARIANTS
  OffsetsStayInside
  StoresCanBeReadBack
PROPERTIES
  ImplementsBankSwitch
