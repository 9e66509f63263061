SPECIFICATION FairSpec
CONSTANTS
  Vram = Vram
  Rom = Rom
  Ram = Ram
  Size = 3
  VramPages = {Vram}
  RomPages = {Rom}
  RamPages = {Ram}
  NoPage = NoPage
  CpuByte = CpuByte
  MixedByte = MixedByte
INVARIANTS
  PpuFollowsDma
  OamHoldsTheTransfer
PROPERTIES
  ImplementsCycles
  TransfersEnd
