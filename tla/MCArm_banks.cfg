CONSTANTS
  WordBits = 8
  MemBytes = 16
  SrNum = 4
  SrBanked = 2
  SBase = 32
  SWalkLen = 3
  ARegs = {0, 1, 2, 8, 13, 14, 15}
  ABase = 32
  AWalkLen = 5
  MCValues = {0, 1, 2, 7, 127, 128, 129, 170, 249, 255}
  SStarts <- MCStarts
  SWalkOps <- MCWalkOps
  AStarts <- MCAStarts
  ICtxBytes = 24
  RAvx = FALSE
  RRegs <- MCRegs
  RBlocks <- MCBlocks
INIT ArmInit
NEXT Next
INVARIANTS ArmBankLoaded
CHECK_DEADLOCK FALSE
