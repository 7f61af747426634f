CONSTANTS
  Addrs = {1, 2}
  ResetPc = 1
  Contents = {"lo", "hi", "trap"}
  Trap = "trap"
  Target <- MCTarget
  Size <- SameSize
  SlotOf <- OwnSlot
  Capacity = 3
  Slice = 1
  JumpsAfterFlush = FALSE
SPECIFICATION FairSpec
INVARIANTS
  RightCode
  FreshCode
PROPERTIES
  RunEnds
