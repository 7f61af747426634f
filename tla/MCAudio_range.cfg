CONSTANTS
  Size = 3
  Wrap = 9
  Batch = 2
  Silence = 2
  Chunk = 2
  LowMark = 2
  Elapsed = 1
  Work = 2
  Trailing = 1
  RestartsRace = FALSE
  Debugger = FALSE
SPECIFICATION AudioSpec
INVARIANTS
  AvailableInRange
