CONSTANTS
  Timers = {e1, e2, e3}
  NoTimer = NoTimer
  Channels = {0}
  Counts = {0}
  Resets = {0, 1}
  CountRange = 3
  Dividers = {1}
  LinePeriods = {1}
  RenderTime = 1
  MaxRenders = 1
  TickTime = 2
  CpuResets = TRUE
  Lines = {1, 2}
  Peripherals = {3}
  MaxLevel = 2
  LineLevel <- MCLineLevel
  Sources = {vout, mde, ext}
  External = {ext}
  VblankOut = vout
  MapleEnd = mde
  Masks = {{}, {vout, mde}}
  SleepBlocked = FALSE
  PacketSize = 4
  SectorSize = 4
  BufferSectors = 2
  FirstSectors = {0}
  SectorCounts = {0, 1, 3}
  ReplySizes = {0, 3, 4}
  DmaLengths = {2, 8}
  Aborts = FALSE
  TrustsIO = FALSE
  EmptyDmas = FALSE
  Size = 2
  Wrap = 6
  Batch = 1
  Silence = 1
  Chunk = 2
  LowMark = 1
  Elapsed = 0
  Work = 2
  Trailing = 1
  RestartsRace = FALSE
  Debugger = TRUE
  AiSources = {5, 6, 10}
  AiTimers = {6}
  AiSample = 10
  AiData = 5
  AiMasks = {{}, {6}, {5, 10}, {5, 6, 10}}
  AiMaxRaise = 2
  AvChannels = {0, 1}
  AvSound <- MCSound
  AvConfigs <- MCVoices
  AvMaxKeys = 3
  Units = {"clock", "intc", "gdrom", "audio"}
SPECIFICATION FairSpec
PROPERTIES
  TickEnds
  SleepEnds
  CommandEnds
  FramesKeepComing
