CONSTANTS
  Timers = {e1, e2, e3}
  NoTimer = NoTimer
  Channels = {0}
  Counts = {0, 2}
  Resets = {1}
  CountRange = 3
  Dividers = {1, 2}
  LinePeriods = {2}
  RenderTime = 2
  MaxRenders = 1
  TickTime = 2
  CpuResets = TRUE
  Lines = {1, 2}
  Peripherals = {3}
  MaxLevel = 2
  LineLevel <- MCLineLevel
  Sources = {vout, mde, ext}
  External = {ext}
  VblankOut = vout
  MapleEnd = mde
  Masks = {{}, {vout}, {mde, ext}}
  SleepBlocked = FALSE
  PacketSize = 4
  SectorSize = 4
  BufferSectors = 2
  FirstSectors = {0, 5}
  SectorCounts = {0, 1, 3}
  ReplySizes = {0, 3, 4}
  DmaLengths = {2, 4, 8, 16}
  Aborts = FALSE
  TrustsIO = FALSE
  EmptyDmas = FALSE
  Size = 3
  Wrap = 9
  Batch = 2
  Silence = 2
  Chunk = 2
  LowMark = 2
  Elapsed = 1
  Work = 2
  Trailing = 1
  RestartsRace = FALSE
  Debugger = FALSE
  AiSources = {5, 6, 10}
  AiTimers = {6}
  AiSample = 10
  AiData = 5
  AiMasks = {{}, {6}, {5, 10}, {5, 6, 10}}
  AiMaxRaise = 2
  AvChannels = {0, 1}
  AvSound <- MCSound
  AvConfigs <- MCVoices
  AvMaxKeys = 3
  Units = {"clock", "intc", "gdrom", "audio", "aica", "voice"}
INIT Init
NEXT Next
INVARIANTS
  TimersSound
  PendingFresh
  DriveSound
  FramesIntact
  AicaExact
PROPERTIES
  TakesTheRightOne
