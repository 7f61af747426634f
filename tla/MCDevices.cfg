CONSTANTS
  FlBits = 2
  FlPhysical = 8
  FlSyscfg = "syscfg"
  FlIds = {"syscfg", "game"}
  FlVals = {"a", "b"}
  FlMaxWork = 2
  BIdMod = 3
  BMem = 3
  BDisc = {1, 2, 4}
  BGaps = {3, 5, 6, 7, 8, 9, 10, 11, 12, 13, 14}
  BGdrom = FALSE
  BParams <- MCParams
  BMaxReqs = 2
  BSlice = 2
  BMaxChunk = 8
  BSizes = {45}
  ItNodes = {1, 2, 3, 4, 5}
  ItRange <- MCRange
  ItAddrs = {1, 3, 5}
  TaAddrs = {"x"}
  TaGlobals <- MCGlobals
  TaDepths = {1, 2}
  TaCorners <- MCCorners
  TaMaxChunks = 9
  TaMaxLate = 1
  TaFirstTails = {1}
  TaSloppy = FALSE
  YuvU = 2
  YuvV = 2
  TxCases <- MCTextures
  TxWords <- MCWords
  ScFifo = 2
  ScRtrg = {1, 2}
  ScTtrg = {1}
  ScModes <- MCScModes
  ScLazy = FALSE
  ScBlock = 2
  ScMaxChars = 3
  G2Channels = {0, 1}
  G2Chunk = 2
  G2Jobs <- MCG2Jobs
  G2Cells = {0, 1, 2, 3, 4, 5}
  G2Pokes = FALSE
  C2Counts = {2}
  C2Differs = FALSE
  DmMaxStarts = 2
  MpPorts = {0, 1}
  MpByte = 2
  MpBlocks = 3
  MpWords = 1
  MpFrames <- MCMpFrames
  MpButtons = {"A"}
  MpValues <- MCStick
  MpMaxFrames = 3
  MpMaxInputs = 1
  DcImages <- MCDcImages
  DcPregap = 2
  DcHigh = 12
  DcHunk = 2
  DcPvd = 7
  DcDirSize = 12
  DcNames <- MCDcNames
  DcMaxRead = 3
  DcReads = 2
  DcAcross = FALSE
  DcAudio = FALSE
  DcOther = FALSE
INIT Init
NEXT Next
INVARIANTS
  FlashKept
  BiosExact
  AccessFindsAll
  DisplayListExact
  TexturesExact
  
  DmaExact
  MapleExact
  DiscExact
CHECK_DEADLOCK FALSE
