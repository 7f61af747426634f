CONSTANTS
  Ctx = {c1}
  Tex = {t1}
  NoCtx = NoCtx
  NoTex = NoTex
  MaxRenders = 1
  OverlapRenders = FALSE
  NaughtyWrites = TRUE
  StandardVideo = TRUE
  VideoRestarts = FALSE
  LoadWhileRunning = FALSE
SPECIFICATION FairSpec
INVARIANTS
  TexturesFound
  HandlesLive
  StaleIsKnown
  PixelsExclusive
PROPERTIES
  DirtyUnshared
  FrameProtocol
