CONSTANTS
  Ctx = {c1, c2}
  Tex = {t1}
  NoCtx = NoCtx
  NoTex = NoTex
  MaxRenders = 2
  OverlapRenders = TRUE
  NaughtyWrites = TRUE
  StandardVideo = TRUE
  VideoRestarts = FALSE
  LoadWhileRunning = FALSE
SPECIFICATION Spec
SYMMETRY Symmetry
PROPERTIES
  DirtyUnshared
