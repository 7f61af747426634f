CONSTANTS
  Ctx = {c1, c2}
  Tex = {t1}
  NoCtx = NoCtx
  NoTex = NoTex
  MaxRenders = 2
  OverlapRenders = TRUE
  NaughtyWrites = FALSE
  StandardVideo = FALSE
  VideoRestarts = TRUE
  LoadWhileRunning = TRUE
SPECIFICATION Spec
SYMMETRY Symmetry
INVARIANTS
  FrameRequestable
  NoLostWakeup
  NeverTorn
