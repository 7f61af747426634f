CONSTANTS
  Pages = {0, 1, 2, 3}
  Textures <- MCTextures
  Entries = {e1, e2, e3, e4}
  MaxWatches = 3
  Restarts = TRUE
SPECIFICATION Spec
SYMMETRY Symmetry
INVARIANTS
  FaultsHandled
  WatchedIsLive
  ChangeNoticed
PROPERTIES
  OnlyRestartsLeak
CHECK_DEADLOCK FALSE
