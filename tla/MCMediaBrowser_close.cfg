SPECIFICATION Spec
CONSTANTS
  Names <- AllNames
  Start <- UmsDir
  MaxDepth = 4
  MaxPlayers = 2
  MaxBacks = 2
  Frames = 3
INVARIANT CloseStopsTimer
CHECK_DEADLOCK FALSE
