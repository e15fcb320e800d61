SPECIFICATION FairSpec
CONSTANTS
  Names <- AllNames
  Start <- UmsDir
  MaxDepth = 4
  MaxPlayers = 2
  MaxBacks = 2
  Frames = 3
INVARIANTS ThumbComesBack SafeUnlessClosed PlayerOwnsScreen
PROPERTIES EndsUnlessHeld
CHECK_DEADLOCK FALSE
