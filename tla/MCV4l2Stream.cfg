SPECIFICATION FairSpec
CONSTANTS
  NB_BUFFER = 3
  MaxFrame = 7
  DispFormat = "RGB565"
INVARIANTS EachBufferOnce ShowsWhatItGot
PROPERTIES ShowsInOrder Drains
CHECK_DEADLOCK FALSE
