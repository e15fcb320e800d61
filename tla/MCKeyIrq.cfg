SPECIFICATION FairSpec
CONSTANTS
  r1 = r1
  r2 = r2
  Reader = {r1, r2}
  MaxPress = 2
INVARIANTS AtRestShowsPin NoPhantomRelease OrphanNeedsLateEdge
PROPERTIES ReleaseIsRead
CHECK_DEADLOCK FALSE
