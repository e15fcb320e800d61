SPECIFICATION FairSpec
CONSTANTS
  p1 = p1
  p2 = p2
  p3 = p3
  p4 = p4
  p5 = p5
  Opener <- MCOpener
  None = None
INVARIANTS LockAccounts
PROPERTIES Exclusive SleeperServed
