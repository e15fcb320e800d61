SPECIFICATION Spec
CONSTANTS
  v1 = v1
  v2 = v2
  f1 = f1
  f2 = f2
  Version = {v1, v2}
  File = {f1, f2}
  Ships <- MCShips
  Factory = Factory
  None = None
  MaxRuns = 2
INVARIANT InstalledWasVerified
CHECK_DEADLOCK FALSE
