SPECIFICATION Spec
CONSTANTS
  op = op
  h1 = h1
  h2 = h2
  Op = op
  Helper = {h1, h2}
  MaxCmds = 3
  MaxEvents = 4
SYMMETRY HelperSymmetry
INVARIANTS NeverTwiceInUse ImageFollowsUsb ExportedByGadget ConfigIsBound
CHECK_DEADLOCK FALSE
