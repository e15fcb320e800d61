SPECIFICATION Spec
CONSTANTS
  r1 = r1
  r2 = r2
  Reader = {r1}
  MaxPress = 1
INVARIANTS InvalidNeverRead
CHECK_DEADLOCK FALSE
