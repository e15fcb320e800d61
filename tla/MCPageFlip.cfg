SPECIFICATION Spec
CONSTANTS
  Args <- MCArgs
  MaxPages = 5
  MaxFrame = 12
INVARIANTS ShowsLatest DrawsBehindScreen UndefinedOnlyOutsideLimits
CHECK_DEADLOCK FALSE
