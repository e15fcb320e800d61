SPECIFICATION FairTimerSpec
CONSTANTS
  p1 = p1
  p2 = p2
  Proc = {p1, p2}
  Period = {500, 1000}
  DefaultPeriod = 1000
  MaxCmd = 6
INVARIANTS OffMeansOff OnMeansArmed
PROPERTIES PeriodSettles KeepsBlinking
CHECK_DEADLOCK FALSE
