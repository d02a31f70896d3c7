SPECIFICATION FairSpec
CONSTANTS
  e1 = e1
  e2 = e2
  Events = {e1, e2}
  Counts <- FewCounts
  Intervals <- FewIntervals
  NearSize = 2
  WheelSize = 2
  CountRange = 3
  Elapsed <- MCElapsed
  MaxTime = 7
PROPERTIES TimerServed StopJoins
CHECK_DEADLOCK FALSE
