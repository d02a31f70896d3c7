SPECIFICATION Spec
CONSTANTS
  e1 = e1
  e2 = e2
  Events = {e1, e2}
  Counts <- MCCounts
  Intervals <- MCIntervals
  NearSize = 2
  WheelSize = 2
  CountRange = 3
  Elapsed <- MCElapsed
  MaxTime = 19
SYMMETRY Symmetric
INVARIANTS TimersHeld StopReported
PROPERTY RefinesTimers
CHECK_DEADLOCK FALSE
