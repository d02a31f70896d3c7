SPECIFICATION RaceSpec
CONSTANTS
  e1 = e1
  e2 = e2
  Events = {e1, e2}
  Counts <- RaceCounts
  Intervals <- RaceIntervals
  NearSize = 2
  WheelSize = 2
  CountRange = 3
  Elapsed <- RaceElapsed
  MaxTime = 9
INVARIANT RacedHeld
PROPERTY RacedInTime
SYMMETRY Symmetric
CHECK_DEADLOCK FALSE
