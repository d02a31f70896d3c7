SPECIFICATION FairSpec
CONSTANTS
  c1 = c1
  c2 = c2
  t1 = t1
  s1 = s1
  s2 = s2
  None = None
  Clients = {c1, c2}
  Tasks = {t1}
  Streams = {s1, s2}
  Calls <- MCCalls
  Chunks = 1
INVARIANTS InReach
PROPERTIES DroppedClosed RacesOnly ControlsAct
CHECK_DEADLOCK FALSE
