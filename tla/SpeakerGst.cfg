SPECIFICATION FairSpec
CONSTANTS
  Clients = {c1, c2}
  Tasks = {t1, t2}
  Streams = {s1, s2, s3}
  None = None
PROPERTIES DroppedQuiet EndedRemoved
CHECK_DEADLOCK FALSE
