SPECIFICATION FairSpec
CONSTANTS
  w1 = w1
  w2 = w2
  w3 = w3
  t1 = t1
  t2 = t2
  NoTask = NoTask
  Workers = {w1, w2, w3}
  Tasks = {t1, t2}
INVARIANTS TasksKept NoLostWakeup WaitCovers OneLate
PROPERTY ReleaseReturns
