SPECIFICATION MCFairSpec
CONSTANTS
  c1 = c1
  c2 = c2
  l1 = l1
  l2 = l2
  l3 = l3
  m1 = m1
  m2 = m2
  None = None
  Clients = {c1, c2}
  Loopers = {l1, l2, l3}
  Messages = {m1, m2}
  Delays <- NoDelay
  MaxTime = 1
  Waiters = {"t1", "t2", "t3"}
  MaxItems = 3
INVARIANT WaitersCalled
PROPERTIES Delivered StopReturns WaitsEnd
CHECK_DEADLOCK FALSE
