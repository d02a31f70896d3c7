SPECIFICATION MCSpec
CONSTANTS
  c1 = c1
  c2 = c2
  l1 = l1
  l2 = l2
  m1 = m1
  m2 = m2
  m3 = m3
  None = None
  Clients = {c1, c2}
  Loopers = {l1, l2}
  Messages = {m1, m2, m3}
  Delays <- MCDelays
  MaxTime = 0
  Handlers = {"first", "second"}
  Runners = {c1, c2}
  NoThread = NoThread
  MaxNodes = 5
SYMMETRY Symmetric
INVARIANTS QueueOrdered LooperOwned MessagesKept RemovedBySelf
PROPERTY RunsAll
CHECK_DEADLOCK FALSE
