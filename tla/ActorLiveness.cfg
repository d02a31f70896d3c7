SPECIFICATION FairSpec
CONSTANTS
  a1 = a1
  e3 = e3
  c1 = c1
  e1 = e1
  e2 = e2
  None = None
  EmptyEvent = EmptyEvent
  Actives = {a1}
  Clients = {c1}
  Events = {e1, e2, e3}
  SignalOf <- OneSignal
  MaxActors = 1
  MaxStops = 2
PROPERTIES Dispatched StopReturns
CHECK_DEADLOCK FALSE
