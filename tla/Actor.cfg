SPECIFICATION Spec
CONSTANTS
  a1 = a1
  a2 = a2
  c1 = c1
  c2 = c2
  e1 = e1
  e2 = e2
  None = None
  EmptyEvent = EmptyEvent
  Actives = {a1, a2}
  Clients = {c1, c2}
  Events = {e1, e2}
  SignalOf <- OneSignal
  MaxActors = 2
  MaxStops = 1
SYMMETRY Symmetric
INVARIANTS OrderAgrees EventsKept
CHECK_DEADLOCK FALSE
