SPECIFICATION Spec
CONSTANTS
  p1 = p1
  p2 = p2
  c1 = c1
  Publishers = {p1, p2}
  Clients = {c1}
  MaxHist = 2
  Buffer = 2
  MaxEvents = 4
INVARIANT FullLog
CHECK_DEADLOCK FALSE
