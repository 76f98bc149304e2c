SPECIFICATION Spec
CONSTANTS
  MaxGen = 2
  MaxRequests = 1
  MaxAttempts = 2
  MaxActive = 2
  MaxFaults = 0
  Clients = {c1}
  Events = {}
PROPERTIES DestroyedLeavesNothing
CHECK_DEADLOCK FALSE
