SPECIFICATION Spec
CONSTANTS
  MaxGen = 2
  MaxRequests = 1
  MaxAttempts = 2
  MaxActive = 2
  MaxFaults = 1
  Clients = {}
  Events = {"crash"}
INVARIANTS ReadyHasSubnet
CHECK_DEADLOCK FALSE
