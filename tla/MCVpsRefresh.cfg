SPECIFICATION Spec
CONSTANTS
  u1 = u1
  Users = {u1}
  Ops = {"refresh"}
  MaxTerminates = 1
  MaxAttempts = 2
  Events = {}
  MaxFaults = 0
CHECK_DEADLOCK FALSE
PROPERTY KeyIsKept
