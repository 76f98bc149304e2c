SPECIFICATION Spec
CONSTANTS
  u1 = u1
  u2 = u2
  Users = {u1, u2}
  Ops = {"terminate", "reset"}
  MaxTerminates = 1
  MaxAttempts = 2
  Events = {}
  MaxFaults = 0
CHECK_DEADLOCK FALSE
PROPERTY TerminatedIsFinal
