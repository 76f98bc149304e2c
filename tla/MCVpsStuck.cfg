SPECIFICATION Spec
CONSTANTS
  u1 = u1
  Users = {u1}
  Ops = {"terminate"}
  MaxTerminates = 1
  MaxAttempts = 2
  Events = {"crash"}
  MaxFaults = 1
CHECK_DEADLOCK FALSE
INVARIANT TerminatingHasOwner
