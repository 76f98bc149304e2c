SPECIFICATION Spec
CONSTANTS
  u1 = u1
  Users = {u1}
  Ops = {}
  MaxTerminates = 0
  MaxAttempts = 2
  Events = {"oci"}
  MaxFaults = 4
CHECK_DEADLOCK FALSE
INVARIANT RolledBackIsGone
