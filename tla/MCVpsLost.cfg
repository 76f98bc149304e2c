SPECIFICATION Spec
CONSTANTS
  u1 = u1
  u2 = u2
  Users = {u1, u2}
  Ops = {"stop", "refresh", "restart"}
  MaxTerminates = 1
  MaxAttempts = 3
  Events = {"crash"}
  MaxFaults = 1
SYMMETRY Symmetry
CHECK_DEADLOCK FALSE
INVARIANT NSGLeakNeedsFault
