SPECIFICATION Spec
CONSTANTS
  u1 = u1
  Users = {u1}
  Ops = {"terminate", "refresh"}
  MaxTerminates = 1
  MaxAttempts = 2
  Events = {"oci", "db", "crash"}
  MaxFaults = 3
CHECK_DEADLOCK FALSE
INVARIANTS TypeOK OrphanNeedsFault NSGLeakNeedsFault
