SPECIFICATION Spec
CONSTANTS
  u1 = u1
  u2 = u2
  Users = {u1, u2}
  Ops = {"terminate", "delete", "start", "stop", "restart", "reset"}
  MaxTerminates = 2
  MaxAttempts = 2
  Events = {"oci"}
  MaxFaults = 2
SYMMETRY Symmetry
INVARIANTS InProgressHasOwner SurvivorNeedsFaults
CHECK_DEADLOCK FALSE
