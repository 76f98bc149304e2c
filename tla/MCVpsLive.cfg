SPECIFICATION FairSpec
CONSTANTS
  u1 = u1
  Users = {u1}
  Ops = {"terminate", "reset"}
  MaxTerminates = 2
  MaxAttempts = 2
  Events = {"oci", "crash"}
  MaxFaults = 2
CHECK_DEADLOCK FALSE
PROPERTIES InProgressEnds TerminationEnds
