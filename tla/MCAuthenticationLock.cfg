SPECIFICATION Spec
CONSTANTS
  Clients = {c1}
  Emails = {e1}
  AttemptLimits = {2}
  Lockout = 2
  MaxTime = 3
PROPERTY LocksAtMaximum
CHECK_DEADLOCK FALSE
