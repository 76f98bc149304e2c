SPECIFICATION Spec
CONSTANTS
  Clients = {c1, c2, c3}
  Emails = {e1, e2}
  AttemptLimits = {1, 2}
  Lockout = 2
  MaxTime = 4
SYMMETRY MCSymmetry
INVARIANTS OneAdmin CounterForgets
PROPERTY LockIsKept
