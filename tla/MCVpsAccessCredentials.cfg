SPECIFICATION Spec
CONSTANTS
  c1 = c1
  Clients = {c1}
  Kinds = {}
  Early = {}
  MaxRequests = 1
  MaxRefreshes = 1
  MaxAttempts = 2
  MaxCrashes = 0
  MaxLaunches = 2
SYMMETRY Symmetry
CHECK_DEADLOCK FALSE
INVARIANT CredentialsOfInstance
