SPECIFICATION Spec
CONSTANTS
  c1 = c1
  c2 = c2
  Clients = {c1, c2}
  Kinds = {"firewall"}
  Early = {"firewall"}
  MaxRequests = 2
  MaxRefreshes = 1
  MaxAttempts = 2
  MaxCrashes = 0
  MaxLaunches = 2
SYMMETRY Symmetry
CHECK_DEADLOCK FALSE
INVARIANT FirewallAsAsked
