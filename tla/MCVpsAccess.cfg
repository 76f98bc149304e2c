SPECIFICATION Spec
CONSTANTS
  c1 = c1
  c2 = c2
  Clients = {c1, c2}
  Kinds = {"reset", "refresh", "firewall"}
  Early = {"reset", "refresh"}
  MaxRequests = 2
  MaxRefreshes = 1
  MaxAttempts = 2
  MaxCrashes = 1
  MaxLaunches = 2
SYMMETRY Symmetry
CHECK_DEADLOCK FALSE
INVARIANTS CredentialsArrive EntryMatches PasswordMatches FirewallAsAsked
PROPERTY CredentialsOfLatest CredentialsAreKept
