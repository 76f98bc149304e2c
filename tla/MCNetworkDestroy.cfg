SPECIFICATION Spec
CONSTANTS
  MaxGen = 2
  MaxRequests = 2
  MaxAttempts = 2
  MaxActive = 2
  MaxFaults = 1
  Clients = {c1}
  Events = {"oci", "db", "crash", "disconnect"}
INVARIANTS IInv
