SPECIFICATION Spec
CONSTANTS
  MaxGen = 2
  MaxRequests = 2
  MaxAttempts = 1
  MaxActive = 2
  MaxFaults = 1
  Clients = {c1, c2}
  Events = {"oci", "db", "disconnect", "vps"}
SYMMETRY Symmetry
INVARIANTS DependentsFirst RecordOutlivesVCN
PROPERTY DestroyingIsReverted
