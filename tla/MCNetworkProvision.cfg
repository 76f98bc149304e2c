SPECIFICATION FairSpec
CONSTANTS
  MaxGen = 4
  MaxRequests = 3
  MaxAttempts = 2
  MaxActive = 2
  MaxFaults = 2
  Clients = {}
  Events = {"oci", "crash"}
INVARIANTS TypeOK UntrackedNeedsFault ReadyIsRouted AbandonedIsHeld DeadSubnetIsMarked
PROPERTY ProvisioningEnds
