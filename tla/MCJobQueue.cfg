SPECIFICATION FairSpec
CONSTANTS
  MaxJobs = 2
  MaxAttempts = 3
  MaxFaults = 2
  Faults = {"crash", "store", "delete"}
INVARIANTS IInv FailedIsRolledBack FirstRunsInOrder
PROPERTIES FinishedIsFinal ImplementsWorkQueue JobsFinish
CHECK_DEADLOCK FALSE
