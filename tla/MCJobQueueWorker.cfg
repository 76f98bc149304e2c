SPECIFICATION Spec
CONSTANTS
  MaxJobs = 1
  MaxAttempts = 3
  MaxFaults = 0
  Faults = {"delete"}
INVARIANTS
  WorkerSurvives
CHECK_DEADLOCK FALSE
