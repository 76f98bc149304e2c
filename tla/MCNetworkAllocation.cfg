SPECIFICATION Spec
CONSTANTS
  Clients = {c1, c2, c3}
  MaxNetworks = 3
  MaxIds = 6
SYMMETRY MCSymmetry
INVARIANTS LimitPassedOnlyByOverlap
PROPERTY SharedOnlyByOverlap
CHECK_DEADLOCK FALSE
