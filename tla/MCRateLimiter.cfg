SPECIFICATION LimiterSpec
CONSTANTS
  Callers = {c1, c2, c3}
  Keys = {k1, k2}
  Limit = 1
  Window = 2
  MaxClock = 6
SYMMETRY MCSymmetry
INVARIANTS WindowBudget
PROPERTY RetryHonoured
