SPECIFICATION Spec
CONSTANTS
  a1 = a1
  a2 = a2
  c1 = c1
  c2 = c2
  r1 = r1
  r2 = r2
  Admins = {a1, a2}
  Callers = {c1, c2}
  Regions = {r1, r2}
  MaxSaves = 3
  MaxRestarts = 1
SYMMETRY Symmetry
CHECK_DEADLOCK FALSE
INVARIANTS RowIsPaired ClientsAgree
