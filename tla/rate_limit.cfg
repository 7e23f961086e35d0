SPECIFICATION Spec
CONSTANTS
  Calls = {c1, c2, c3}
  Domains = {d1, d2}
  Interval = 1
  MaxTime = 3
  None = None
SYMMETRY Interchangeable
INVARIANT TurnsAreSpaced
CHECK_DEADLOCK FALSE
