SPECIFICATION Spec
CONSTANTS
  Checks = {c1, c2}
  Hosts = {h1, h2}
  NoAddress = NoAddress
  Unresolved = Unresolved
  Torn = Torn
  None = None
  MaxLookups = 2
SYMMETRY Interchangeable
INVARIANT OnlyFailuresCounted
\* the checks of a behaviour return
CHECK_DEADLOCK FALSE
