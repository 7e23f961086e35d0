SPECIFICATION Spec
CONSTANTS
  Calls = {c1, c2, c3}
  URLs = {u1, u2}
  Limit = 1
  RetryFailedAfter = 1
  MaxTime = 2
  None = None
SYMMETRY Interchangeable
\* every call of a behaviour may have returned
CHECK_DEADLOCK FALSE
INVARIANT ForeignCancellationHidden
