SPECIFICATION FairSpec
CONSTANTS
  Calls = {c1, c2}
  URLs = {u1}
  Limit = 1
  RetryFailedAfter = 1
  MaxTime = 2
  None = None
\* every call of a behaviour may have returned
CHECK_DEADLOCK FALSE
PROPERTIES
  CancelledCallsReturn
  CallsReturn
