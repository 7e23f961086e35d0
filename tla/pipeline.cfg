SPECIFICATION Spec
CONSTANTS
  Calls = {c1, c2, c3}
  URLs = {u1}
  Limit = 1
  RetryFailedAfter = 1
  MaxTime = 2
  None = None
SYMMETRY Interchangeable
INVARIANTS
  TokensAreHeld
  FailuresAreRecent
  OnlyCancelledLeaveGoroutines
  FullGuardIsFreed
PROPERTIES
  KeepsPromise
  GoesBackByOverlapOnly
\* every call of a behaviour may have returned
CHECK_DEADLOCK FALSE
