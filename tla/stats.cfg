SPECIFICATION Spec
CONSTANTS
  Checks = {c1, c2}
  Domains = {d1, d2}
  Blacklisted = {d2}
  Codes = {"404", "528"}
  MaxRequests = 3
INVARIANT TotalsMatchDomains
INVARIANT RequestsAccounted
INVARIANT ReplyIsPast
PROPERTY ReplyIsFrozen
\* the checks of a behaviour end
CHECK_DEADLOCK FALSE
