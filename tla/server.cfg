SPECIFICATION Spec
CONSTANTS
  Requests = {r1, r2}
  Clients = {a, b}
  Proxies = {p}
  Configurations <- Options
  Traffic <- MCTraffic
  Rate = 2
  MaxArrivals = 4
  None = None
SYMMETRY Interchangeable
INVARIANTS
  AdmittedWithinRate
  GuardedAsConfigured
  OpenRoutesAnswer
  StreamsAmongRequests
PROPERTY RefusedAtRateOnly
\* the arrivals of a behaviour end
CHECK_DEADLOCK FALSE
