SPECIFICATION FairSpec
CONSTANTS
  Calls = {c1, c2}
  Options <- MCOptions
  Codes <- MCCodes
  Proxies = {p1}
  HttpProxies = {p1}
  NoProxy = NoProxy
  None = None
  Limits = {0, 1}
  BufferSize = 2
  MaxBody = 3
INVARIANTS
  SearchesUpToLimit
  HoldsLittleMore
  OutgoingAddsUp
  TraceExplainsResult
  OwnProxyOnly
  IndInv
PROPERTIES
  NoNeedlessRequest
  ChainNeverTurnsBack
  KeepsPromise
  CheckReturns
\* the calls of a behaviour return
CHECK_DEADLOCK FALSE
