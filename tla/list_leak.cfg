SPECIFICATION FairSpec
CONSTANTS
  URLs <- MCURLs
  Norm <- MCNorm
  Blacklisted <- MCBlacklisted
  MaxURLsInRequest = 0
  MaxSize = 3
  None = None
\* a request ends, and with it the behaviour
CHECK_DEADLOCK FALSE
PROPERTY DisconnectAbortsProcessing
