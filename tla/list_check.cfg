SPECIFICATION FairSpec
CONSTANTS
  URLs <- MCURLs
  Norm <- MCNorm
  Blacklisted <- MCBlacklisted
  MaxURLsInRequest = 3
  MaxSize = 4
  None = None
INVARIANTS
  AnsweredAtMostOnce
  CompleteIsComplete
  VerdictShared
  StreamAnswersTogether
  NoSendAfterClose
  SelectIsServed
  IndInv
PROPERTIES
  KeepsPromise
  StepsRunOut
  CompleteLeavesNothing
  RequestEnds
\* a request ends, and with it the behaviour
CHECK_DEADLOCK FALSE
