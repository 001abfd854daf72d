SPECIFICATION Spec
CONSTANTS
  app1 = app1
  app2 = app2
  Apps <- TwoApps
  MAX_RX_BUFFER_SIZE = 2
  ULONG_RANGE = 1000
  Requests <- SomeRequests
  MaxMsgs = 3
INVARIANT OwnershipPassedOnce
