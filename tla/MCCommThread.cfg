SPECIFICATION FairSpec
CONSTANTS
  app1 = app1
  app2 = app2
  Openers <- TwoApps
  Names <- DeviceNames
  Registered <- KnownNames
  CreateEventMayFail = TRUE
  MaxOpens = 2
  MaxTraffic = 2
INVARIANTS
  OpenMeansConnected
  PortMatchesConnected
  NeverDeaf
PROPERTIES
  EveryOpenReturns
  ExitIsServed
CHECK_DEADLOCK FALSE
