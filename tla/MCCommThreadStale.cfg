SPECIFICATION Spec
CONSTANTS
  app1 = app1
  app2 = app2
  Openers <- OneApp
  Names <- DeviceNames
  Registered <- KnownNames
  CreateEventMayFail = FALSE
  MaxOpens = 2
  MaxTraffic = 0
INVARIANT AnswerIsFresh
CHECK_DEADLOCK FALSE
