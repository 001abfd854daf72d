SPECIFICATION Spec
CONSTANTS
  c1 = c1
  c2 = c2
  c3 = c3
  Channels = {c1, c2, c3}
  Kind <- SomeKinds
  Messages = {"m1", "m2", "m3"}
  Refused = {"m3"}
  Intercepted = {"m2"}
  Batches <- SomeBatches
  ParamLists <- SomeLists
  MAX_J2534_MESSAGES = 2
  MaxCalls = 4
INVARIANTS
  ReportsMatchTheWire
  AdapterFollowsConnect
CHECK_DEADLOCK FALSE
