SPECIFICATION Spec
CONSTANTS
  MAX_FLOW_FILTERS = 3
  MAX_FC_SESSIONS = 2
  Requests <- SomeRequests
  Frames <- SomeFrames
  Messages <- SomeMessages
  MaxFilters = 4
  MaxFrames = 4
INVARIANTS
  FiltersAreThoseStarted
  FiltersApart
  AssembledToExpectedLength
CHECK_DEADLOCK FALSE
