SPECIFICATION Spec
CONSTANTS
  MAX_FLOW_FILTERS = 10
  MAX_FC_SESSIONS = 16
  Requests <- SomeRequests
  Frames <- SomeFrames
  Messages <- SomeMessages
  MaxFilters = 4
  MaxFrames = 3
INVARIANT AssembledToAnnouncedLength
CHECK_DEADLOCK FALSE
