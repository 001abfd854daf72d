SPECIFICATION Spec
CONSTANTS
  app1 = app1
  app2 = app2
  Apps <- OneApp
  MAX_RX_BUFFER_SIZE = 3
  ULONG_RANGE = 1000
  Requests <- ManyRequests
  MaxMsgs = 7
INVARIANTS
  TypeOK
  IndicesAgree
  HoldsTheNewest
  ReaderNeverUnderruns
  OwnershipPassedOnce
  DeliveredInOrder
  OverflowReportMeansLoss
PROPERTY ImplementsFifo
