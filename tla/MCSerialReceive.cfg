SPECIFICATION FairSpec
CONSTANTS
  MAX_COLLECTION_BUF_SIZE = 14
  MAX_READ_BUF_SIZE = 5
  Lines <- SomeLines
  MaxLines = 2
INVARIANTS
  LinesDoNotDependOnReads
  MessagesArriveAsSent
PROPERTY EveryByteIsRead
CHECK_DEADLOCK FALSE
