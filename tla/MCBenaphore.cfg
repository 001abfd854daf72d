SPECIFICATION FairSpec
CONSTANTS
  app1 = app1
  app2 = app2
  comm = comm
  periodic1 = periodic1
  periodic2 = periodic2
  Threads <- FiveThreads
INVARIANTS
  TypeOK
  MutualExclusion
  NoLostRelease
  WaiterIsOwedWakeup
  NoStaleWakeup
PROPERTY ImplementsMutex
PROPERTY EveryWaiterServed
