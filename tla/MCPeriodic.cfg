SPECIFICATION FairSpec
CONSTANTS
  MAX_PERIODIC_MSGS = 2
  TimersMayFail = TRUE
  MaxIds = 4
INVARIANTS
  TypeOK
  NoLostWakeup
PROPERTY EveryMessageIsSent
CHECK_DEADLOCK FALSE
