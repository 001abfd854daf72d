SPECIFICATION FairSpec
CONSTANTS
  MAX_PERIODIC_MSGS = 2
  TimersMayFail = FALSE
  MaxIds = 1
PROPERTY StoppedThreadExits
CHECK_DEADLOCK FALSE
