SPECIFICATION Spec
CONSTANTS
  MAX_PERIODIC_MSGS = 2
  TimersMayFail = FALSE
  MaxIds = 1
INVARIANT ObjectOutlivesThread
CHECK_DEADLOCK FALSE
