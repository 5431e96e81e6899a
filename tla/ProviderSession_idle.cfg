SPECIFICATION Spec
CONSTANTS
  BrowserTask = {t1, t2}
  NoTask = none
  MaxJob = 2
  MaxTry = 2
  MaxPageFault = 0
PROPERTIES
  IdleSparesLease
CHECK_DEADLOCK FALSE
