SPECIFICATION BrowserSpec
CONSTANTS
  BrowserTask = {b1, b2}
  NoTask = none
  MaxJob = 2
  MaxTry = 2
  MaxPageFault = 1
  Command = {c1, c2, c3}
  Stale = 1
  MaxKill = 1
  MaxLogin = 2
  MaxLoginKill = 1
  MaxReset = 1
  Overlaps = FALSE
INVARIANTS
  BrowserTypeOK
  SingleBrowser
  LeaseExact
  PageIsMine
  EnsuredIsReady
  LaunchedAsSaved
PROPERTY JobEnds
CHECK_DEADLOCK FALSE
