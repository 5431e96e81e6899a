SPECIFICATION AgentSpec
CONSTANTS
  N = 3
  SendErrors = {"local", "network", "crash", "challenge", "expired"}
  ReadErrors = {"unread", "incomplete", "plain", "network", "crash", "challenge", "expired"}
  MaxStoreFault = 1
  Task = {t1, t2, t3, t4}
  Limit = 2
  Parts = 2
  StableFor = 3
  OverviewFor = 4
  ForceFor = 5
  MaxWait = 7
  Tries = 2
INVARIANTS
  AgentTypeOK
  NoLostWakeup
  FreshBaseline
  SendsBounded
  Accounted
  WholeUnlessResumed
PROPERTIES
  WaiterRuns
  ImplementsPool
  CompletedNotAskedAgain
  RereadBeforeResend
  MovingRunnerEnds
CHECK_DEADLOCK FALSE
