SPECIFICATION ControlSpec
CONSTANTS
  Sample <- OneProvider
  LossOps = {"claim", "attempt", "sample", "complete"}
  MaxLoss = 1
  MaxCrash = 0
  MaxRetry = 1
  Cadence = {2, 3}
  Pass = {w1, w2}
  Editor = {e1}
  MaxClock = 4
  MaxSave = 2
  PlanProvider = {q1, q2}
  PlanLimit = 2
  MaxPrompts = 5
  MaxRounds = 3
  MaxDone = 3
  Repeats = {1, 7}
INVARIANTS
  ControlTypeOK
  
  StartedOnceUnlessBelated
  PlanIsSound
PROPERTY RemoteSamplesSettle
CHECK_DEADLOCK FALSE
