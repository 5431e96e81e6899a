SPECIFICATION Spec
CONSTANTS
  Prompt = {p1, p2}
  NoPrompt = none
  MaxStalled = 1
  MaxStarts = 2
  MaxCrash = 1
  MaxShutdown = 1
  MaxCancel = 0
  MaxRetry = 1
  MaxFault = 1
  MaxQueueFault = 1
  MaxEvent = 2
  PassOvertaken = FALSE
INVARIANT TypeOK
PROPERTY CompletedStays
PROPERTY CompletedNotAsked
CHECK_DEADLOCK FALSE
SYMMETRY PromptSymmetry
