SPECIFICATION FairSpec
CONSTANTS
  Prompt = {p1}
  NoPrompt = none
  MaxStalled = 1
  MaxStarts = 1
  MaxCrash = 1
  MaxShutdown = 1
  MaxCancel = 1
  MaxRetry = 1
  MaxFault = 0
  MaxQueueFault = 0
  MaxEvent = 2
  PassOvertaken = FALSE
INVARIANT NotStranded
INVARIANT CancelNotLost
PROPERTY EverySampleSettles
PROPERTY RunStatusConverges
CHECK_DEADLOCK FALSE
