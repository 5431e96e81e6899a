SPECIFICATION FairSpec
CONSTANTS
  Prompt = {p1}
  NoPrompt = none
  MaxStalled = 1
  MaxStarts = 1
  MaxCrash = 0
  MaxShutdown = 0
  MaxCancel = 0
  MaxRetry = 0
  MaxFault = 1
  MaxQueueFault = 0
  MaxEvent = 1
  PassOvertaken = FALSE
PROPERTY EverySampleSettles
CHECK_DEADLOCK FALSE
