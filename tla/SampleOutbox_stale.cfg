SPECIFICATION Spec
CONSTANTS
  Sample = {s1, s2}
  NoSample = none
  MaxFault = 1
  MaxEvent = 2
  ReplayOvertakes = FALSE
PROPERTY CompletedSampleSurvives
CHECK_DEADLOCK FALSE
