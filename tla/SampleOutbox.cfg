SPECIFICATION FairSpec
CONSTANTS
  Sample = {s1, s2}
  NoSample = none
  MaxFault = 2
  MaxEvent = 1
  ReplayOvertakes = FALSE
INVARIANT TypeOK
INVARIANT AnswersKept
INVARIANT UnnamedIsFiled
INVARIANT AnalysedIsAnalysed
INVARIANT CopiesBounded
PROPERTY EverySampleAnalysed
CHECK_DEADLOCK FALSE
