SPECIFICATION FairSpec
CONSTANTS
  Provider = {doubao, qwen}
  Batches = 2
  Spacing = 1
  DailyLimit = 1
  MaxOverdue = 0
  StartQuarter = 3
  MaxTrouble = 1
INVARIANTS
  TypeOK
  OneBatchAtATime
  WithinDailyLimit
PROPERTY EveryBatchEnds
