SPECIFICATION FairSpec
CONSTANTS
  Sample <- TwoProviders
  LossOps = {}
  MaxLoss = 0
  MaxCrash = 1
  MaxRetry = 0
PROPERTY EverySampleSettles
