SPECIFICATION FairSpec
CONSTANTS
  Jobs = {"r", "o"}
  KindOf <- MCKindOf
  AtTime <- MCAtTime
  Concurrency = 2
  MaxMissed = 1
  StuckAfter = 2
  MaxTime = 2
  MaxServices = 1
  MaxOps = 0
  MaxFaults = 0
PROPERTIES OthersGoOn
CHECK_DEADLOCK FALSE
