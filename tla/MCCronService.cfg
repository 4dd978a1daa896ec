SPECIFICATION Spec
CONSTANTS
  Jobs = {"r", "o"}
  KindOf <- MCKindOf
  AtTime <- MCAtTime
  Concurrency = 1
  MaxMissed = 1
  StuckAfter = 1
  MaxTime = 2
  MaxServices = 2
  MaxOps = 2
  MaxFaults = 1
INVARIANTS TypeOK OneRunPerJob NeverAsleep
PROPERTIES DueNeverSkipped
CONSTRAINT LessForTwo
CHECK_DEADLOCK FALSE
