SPECIFICATION FairSpec
CONSTANTS
  NMessages = 2
  BestEffort = {2}
  Watched = {2}
  Scanners = {"r1"}
  MaxRetries = 2
  CountBound = 3
  MaxFaults = 1
INVARIANTS KeptUntilSettled AttemptsWithinBudget
PROPERTIES SettledIsFinal PendingSettles
CHECK_DEADLOCK FALSE
