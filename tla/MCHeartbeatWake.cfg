SPECIFICATION FairSpec
CONSTANTS
  Agents = {"a"}
  AnyAgent = "any"
  MaxRequests = 1
  MaxRunners = 2
  MaxSettings = 1
  MaxBatches = 2
INVARIANTS TypeOK NoStrandedWake OneBatchAtATime ChainUnbroken
PROPERTIES DueAgentRuns EventWakeHandled
CHECK_DEADLOCK FALSE
