SPECIFICATION FairSpec
CONSTANTS
  MaxRuns = 2
  MaxAttempts = 1
  MaxRequests = 4
INVARIANTS TypeOK OneRunPerAccount StoppedStaysStopped MarkedOnlyIfStopped
PROPERTIES WantedComesBack StopEnds
CHECK_DEADLOCK FALSE
