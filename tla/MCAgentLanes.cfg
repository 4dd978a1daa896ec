SPECIFICATION HangingSpec
CONSTANTS
  Runs <- MCRuns
  SessionOf <- MCSessionOf
  LaneParam <- MCLaneParam
  Jobs <- MCJobs
  RunOfJob <- MCRunOfJob
  Caps <- MCCaps
  MaxResets = 1
INVARIANTS OneRunPerSessionPerLifecycle DrainedMeansNoAgentRun
PROPERTIES RestartEnds
CHECK_DEADLOCK FALSE
