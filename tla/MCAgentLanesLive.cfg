SPECIFICATION FairSpec
CONSTANTS
  Runs <- SmallRuns
  SessionOf <- SmallSessionOf
  LaneParam <- SmallLaneParam
  Jobs <- MCJobs
  RunOfJob <- MCRunOfJob
  Caps <- MCCaps
  MaxResets = 1
PROPERTIES AcceptedWorkSettles
CHECK_DEADLOCK FALSE
