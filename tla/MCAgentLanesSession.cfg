SPECIFICATION Spec
CONSTANTS
  Runs <- MCRuns
  SessionOf <- MCSessionOf
  LaneParam <- MCLaneParam
  Jobs <- MCJobs
  RunOfJob <- MCRunOfJob
  Caps <- MCCaps
  MaxResets = 1
INVARIANTS OneRunPerSession
CHECK_DEADLOCK FALSE
