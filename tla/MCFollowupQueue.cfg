SPECIFICATION FairSpec
CONSTANTS
  NMessages = 3
  RouteOf <- MCRouteOf
  Queues = {"q1", "q2"}
  NoQueue = "none"
  Cap = 2
  Policies = {"summarize", "old", "new"}
  Modes = {"collect", "followup"}
  MaxChanges = 1
INVARIANTS TypeOK LossOnlyByRaces AnsweredOnce NoIdleBacklog
PROPERTIES AnsweredInOrder EveryMessageHandled
CHECK_DEADLOCK FALSE
