SPECIFICATION Spec
CONSTANTS
  NMessages = 3
  RouteOf <- MCRouteOf
  Queues = {"q1", "q2"}
  NoQueue = "none"
  Cap = 2
  Policies = {"summarize"}
  Modes = {"collect"}
  MaxChanges = 0
INVARIANTS NothingLost
CHECK_DEADLOCK FALSE
