SPECIFICATION Spec
CONSTANTS
  Lanes <- MCLanes
  Entries <- MCEntries
  LaneOf <- MCLaneOf
  Inner <- MCInner
  Eager <- MCEager
  Caps <- MCCaps
  Configured = {"main"}
  NoEntry = "none"
  MaxResets = 1
INVARIANTS TypeOK QueuedExactlyOnce SlotsMatchRuns NoStrandedWork DrainFlagReleased
PROPERTIES StartsWithinCap LedgerSpec
CHECK_DEADLOCK FALSE
