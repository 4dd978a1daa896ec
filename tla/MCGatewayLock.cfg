SPECIFICATION FairSpec
CONSTANTS
  Procs = {"p0", "p1", "p2"}
  Ended = {"p0"}
  ConfigOf <- MCConfigOf
  Ports = {1, 2}
  Hosts = {"loopback", "other"}
  Nobody = "nobody"
INVARIANTS TypeOK
PROPERTIES SettledStays LoneStartSucceeds
CHECK_DEADLOCK FALSE
