\* One connection: pumps with a host that reads; shutdown with everyone stalled.
SPECIFICATION Spec
CONSTANTS
  Ids = {i1}
  MaxConnections = 1
  QueueDepth = 1
  HostCap = 1
  RelayCap = 1
  Plans <- LivenessPlans
PROPERTIES HalfCloseComplete ConnectionsRetire ShutdownStops
CHECK_DEADLOCK FALSE
