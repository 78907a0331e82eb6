\* Serve's result when the host just closes its end.
SPECIFICATION Safety
CONSTANTS
  Ids = {i1}
  MaxConnections = 1
  QueueDepth = 1
  HostCap = 1
  RelayCap = 1
  Plans <- HostClosurePlans
INVARIANT ServeNilOnHostClosure
CHECK_DEADLOCK FALSE
