\* One ID opened twice; two IDs competing for one connection while everything fails.
SPECIFICATION Safety
CONSTANTS
  Ids = {i1, i2}
  MaxConnections = 1
  QueueDepth = 1
  HostCap = 1
  RelayCap = 1
  Plans <- SafetyPlans
INVARIANTS ReuseIsSafe ErrorsAreTheHosts QuietAfterReturn LiveBounded
PROPERTY ProtocolSpec
SYMMETRY IdSymmetry
CHECK_DEADLOCK FALSE
