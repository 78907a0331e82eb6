\* A pod of a root container and one more, started or restored.
SPECIFICATION Spec
CONSTANTS
  Root = root
  a = a
  b = b
  Subs = {a, b}
  Waiters = {w}
  Plans <- LoaderPlans
  None = None
INVARIANTS StoppedIsDead GateKept
PROPERTIES DeadGoferKills NothingHangs
CHECK_DEADLOCK FALSE
