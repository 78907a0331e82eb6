\* An exec between the reload of the kernel and its start.
SPECIFICATION Spec
CONSTANTS
  Root = root
  a = a
  b = b
  Subs = {a, b}
  Waiters = {w}
  Plans <- LoaderPlans
  None = None
INVARIANT StartedOnce
CHECK_DEADLOCK FALSE
