\* Two wakers, two asserting goroutines, two sleepers used in turn.
SPECIFICATION Spec
CONSTANTS
  Wakers = {w1, w2}
  Threads = {t1, t2}
  Sleepers = {1, 2}
  Nil = Nil
  Asserted = Asserted
INVARIANTS QueuedOnce ReadiesParked
PROPERTIES FetchReturns DoneReturns
CHECK_DEADLOCK FALSE
