\* Two channels and no other call: the gofer dies while StartChannels runs.
SPECIFICATION Safety
CONSTANTS
  Mounter = m
  Creators = {c1, c2}
  FDClosers = {}
  Chans = {1, 2}
  BatchSize = 2
  None = None
INVARIANT NoneAvailableAfterShutdown
CHECK_DEADLOCK FALSE
