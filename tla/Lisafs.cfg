\* A mount, two channels and two FDs; the gofer may crash, Close may come early.
SPECIFICATION Spec
CONSTANTS
  Mounter = m
  Creators = {c1, c2}
  FDClosers = {f1, f2}
  Chans = {1, 2}
  BatchSize = 2
  None = None
INVARIANTS ChannelUse ClosedOnce
PROPERTIES RPCSpec CallsReturn
CHECK_DEADLOCK FALSE
