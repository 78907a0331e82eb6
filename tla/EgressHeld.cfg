\* A held flow that fails before the checkpoint is not restored as terminated.
SPECIFICATION Spec
CONSTANTS
  Writers = {w1}
  SniffLimit = 2
  MaxRounds = 2
  SndBuf = 1
  MaxSegs = 1
  MaxSaves = 2
INVARIANT HeldIsTerminated
CHECK_DEADLOCK FALSE
