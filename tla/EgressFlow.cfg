\* Two writers racing with shutdown, timers and path MTU changes, and chains
\* of checkpoints and restores, with and without a gate, of short flows.
SPECIFICATION Spec
CONSTANTS
  Writers = {w1, w2}
  SniffLimit = 3
  MaxRounds = 2
  SndBuf = 4
  MaxSegs = 2
  MaxSaves = 4
INVARIANTS ClassifiedFirst HostSawTheStream StreamInOrder EOFDecides
  GateNeverLost CurrentGateApproved HeldNeverResumes
CONSTRAINT Envelope
SYMMETRY WriterSymmetry
CHECK_DEADLOCK FALSE
