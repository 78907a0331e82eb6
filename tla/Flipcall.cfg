\* Two datagrams each way; two threads call Shutdown on one side, one on the
\* other.
SPECIFICATION Spec
CONSTANTS
  MaxMsgs = 2
  ClientClosers = {k1, k2}
  ServerClosers = {k1}
INVARIANTS OneInControl DatagramIsNext OnlyShutdownErrors LateCallsFail
PROPERTIES ControlArrives ShutdownUnblocks
CHECK_DEADLOCK FALSE
