SPECIFICATION Spec
CONSTANTS
  Clients = {k1, k2}
  MaxRequests <- OneEach
  SndBuf = 1
  MayReset = {k1}
  NFds = 2
  None = None
INVARIANTS EnableReadWriteSucceeds
CHECK_DEADLOCK FALSE
