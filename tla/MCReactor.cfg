SPECIFICATION FairSpec
CONSTANTS
  Clients = {k1, k2}
  MaxRequests <- OneBusy
  SndBuf = 1
  MayReset = {k1, k2}
  NFds = 2
  None = None
INVARIANTS OutputArmed NoRequestParked NoReplyLost
PROPERTIES RequestAnswered
CHECK_DEADLOCK FALSE
