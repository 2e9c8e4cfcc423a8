SPECIFICATION FairSpec
CONSTANTS
  Clients = {k1, k2, k3}
  MaxRequests <- OneSilent
  SndBuf = 1
  MayReset = {k2}
  NFds = 1
  None = None
INVARIANTS TablesAgree SenderHasOutput NoLostEdge RepliesInOrder
PROPERTIES RequestAnswered
CHECK_DEADLOCK FALSE
