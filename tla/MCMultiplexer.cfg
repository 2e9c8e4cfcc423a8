SPECIFICATION FairSpec
CONSTANTS
  Clients = {k1, k2, k3}
  NoClient = NoClient
  Slots <- MCSlots
  Limit <- MCLimit
INVARIANTS NeverBlocks TablesAgree
PROPERTIES Served Answered
CHECK_DEADLOCK FALSE
