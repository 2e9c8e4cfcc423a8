\* gnum children as in the source; a pipe that is full after two commands.
\* The programs end, so deadlock is not checked: NobodyWaits says where they may.
SPECIFICATION ProcessesSpec
CONSTANTS
  N = 3
  Capacity = 2
  MaxServers = 2
  MaxTokens = 2
  Nums = 3
  PipeSize = 3
  THREAD_NUM = 4
  InitialTickets = 4
  NameCount = 5
  Lines <- SomeLines
  Inherited <- SomeEnvironment
  NameOf <- NameTable
  PipeBytes = 3
INVARIANTS TypesOK NoStrayWriter ThreadsRight RunsWithLatest AbortsOnlyIfCutOff
PROPERTIES NobodyWaits
CHECK_DEADLOCK FALSE
