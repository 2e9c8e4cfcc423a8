\* The comment of Daemon.hpp:21, which does not hold.
SPECIFICATION CalSpec
CONSTANTS
  Callers = {c1, c2}
  Requests <- Sums
  NoRequest = NoRequest
  Spares = {2}
  MaxInt = 1
INVARIANTS StdioRedirected
CHECK_DEADLOCK FALSE
