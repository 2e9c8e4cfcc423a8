\* The comment of UdpServer.hpp:162, which does not hold.
SPECIFICATION FairSpec
CONSTANTS
  Users = {u1, u2}
  NoUser = NoUser
  Capacity = 2
INVARIANTS OnlineUserProtected
