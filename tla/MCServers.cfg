SPECIFICATION ServersSpec
CONSTANTS
  Users = {u1, u2, u3}
  NoUser = NoUser
  Capacity = 2
  Callers = {c1, c2}
  Requests <- SmallRequests
  NoRequest = NoRequest
  Spares = {1, 2}
  MaxInt = 1
  Talkers = {t1, t2}
  MaxConns = 3
  MaxAhead = 2
  Visitors = {v1, v2}
  Speakers = {s1, s2}
  Texts <- SmallTexts
  Room <- SmallRoom
  Nul = Nul
  Garbage = Garbage
  AfInet = AfInet
  Nobody = Nobody
  Guests = {g1, g2, g3}
  ListenSock = ListenSock
  Descriptors = 2
  MaxEvents = 2
INVARIANTS TypesOK SenderIncluded CalAnswersRight CalEndsOnlyByTrap ForkServed UdpSaid
PROPERTIES Answered
CHECK_DEADLOCK FALSE
