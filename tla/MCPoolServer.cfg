SPECIFICATION ServerFairSpec
CONSTANTS
  Pushers = {main}
  Workers = {w1, w2}
  Tasks = {k1, k2}
  NoTask = NoTask
  NoThread = NoThread
  Early = {main}
  MayReset = {k1}
INVARIANTS SocketOwned AnsweredIfSpoke
PROPERTIES Served
CHECK_DEADLOCK FALSE
