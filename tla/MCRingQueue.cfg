SPECIFICATION FairSpec
CONSTANTS
  Producers = {p1, p2}
  Consumers = {c1, c2}
  Values = {v1, v2}
  NoValue = NoValue
  Num = 3
  NoThread = NoThread
INVARIANTS NoSlotRace
PROPERTIES ImplementsBoundedFifo Flow
