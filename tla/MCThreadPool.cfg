SPECIFICATION ProgramSpec
CONSTANTS
  Pushers = {p1, p2}
  Workers = {w1, w2}
  Tasks = {t1, t2, t3}
  NoTask = NoTask
  NoThread = NoThread
  Early = {p1}
INVARIANTS NoLostWakeup OnePool
PROPERTIES ImplementsFifo TasksRun CallsReturn
