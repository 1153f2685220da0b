SPECIFICATION FairSpec
CONSTANTS
  Worker = {w1, w2, w3}
  Client = {c1, c2}
  Owner = o
  MaxTasks = 3
INVARIANT NoLostWakeup
PROPERTIES ImplementsService TasksFinish DestructorReturns
CHECK_DEADLOCK FALSE
