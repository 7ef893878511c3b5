SPECIFICATION Spec
CHECK_DEADLOCK FALSE
CONSTANTS
  t1 = t1
  w1 = w1
  NoTask = NoTask
  Task <- OneTask
  WorkerTask <- NoWorker
  MaxCalls = 0
  MaxProposals = 1
  MaxCrashes = 1
  LateSweep = FALSE
INVARIANTS
  CommandRunsOnce
