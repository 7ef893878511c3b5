SPECIFICATION Spec
CHECK_DEADLOCK FALSE
CONSTANTS
  t1 = t1
  w1 = w1
  NoTask = NoTask
  Task <- WithWorker
  WorkerTask <- OnlyWorker
  MaxCalls = 1
  MaxProposals = 1
  MaxCrashes = 2
  LateSweep = TRUE
INVARIANTS
  TypeOK
  OnlySafeTasksAreResumed
  RecoveredOnce
  EveryOpenTaskIsOffered
PROPERTIES
  EndedAndLiveAreLeftAlone
  SweepCountsEveryLostCall
  CrashedTaskIsSettledOrOffered
CONSTRAINTS
  OneAsks
  PatchesAlone
  OneCalls
