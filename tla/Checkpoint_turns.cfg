SPECIFICATION Spec
SYMMETRY CheckpointSymmetry
CONSTRAINT SmallerCases
CHECK_DEADLOCK FALSE
CONSTANTS
  a = a
  b = b
  t1 = t1
  t2 = t2
  p1 = p1
  NoTask = NoTask
  NoPatch = NoPatch
  File <- TwoFiles
  Task <- TwoTasks
  Patch <- OnePatch
  MaxContent = 3
  MaxUserSteps = 1
  MaxRequests = 3
  MaxFaults = 1
INVARIANTS
  TypeOK
  TurnIsOnRecord
PROPERTIES
  TurnCanBeTakenBack
  UnseenWorkIsKept

