SPECIFICATION Spec
CONSTRAINTS
  PidsInOrder
  OneShutdown
CHECK_DEADLOCK FALSE
CONSTANTS
  Pid <- ThreePids
  MaxProcs = 4
  MaxInstances = 2
  MaxStrangers = 1
  ReuseInGrace = FALSE
INVARIANTS
  TypeOK
  RegisteredStaysRecorded
  LiveOwnersAreLeftAlone
  OnlyTheRecordedIsSignalled
PROPERTIES
  SweepEndsWhatIsDue
