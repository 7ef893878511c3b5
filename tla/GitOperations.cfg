CONSTANTS
  f1 = f1
  f2 = f2
  main = main
  topic = topic
  p1 = p1
  File <- TwoFiles
  Branch <- TwoBranches
  Prep <- OnePrep
  Main = main
  MaxContent = 2
  MaxCommits = 3
  Grown = 2
  MaxSteps = 4
  MaxCrashes = 1
SPECIFICATION Spec
INVARIANTS
  TypeOK
  CommitIsWhatWasReviewed
  StagedWorkStays
  MutationRunsOnce
PROPERTIES
  HistoryIsKept
CHECK_DEADLOCK FALSE
