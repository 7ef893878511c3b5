SPECIFICATION Spec
CONSTRAINTS
  ParentSideAtRest
  SmallerCases
  OffersAlone
CHECK_DEADLOCK FALSE
CONSTANTS
  c1 = c1
  c2 = c2
  Consumer <- TwoConsumers
  MaxTasks = 2
  MaxJobs = 3
  MaxNotes = 2
  MaxRuns = 2
  MaxStops = 1
INVARIANTS
  TypeOK
  OutcomesReturnOnce
  ShowsWhatIsOpen
  NotesAreKept
PROPERTIES
  StopEndsTheTurn
