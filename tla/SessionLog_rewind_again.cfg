SPECIFICATION Spec
CONSTANTS
  shell = shell
  driver = driver
  Proc <- MCProc
  MaxBatch = 2
  MaxSeq = 4
  MaxTears = 0
  MaxOld = 0
INVARIANTS
  RewoundIsInert
