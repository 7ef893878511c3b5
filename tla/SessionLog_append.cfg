SPECIFICATION Spec
SYMMETRY MCSymmetry
CONSTRAINT TwoPoints
CONSTANTS
  shell = shell
  driver = driver
  Proc <- MCProc
  MaxBatch = 2
  MaxSeq = 4
  MaxTears = 2
  MaxOld = 1
INVARIANTS
  TypeOK
  SeqsIncrease
  LossBoundedByTears
PROPERTIES
  ImplementsEventLog
  OnlyRewindsMoveTheConversation
