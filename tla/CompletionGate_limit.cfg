SPECIFICATION Spec
CHECK_DEADLOCK FALSE
CONSTANTS
  NoCheck = NoCheck
  unit = unit
  suite = suite
  f1 = f1
  f2 = f2
  N = 2
  Check = {unit, suite}
  Plans <- AnyPlan
  OwnChecks = {unit}
  FloorChecks = {unit, suite}
  NeedsApproval = {suite}
  File = {f1, f2}
  Limit = 1
  MaxActs = 3
SYMMETRY AnyFile
INVARIANT LimitIsAStop
