SPECIFICATION Spec
CONSTANTS
  Worker = {w1, w2}
  MaxTime = 3
  MaxDumps = 2
  KeepLast = 1
  KeepDays = 2
  Grace = 2
  None = None
SYMMETRY Symmetry
CHECK_DEADLOCK FALSE
INVARIANT PartBelongsToDump
