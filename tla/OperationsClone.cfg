SPECIFICATION Spec
CONSTANTS
  a = a
  b = b
  Operation = {o1, o2, o3}
  Process = {p1}
  Database = {a, b}
  Request <- Clones
  Parallel = 2
  PerDB = 1
  KeepLast = 1
  AutoBackup = TRUE
  None = None
SYMMETRY Symmetry
CHECK_DEADLOCK FALSE
INVARIANT CloneNeverOverwrites
