SPECIFICATION FairSpec
CONSTANTS
  a = a
  b = b
  Operation = {o1, o2}
  Process = {p1}
  Database = {a, b}
  Request <- Everything
  Parallel = 2
  PerDB = 1
  KeepLast = 1
  AutoBackup = TRUE
  None = None
CHECK_DEADLOCK FALSE
INVARIANTS
  TypeOK
  SafetyCopy
  RejectedLeavesDatabases
PROPERTIES
  EveryOperationEnds
  CataloguesSpec
  QueuesSpec
