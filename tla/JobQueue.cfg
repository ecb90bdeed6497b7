SPECIFICATION Spec
CONSTANTS
  Task = {t1, t2, t3, t4}
  Database = {d1, d2, d3}
  NoDatabase = NoDatabase
  ConfigMaxParallel = 2
  ConfigMaxPerDB = 0
SYMMETRY Symmetry
INVARIANTS
  TypeOK
  NoPlaceLeaks
  ParallelismBounded
  JournalWithinLimits
PROPERTIES
  ReturnIsAccountedFor
  ExecutorSpec
