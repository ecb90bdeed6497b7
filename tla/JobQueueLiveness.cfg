SPECIFICATION FairSpec
CONSTANTS
  Task = {t1, t2, t3}
  Database = {d1, d2}
  NoDatabase = NoDatabase
  ConfigMaxParallel = 1
  ConfigMaxPerDB = 1
PROPERTIES
  EveryCallReturns
  CancelledWaitEnds
