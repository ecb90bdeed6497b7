SPECIFICATION ProgramsSpec
CONSTANTS
  Client = {c1, c2}
  Login = {"ann"}
  Known = {"ann"}
  Session = {s1, s2}
  SessionTTL = 3
  LoginBackoff = 1
  MaxBackoff = 2
  LockoutDuration = 4
  MaxLoginAttempts = 2
  Slowest = 1
  MaxTime = 4
  PgMode = "tcp"
  Stand = {"fse-1", "fse-2"}
  Protected = {"fse-9"}
  Foreign = {"prod"}
  MaxDefects = 2
  MaxChanges = 1
  ConfigFile <- MCConfigFile
  Edited <- MCEdited
  Environment <- MCEnvironment
  MaxMinFree = 2
  History <- MCHistory
  Vulnerable <- MCVulnerable
  MinLayerSize = 1
  HugeLayerSize = 2
  TopFlag = {1}
  MultiCopyMin = 2
  MaxTop = 1
  Process = {p1}
  Job = {j1, j2, j3}
  Retain = 4
  Inode = {1, 2, 3, 4}
  None = None
INVARIANTS
  ProgramsTypeOK
  GuessesBounded
  SessionLasts
  AnswersAreTrue
  ExitCodeIsTrue
  EveryDatabaseTried
  DoctorIsRight
  AcceptedIsTaken
  ThresholdIsTrue
  ReportIsTrue
  KeepsAccepted
  RecordsInOrder
PROPERTIES
  SessionsLiveOnce
  CutOffCallReturns
  LogSpec
CHECK_DEADLOCK FALSE
