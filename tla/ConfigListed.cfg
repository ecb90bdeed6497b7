INIT ConfigInit
NEXT ConfigNext
CONSTANTS
  ConfigFile <- MCConfigFile
  Edited <- MCEdited
  Environment <- MCEnvironment
  MaxMinFree = 2
INVARIANT ListedIsFound
CHECK_DEADLOCK FALSE
