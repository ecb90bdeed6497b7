SPECIFICATION FairWebSpec
CONSTANTS
  Client = {c1, c2}
  Session = {s1}
  Token = token
  NoCredential = nobody
  Parallel = 1
INVARIANTS WebTypeOK WorkIsLawful
PROPERTIES EveryRequestAnswered ServerEnds
CHECK_DEADLOCK FALSE
