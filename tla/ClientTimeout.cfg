SPECIFICATION FairPgSpec
CONSTANT PgMode = "sudo"
PROPERTY HungCallReturns
CHECK_DEADLOCK FALSE
