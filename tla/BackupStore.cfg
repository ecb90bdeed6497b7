SPECIFICATION Spec
CONSTANTS
  Worker = {w1, w2, w3}
  MaxTime = 3
  MaxDumps = 3
  KeepLast = 1
  KeepDays = 1
  Grace = 1
  None = None
SYMMETRY Symmetry
CHECK_DEADLOCK FALSE
INVARIANTS
  TypeOK
  KeepsNewest
  ArchivesAreWhole
  ChecksumsMatch
PROPERTIES
  CatalogueSpec
