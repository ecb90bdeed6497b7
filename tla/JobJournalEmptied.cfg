SPECIFICATION JournalSpec
CONSTANTS
  Process = {p1, p2}
  Job = {j1, j2}
  Retain = 0
  Inode = {1, 2, 3, 4}
  None = None
SYMMETRY Symmetry
CHECK_DEADLOCK FALSE
INVARIANT NeverEmptied
