SPECIFICATION FairSpec
CONSTANTS
  Procs = {p1, p2}
  Empty = Empty
  MaxCount = 2
  Fragile = {}
CHECK_DEADLOCK FALSE
PROPERTIES EndedIsRemoved
