SPECIFICATION Spec
CONSTANTS
  Procs = {p1, p2, p3}
  Empty = Empty
  MaxCount = 2
  Fragile = {p1}
CHECK_DEADLOCK FALSE
SYMMETRY Symmetry
INVARIANTS ListInv OnlyRacesLoseInstances ListedOnce
PROPERTIES CallIsComplete
