SPECIFICATION FairSpec
CONSTANTS
  Procs = {p1, p2, p3}
  Ids = {i1, i2}
  NoProc = NoProc
  NoId = NoId
  Mortal = {p1, p2, p3}
  MaxHandled = 3
CHECK_DEADLOCK FALSE
INVARIANTS RedirectionInv NoLostWakeup DoneMeansHandled HandledOnce
PROPERTIES RedirectionCompletes
