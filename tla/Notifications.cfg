SPECIFICATION Spec
CONSTANTS
  c1 = c1
  c2 = c2
  t1 = t1
  t2 = t2
  t3 = t3
  a1 = a1
  a2 = a2
  Apps = {a1, a2}
  Clients = {c1, c2}
  Tasks = {t1, t2, t3}
  Nobody = Nobody
  Gone = Gone
  MaxIds = 2
  MaxCalls = 3
  MaxFaults = 1
  ClientOf <- MCClientOf
  AppOf <- MCAppOf
  ChannelTasks = {t3}
CHECK_DEADLOCK FALSE
INVARIANTS PlatformInv RegisteredIsStored TrackedIsNotTimed NothingIsLeft StartsAgain ForegroundIsKept
PROPERTIES IdlePlatformEnds
