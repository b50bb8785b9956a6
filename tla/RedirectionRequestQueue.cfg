SPECIFICATION QueueFairSpec
CONSTANTS
  Guids = {i1, i2, i3, i4}
  NoGuid = NoGuid
  Nobody = Nobody
  Dequeuer = Dequeuer
  ViewItems = 3
  BoundItems = 4
  CrashPoints = {"walk", "mark", "clear"}
CHECK_DEADLOCK FALSE
INVARIANTS ListIsSound
PROPERTIES ImplementsFifo EnqueueEnds
