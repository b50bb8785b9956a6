SPECIFICATION Spec
CONSTANTS
  Threads <- MCThreads
  ProcessOf <- MCProcessOf
  Packaged = {"app"}
  PartsOf <- MCPartsOf
  Within <- MCWithin
  FirstList <- MCFirstList
  Values = {0, 1}
  Folded <- MCFolded
  MaxCalls = 3
  MaxCrashes = 1
  MaxFaults = 1
CHECK_DEADLOCK FALSE
INVARIANTS EnvironmentInv TrackingSuffices PreviousValueIsFirst
