SPECIFICATION Spec
CONSTANTS
  t1 = t1 t2 = t2
  Threads = {t1, t2}
  NoPackage = NoPackage NoThread = NoThread NoData = NoData
  Packages <- MCPackages
  FamilyOf <- MCFamilyOf
  VersionOf <- MCVersionOf
  ArchitectureOf <- MCArchitectureOf
  Current = "x64"
  Ranks = {0, 1}
  AppDirs = {"app"}
  FirstPath <- MCPath
  Criteria <- MCCriteria
  Framework = "fw2"
  FrameworkCriteria <- Fw
  DefaultRank = 0
  MaxCalls = 4
  MaxFaults = 1
INVARIANTS GraphInv PathIsKept PathIsBalanced InitializedStays PinsStay ResolutionFits
CHECK_DEADLOCK FALSE
PROPERTY LifetimeManagersEnd
