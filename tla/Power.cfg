SPECIFICATION Spec
CONSTANTS
  c1 = c1
  c2 = c2
  Single = Single
  Clients = {c1, c2}
  Reports <- MCReports
  Leftovers <- MCLeftovers
  Wanted <- MCWanted
  Composite = {Status, Charge}
  Status = Status
  Charge = Charge
  Singles = {Single}
  Suspend = Suspend
  Battery = Battery
  Values = {0, 1}
  Unknown = Unknown
  MaxEvents = 4
  MaxSources = 1
  First = 0
CHECK_DEADLOCK FALSE
INVARIANTS PowerInv CacheIsCurrent
PROPERTIES SubscribersHear
