SPECIFICATION Spec
CONSTANTS
  p1 = p1 p2 = p2 t1 = t1 t2 = t2 u = u n1 = n1 n2 = n2
  Processes = {p1, p2}
  Threads = {t1, t2, u}
  ProcessOf <- MCProcessOf
  Notes = {n1, n2}
  None = None
  MaxCalls = 3
  MaxFaults = 1
SYMMETRY Symmetry
INVARIANTS RegistrationInv NotificationsArrive NoCircularWait
CHECK_DEADLOCK FALSE
