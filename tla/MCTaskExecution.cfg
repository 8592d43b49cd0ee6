SPECIFICATION Spec
CONSTANTS
  Tabs = {t1, t2}
  Calls = {c1, c2}
  Sockets = {k1, k2, k3}
  MaxFaults = 3
  None = None
SYMMETRY Interchangeable
INVARIANTS
  TypeOK
  ReportedOnce
  ExitNotLost
  IconSettles
CONSTRAINT Explored
CHECK_DEADLOCK FALSE
