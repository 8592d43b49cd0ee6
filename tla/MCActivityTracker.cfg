SPECIFICATION Spec
CONSTANTS
  c1 = c1
  c2 = c2
  c3 = c3
  Clients = {c1, c2, c3}
  Period = 3
  RetryPeriod = 1
  Delay = 1
SYMMETRY Tabs
INVARIANTS
  TypeOK
  ActivityReported
  CallReported
  OneRequestPerPeriod
  NoRequestWhenIdle
