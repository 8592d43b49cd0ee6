SPECIFICATION Spec
CONSTANTS
  c1 = c1
  e1 = e1
  e2 = e2
  p1 = p1
  p2 = p2
  None = None
  Clients = {c1}
  Endpoints = {e1, e2}
  Plugins = {p1, p2}
  Hosts <- MCHosts
  EnvEndpoint <- MCEnvEndpoint
  MaxRequests = 1
  MaxRpc = 1
  MaxFaults = 1
  MaxRestarts = 1
INVARIANTS
  TypeOK
  OrphansOnlyFromEnv
  StopBeforeClose
  MappingTruthful
PROPERTIES
  FirstMappingWins
  ResourceRefinement
CHECK_DEADLOCK FALSE
