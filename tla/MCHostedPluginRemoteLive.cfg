SPECIFICATION FairSpec
CONSTANTS
  c1 = c1
  c2 = c2
  e1 = e1
  p1 = p1
  p2 = p2
  None = None
  Clients = {c1, c2}
  Endpoints = {e1}
  Plugins = {p1, p2}
  Hosts <- MCHosts
  EnvEndpoint <- MCEnvEndpoint
  MaxRequests = 1
  MaxRpc = 0
  MaxFaults = 1
  MaxRestarts = 0
PROPERTIES
  DiscoveredPluginsLearned
  RequestAnswered
CHECK_DEADLOCK FALSE
