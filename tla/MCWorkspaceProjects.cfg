SPECIFICATION Spec
CONSTANTS
  Projects = {"a", "b", "c"}
  Declared <- DeclaredProjects
  Import <- Imports
  Upstream = {"a", "c"}
  MultiRoot = TRUE
  Slots = {s1, s2}
  MaxDisk = 2
  MaxFaults = 1
INVARIANTS
  TypeOK
  RootsFollowDisk
  DevfileFollowsDisk
PROPERTY
  ChainSettles
CHECK_DEADLOCK FALSE
