SPECIFICATION Spec
CONSTANTS
  Namespace = "ns"
  Calls = {c1}
  Catalog <- MCCatalog
  Devfiles <- MCDevfiles
  Changes <- MCChanges
  MaxCalls = 1
  MaxChanges = 0
PROPERTY
  RemovedFromConfiguration
CHECK_DEADLOCK FALSE
