SPECIFICATION Spec
CONSTANTS
  Namespace = "ns"
  Calls = {c1, c2}
  Catalog <- MCCatalog
  Devfiles <- MCDevfiles
  Changes <- MCChanges
  MaxCalls = 2
  MaxChanges = 2
SYMMETRY Clicks
INVARIANTS
  TypeOK
  SavesKeepTheRest
  InstalledIsThere
  LastChangeWins
PROPERTIES
  SavesOneThing
CHECK_DEADLOCK FALSE
