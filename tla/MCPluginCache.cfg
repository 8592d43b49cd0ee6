SPECIFICATION Spec
CONSTANTS
  Tabs = {t1, t2}
  MaxUpdates = 2
  Default = "default"
  Custom <- CustomRegistries
  Content <- PluginsOf
  Filters = {"", "php"}
  Matches <- Passing
  MaxEvents = 1
  None = None
INVARIANTS
  TypeOK
  CacheComplete
  ViewShowsCache
PROPERTY
  ViewSettles
CHECK_DEADLOCK FALSE
