SPECIFICATION StartupSpec
CONSTANTS
  MaxClients = 2
  MaxVersion = 2
  Strategies = {"random"}
  Inits = {"i1", "i2", "i3"}
  Drivers = {"mysql", "postgres", "sqlite", "oracle"}
  Linked = {"mysql", "postgres", "sqlite"}
  Callers = {"a", "b"}
  Langs = {"zh", "en"}
  Ids = {"m1", "m2"}
  Chinese = "zh"
  Files <- TwoDirs
  MaxCalls = 2
INVARIANTS
  ServedUntilClosed
  DatabaseAsAsked
  KnownIsTranslated
PROPERTIES
  ChangeReachesCache
  BundleSettles
CHECK_DEADLOCK FALSE
