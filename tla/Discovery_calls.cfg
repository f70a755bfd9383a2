SPECIFICATION FairSpec
CONSTANTS
  Goroutines = {g1, g2}
  Unsubscribers = {g1, g2}
  Services = {s1}
  Hosts = {h1}
  Filters <- MCFilters
  MaxVersion = 2
INVARIANTS
  ReadersFindList
  SubscribedIsConnected
PROPERTY
  ChangeReachesCache
