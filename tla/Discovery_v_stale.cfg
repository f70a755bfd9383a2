SPECIFICATION Spec
CONSTANTS
  Goroutines = {g1}
  Unsubscribers = {}
  Services = {s1}
  Hosts = {h1}
  Filters <- MCFilters
  MaxVersion = 2
INVARIANT
  QuietCacheIsCurrent
