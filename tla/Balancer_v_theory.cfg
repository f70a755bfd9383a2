SPECIFICATION TheorySpec
CONSTANTS
  Goroutines = {g1}
  Unsubscribers = {}
  Services = {s1}
  Hosts = {1, 2, 3}
  Unit = 1
  Lists <- PlainLists
  Offers <- OverlappingOffers
  Strategies = {"weighted_round_robin"}
  Changes = {}
  Period = 12
  MaxPicks = 6
  Filters = {}
  MaxVersion = 1
  Weight <- PlainWeight
INVARIANT
  AlwaysSelects
CHECK_DEADLOCK FALSE
