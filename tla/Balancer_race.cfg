SPECIFICATION RaceSpec
CONSTANTS
  Goroutines = {g1, g2}
  Unsubscribers = {g1, g2}
  Services = {s1}
  Hosts = {1, 2, 3}
  Unit = 2
  Lists <- AllLists
  Offers <- EachWeighting
  Strategies = {"weighted_round_robin", "round_robin", "random"}
  Changes = {"notified", "subscribed", "dropped"}
  Period = 6
  MaxPicks = 5
  Filters <- Metadata
  MaxVersion = 1
  Weight <- Weighting
INVARIANTS
  EvenRotation
  ProportionalShare
  SelectorsFindCounter
  WeightsBalanced
SYMMETRY Symmetry
