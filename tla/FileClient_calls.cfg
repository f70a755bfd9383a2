SPECIFICATION FilesSpec
CONSTANTS
  Fields = {0, 2}
  Size = 3
  Servers = {s1, s2}
  None = None
  Indices = {c0, c1, c2}
  MaxFaults = 3
INVARIANTS
  SuccessMeansWhole
  BodyReleased
  MergedIsWhole
PROPERTIES
  CallsEnd
  TransferEnds
CHECK_DEADLOCK FALSE
