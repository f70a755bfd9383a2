SPECIFICATION RedisSpec
CONSTANTS
  Callers = {c1, c2}
  Keys = {k1}
  Used <- AllFunctions
  Expirations = {"volatile"}
  MaxRetries = 1
  MaxCalls = 2
  Rate = 2
  Capacity = 3
  Amounts = {1, 2, 4}
  Clients = {c1, c2}
  Retries = 1
  TicksPerSecond = 2
  MaxTicks = 9
INVARIANTS
  OneWinner
  NumbersDistinct
  GrantsWithinRate
PROPERTIES
  NumbersInOrder
  WonKeysGo
  IsTokenBucket
CHECK_DEADLOCK FALSE
