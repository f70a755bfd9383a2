SPECIFICATION RecordsSpec
CONSTANTS
  Calls = {"s1", "s2"}
  MaxTries = 2
  Configs <- SomeConfigs
  Requests <- SomeRequests
  Users = {"u1", "u2"}
  Recovery = {"inside", "outside"}
  MaxWrites = 2
  MaxChanges = 1
  Callers = {"c1", "c2"}
  Programs <- SomePrograms
INVARIANTS
  RequestIsRecorded
  AnswersRight
PROPERTY
  IsStatementLog
CHECK_DEADLOCK FALSE
