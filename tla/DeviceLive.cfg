\* A connection switch, and requests and ticks that compete for the guard.
CONSTANTS
  connection = connection
  configProcess = configProcess
  n1 = n1
  n2 = n2
  reader = reader
  t1 = t1
  t2 = t2
  Connection = connection
  ConfigProcess = configProcess
  Reader = reader
  None = None
  OwnNames = {n1}
  BuiltIn = {connection}
  Persisted = {}
  OnChange = {}
  Ticks = {t1, t2}
  WhenConnected = {}
  Serialize = TRUE
  Joins = FALSE
  Values = {1}
  Asked = {"getProperties", "CONNECT", "DISCONNECT"}
  MaxOps = 2
SPECIFICATION FairSpec
INVARIANTS OkMeansLinked NoUpdateAfterRetraction
PROPERTIES GuardIsFair FailedAttemptUndone
