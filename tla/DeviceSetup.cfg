\* Setups that fail and succeed, with a tick that defines properties in between.
CONSTANTS
  connection = connection
  configProcess = configProcess
  n1 = n1
  n2 = n2
  reader = reader
  t1 = t1
  t2 = t2
  Connection = connection
  ConfigProcess = configProcess
  Reader = reader
  None = None
  OwnNames = {n1, n2}
  BuiltIn = {configProcess}
  Persisted = {n2}
  OnChange = {n1}
  Ticks = {t1}
  WhenConnected = {}
  Serialize = FALSE
  Joins = TRUE
  Values = {1}
  Asked = {"getProperties"}
  MaxOps = 4
SPECIFICATION Spec
INVARIANTS ClientMirrorsDevice ListIsTrue FailedAttemptLeavesNoProperty
