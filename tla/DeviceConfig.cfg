\* Saves, loads and purges of a persisted property that a tick withdraws, sets and redefines.
CONSTANTS
  connection = connection
  configProcess = configProcess
  n1 = n1
  n2 = n2
  reader = reader
  t1 = t1
  t2 = t2
  Connection = connection
  ConfigProcess = configProcess
  Reader = reader
  None = None
  OwnNames = {n2}
  BuiltIn = {configProcess}
  Persisted = {n2}
  OnChange = {}
  Ticks = {t1}
  WhenConnected = {}
  Serialize = FALSE
  Joins = FALSE
  Values = {2}
  Asked = {"getProperties", "LOAD", "SAVE", "PURGE", "unselected"}
  MaxOps = 4
SPECIFICATION Spec
VIEW WithoutClient
INVARIANTS NothingStuckBusy
PROPERTIES ConfigurationKept
