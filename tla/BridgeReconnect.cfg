\* A page that reconnects, behind a subscriber that suspends.
SPECIFICATION Spec
CONSTANTS
  d1 = d1
  d2 = d2
  n1 = n1
  n2 = n2
  s1 = s1
  s2 = s2
  f1 = f1
  f2 = f2
  None = None
  Devices = {d1}
  Names = {n1}
  Fields = {f1, f2}
  Blobs = {}
  Subs = {s1}
  Prompt = {}
  MaxBacklog = 2
  HistoryLen = 1
  SlowSubscribers = TRUE
  MaxEvents = 4
  MaxAttaches = 2
INVARIANTS Converges
CHECK_DEADLOCK FALSE
