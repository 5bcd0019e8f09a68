\* A prompt browser, and one whose sink may never return.
SPECIFICATION FairSpec
CONSTANTS
  d1 = d1
  d2 = d2
  n1 = n1
  n2 = n2
  s1 = s1
  s2 = s2
  f1 = f1
  f2 = f2
  None = None
  Devices = {d1}
  Names = {n1}
  Fields = {f1}
  Blobs = {}
  Subs = {s1, s2}
  Prompt = {s1}
  MaxBacklog = 1
  HistoryLen = 1
  SlowSubscribers = FALSE
  MaxEvents = 2
  MaxAttaches = 1
PROPERTIES CatchesUp DroppedRouteEnds
CHECK_DEADLOCK FALSE
