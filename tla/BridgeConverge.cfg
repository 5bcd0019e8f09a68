\* Two properties, one of them a BLOB, and one browser.
SPECIFICATION Spec
CONSTANTS
  d1 = d1
  d2 = d2
  n1 = n1
  n2 = n2
  s1 = s1
  s2 = s2
  f1 = f1
  f2 = f2
  None = None
  Devices = {d1}
  Names = {n1, n2}
  Fields = {f1}
  Blobs <- OneKey
  Subs = {s1}
  Prompt = {}
  MaxBacklog = 3
  HistoryLen = 1
  SlowSubscribers = FALSE
  MaxEvents = 5
  MaxAttaches = 1
INVARIANTS CoalescingSound Converges LogGapless CountersAreTrue
PROPERTIES NeverBackwards
CHECK_DEADLOCK FALSE
