\* Sockets that fail, close and are replaced at any moment, and a subscriber that reacts.
SPECIFICATION FairSpec
CONSTANTS
  s1 = s1
  s2 = s2
  s3 = s3
  k1 = k1
  k2 = k2
  also = also
  never = never
  None = None
  Sockets = {s1, s2, s3}
  Keys = {k1, k2}
  Policies = {also, never}
  MaxCalls = 5
  MaxSends = 3
INVARIANTS NoOrphan StateOfThisSocket SendsAreKept
PROPERTIES LinkComesBack
CHECK_DEADLOCK FALSE
