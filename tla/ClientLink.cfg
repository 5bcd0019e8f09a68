\* Two connections, policies, commands, waiters and an aclose at any moment.
SPECIFICATION FairSpec
CONSTANTS
  k1 = k1
  k2 = k2
  also = also
  never = never
  w1 = w1
  w2 = w2
  v1 = v1
  v2 = v2
  None = None
  Keys = {k1, k2}
  Policies = {also, never}
  Waiters = {w1}
  Values = {v1, v2}
  MaxOutbox = 3
  MaxConnects = 2
  MaxSends = 3
INVARIANTS NothingOutlivesItsConnection PoliciesInForce NoWaiterMissed
PROPERTIES CloseAnswers
