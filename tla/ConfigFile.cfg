\* Two processes save, purge and load one file; either may be killed, and the power cut.
SPECIFICATION Spec
CONSTANTS
  p1 = p1
  p2 = p2
  d1 = d1
  d2 = d2
  Foreign = Foreign
  Torn = Torn
  Nothing = Nothing
  Load = Load
  Quiet = Quiet
  Processes = {p1, p2}
  Documents = {d1, d2}
  MaxBehind = 3
INVARIANTS NoLitter
PROPERTIES ImplementsSavedDocument
