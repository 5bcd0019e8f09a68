\* A script points the mount while other clients command it too.
SPECIFICATION FairSpec
CONSTANTS
  slow = slow
  fast = fast
  sidereal = sidereal
  solar = solar
  SlewMax = fast
  Sidereal = sidereal
  NoTarget = NoTarget
  Unseen = Unseen
  SlewRates = {fast, slow}
  TrackModes = {sidereal, solar}
  Speed <- MCSpeed
  Drift <- MCDrift
  Destination <- MCDestination
  Circle = 5
  Pole = 1
  AskedRa = {6}
  AskedDec = {2}
  Pulses = {1}
  Tolerance = 0
  MaxLag = 1
  MaxWrites = 4
INVARIANTS AtRest SlewTellsTheTruth
PROPERTIES ParkingEnds SlewAnswers
\* Nobody has anything to ask of a mount that is not connected.
CHECK_DEADLOCK FALSE
