\* A script takes a picture while other clients use the camera too.
SPECIFICATION FairSpec
CONSTANTS
  plain = plain
  light = light
  bias = bias
  endless = endless
  Holding = Holding
  LightFrame = light
  Framings = {light, bias}
  Levels = {plain, endless}
  Unrenderable <- MCUnrenderable
  Lengths = {0, 2}
  Length = 2
  Ambient = 5
  MinTec = 0
  CoolingStep = 3
  SetPoints = {2, 5}
  MaxExposures = 4
  MaxLag = 2
  MaxWrites = 6
INVARIANTS CameraTruthful FrameIsItsOwn
PROPERTIES ExposureEnds ReceiverIsServed
\* Nobody has anything to ask of a camera that is not connected.
CHECK_DEADLOCK FALSE
