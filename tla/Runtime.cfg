\* Two devices on one stream, one job; handlers of the first device may never return.
SPECIFICATION FairSpec
CONSTANTS
  da = da
  db = db
  j1 = j1
  Malformed = Malformed
  Unknown = Unknown
  End = End
  Garble = Garble
  Reader = Reader
  Stop = Stop
  Messages <- MCMessages
  Chunks <- MCChunks
  Devices <- MCDevices
  DeviceOf <- MCDeviceOf
  Jobs = {j1}
  Immediate = {j1}
  WhenConnected = {j1}
  Hanging = {da}
  Interval = 2
  StallThreshold = 2
  MaxDepth = 1
  MaxEmits = 2
INVARIANTS NoSilentStream Drained
PROPERTIES NoBacklog OthersKeepTicking ServeEnds
\* The driver stops.
CHECK_DEADLOCK FALSE
