SPECIFICATION Spec
CONSTANTS
  Streams <- MCStreams
  Hdr = 2
  MaxLen = 5
  NumTries = 2
INVARIANT ReturnsFullData
CHECK_DEADLOCK FALSE
