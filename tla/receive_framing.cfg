SPECIFICATION FairSpec
CONSTANTS
  Streams <- MCStreams
  Hdr = 2
  MaxLen = 5
  NumTries = 2
INVARIANTS Framed FramingHolds
PROPERTIES ImplementsChannel ReceivedIsReturned
CHECK_DEADLOCK FALSE
