SPECIFICATION FairSpec
CONSTANTS
  Clients = {c1, c2}
  Known = {c1}
  Matching = {c1}
  ReconnectNumber = 1
  MaxConns = 2
  MaxFaults = 3
INVARIANTS TypeOK OnlyKnownUsers InitMeansServed
PROPERTIES HelloIsAnswered TunnelComesUp
CHECK_DEADLOCK FALSE
