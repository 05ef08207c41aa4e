SPECIFICATION FairSpec
CONSTANTS
  Clients = {c1}
  Known = {c1}
  Matching = {}
  ReconnectNumber = 2
  MaxConns = 2
  MaxFaults = 1
PROPERTY TunnelComesBack
CHECK_DEADLOCK FALSE
