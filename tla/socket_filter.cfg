SPECIFICATION FairSpec
CONSTANTS
  Flows <- MCFlows
  Addrs = {"s1", "s2"}
  Ports = {1, 2}
  Packets <- MCPackets
  QueueLen = 2
  MaxPackets = 3
  MaxFaults = 1
INVARIANTS TypeOK CleanOnceFiltered
PROPERTY ResponsesPass
CHECK_DEADLOCK FALSE
