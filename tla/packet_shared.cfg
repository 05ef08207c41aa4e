SPECIFICATION Spec
CONSTANTS
  Conns = {c1, c2}
  ByteMod = 3
  ShortMod = 11
  Meta = 3
  Proxy <- MCProxy
  Payloads <- MCPayloads
  MaxPackets = 6
  NoId = NoId
INVARIANTS TypeOK FullNeverLingers IntactUnlessIdShared
CONSTRAINT LongerMeansShorter
SYMMETRY Symmetry
CHECK_DEADLOCK FALSE
