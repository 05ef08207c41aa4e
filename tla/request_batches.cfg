SPECIFICATION FairLoopSpec
CONSTANTS
  C = c1
  Conns = {c1}
  ByteMod = 3
  ShortMod = 11
  Meta = 3
  Proxy <- MCProxy
  Payloads <- MCPayloads
  MaxPackets = 4
  NoId = NoId
INVARIANTS LoopTypeOK MixedOnlyAfterLoss LeftoversLostAPart SecondPartLedItsBatch DrainedLosesNothing
PROPERTY SentIsForwarded
CHECK_DEADLOCK FALSE
