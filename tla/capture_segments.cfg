SPECIFICATION Spec
CONSTANTS
  IdMod = 2
  Tls = 2
  Pb = 1
  Sizes = {1, 2}
  MaxOrig = 3
  HelloId = 1
  MaxResponses = 2
  MaxOthers = 1
  MaxSegments = 4
INVARIANTS TypeOK HandedOnWhenAlone OnlyPiecesMix LeftoversFromPieces
CHECK_DEADLOCK FALSE
