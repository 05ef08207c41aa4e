SPECIFICATION CacheSpec
CONSTANTS
  Threads = {t1, t2, t3}
  Ids = {0, 1}
  MaxBuilt = 4
  Null = Null
INVARIANTS   HandedOnce
SYMMETRY Symmetry
CHECK_DEADLOCK FALSE
