SPECIFICATION FairSpec
CONSTANTS
  Tunnels = {t1, t2}
  Keys = {k1, k2}
  MaxFd = 6
  MaxBatch = 1
  MaxObjects = 3
  MaxResponses = 2
  None = None
INVARIANTS TablesAgree ReturnPathKept EntriesBelong RepliesReachOpener
PROPERTY ResponseCarriedBack
CHECK_DEADLOCK FALSE
