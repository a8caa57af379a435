CONSTANTS
  r1 = r1
  r2 = r2
  Replicas <- TwoReplicas
  PoolSize = 2
  MaxOverflow = 0
  MaxRequests = 1
  MaxDepth = 2
  MaxCrashes = 0
SPECIFICATION Spec
INVARIANT LockFreedAfterTick
CHECK_DEADLOCK FALSE
