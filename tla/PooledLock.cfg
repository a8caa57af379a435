CONSTANTS
  r1 = r1
  r2 = r2
  Replicas <- TwoReplicas
  PoolSize = 3
  MaxOverflow = 0
  MaxRequests = 3
  MaxDepth = 2
  MaxCrashes = 1
SPECIFICATION Spec
 
PROPERTY TicksResume
CHECK_DEADLOCK FALSE
