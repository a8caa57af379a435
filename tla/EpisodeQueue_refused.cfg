CONSTANTS
  a = a
  b = b
  none = none
  c1 = c1
  c2 = c2
  r1 = r1
  r2 = r2
  None = none
  Events <- TwoEvents
  Clients <- OneClient
  Replicas <- OneReplica
  NeedsModel <- OnlyA
  Refused <- OnlyA
  BatchSize = 2
  MaxRetries = 2
  MaxFaults = 0
  MaxOutages = 0
  MaxForgets = 0
SPECIFICATION Spec
PROPERTY EverythingSettles
CHECK_DEADLOCK FALSE
