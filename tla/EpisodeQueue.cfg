CONSTANTS
  a = a
  b = b
  none = none
  c1 = c1
  c2 = c2
  r1 = r1
  r2 = r2
  None = none
  Events <- TwoEvents
  Clients <- TwoClients
  Replicas <- TwoReplicas
  NeedsModel <- OnlyA
  Refused <- Nobody
  BatchSize = 2
  MaxRetries = 2
  MaxFaults = 1
  MaxOutages = 1
  MaxForgets = 1
SPECIFICATION Spec
INVARIANTS FoldedOnce OutageBurnsNoRetry AcceptedIsKept
PROPERTIES KeepsLedger EverythingSettles
CHECK_DEADLOCK FALSE
