CONSTANTS
  v1 = v1
  v2 = v2
  v3 = v3
  Anchor = anchor
  Values <- MCValues3
  Lifecycles <- Durable
  Horizons <- NoHorizon
  WorkingTtl = 1
  MaxLag = 2
  MaxTime = 3
  MaxClaims = 4
SPECIFICATION Spec
INVARIANTS OneCurrentValue 
SYMMETRY Symmetry
CHECK_DEADLOCK FALSE
