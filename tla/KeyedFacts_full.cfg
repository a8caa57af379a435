CONSTANTS
  v1 = v1
  v2 = v2
  v3 = v3
  Anchor = anchor
  Values <- MCValues2
  Lifecycles <- AllLifecycles
  Horizons <- OneHorizon
  WorkingTtl = 1
  MaxLag = 1
  MaxTime = 3
  MaxClaims = 3
SPECIFICATION Spec
INVARIANTS OneOpenEdge AsOfOneTruth
PROPERTIES NoResurrection BeliefIsStable
SYMMETRY Symmetry
CHECK_DEADLOCK FALSE
