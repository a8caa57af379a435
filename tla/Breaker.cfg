CONSTANTS
  worker = worker
  request = request
  stream = stream
  Callers <- ThreeCallers
  Poller = worker
  Attempts = 2
  FailuresToOpen = 2
  OpenFor = 2
  MaxRefusals = 2
  MaxCancels = 1
  MaxLostProbes = 0
  MaxOutages = 2
SPECIFICATION Spec
INVARIANT OneCallPerOutcome
PROPERTY Recovers
CHECK_DEADLOCK FALSE
