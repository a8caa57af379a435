CONSTANTS
  worker = worker
  request = request
  stream = stream
  Callers <- ThreeCallers
  Poller = worker
  Attempts = 2
  FailuresToOpen = 2
  OpenFor = 2
  MaxRefusals = 2
  MaxCancels = 0
  MaxLostProbes = 1
  MaxOutages = 1
SPECIFICATION Spec
PROPERTY Recovers
CHECK_DEADLOCK FALSE
