CONSTANTS
  RunKinds <- MCRunKinds
  RunTiers = {1, 2}
  MinRuns = 2
  MinRegression = 1
  Tunable = {"budgets.maxTurns", "model.main"}
  LockedKnobs = {"budgets.maxTurns"}
  TierChoices = {2}
  LastReport = 3
SPECIFICATION TuneFactsSpec
INVARIANT WasteIsCurrent
CHECK_DEADLOCK FALSE
