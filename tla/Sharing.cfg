CONSTANTS
  a = a
  b = b
  top = top
  e1 = e1
  e2 = e2
  p = p
  q = q
  squad = squad
  platform = platform
  org = org
  UnitIds = {a, b}
  Org = top
  Editors = {e1, e2}
  Processes = {p}
  ProcessOf <- MCProcessOf
  TTL = 1
  LastTick = 1
  MaxEdits = 2
  Units = {squad, platform}
  Tenant = org
  ParentOf <- MCParentOf
  Values = {v, pii}
  NamesAPerson = {pii}
  MaxCount = 2
  MaxRuns = 1
  People = {u1, u2}
  Sessions = {t1, t2}
  MaxSessions = 3
  MaxObserved = 3
  EpisodeIds = {1, 2}
  Folders = {f1, f2}
  SourceNames = {"s1", "s2"}
  Policies <- MCPolicies
  MaxDecisions = 2
  ScopeRank <- MCRank
  ReadScopes = {"user", "org"}
  AnchorValues = {v, w}
  LastHour = 2
  MaxChanges = 3
  Learnings = {l1}
  Persons = {u1, u2}
  Hops = {"infra", "coding"}
  Room = 1
  PinnedRoom = 1
  Unasked = 1
  MaxClaims = 3
  RunKinds <- MCRunKinds
  RunTiers = {1, 2}
  MinRuns = 2
  MinRegression = 1
  Tunable = {"budgets.maxTurns", "model.main"}
  LockedKnobs = {"budgets.maxTurns"}
  TierChoices = {2}
  LastReport = 3
  Artifacts <- MCArtifacts
  ReadOnlyTools = {"Read"}
  Turns = {"t1"}
  Deciders = {o1, o2}
  MaxGateSteps = 4
SPECIFICATION MCSpec
INVARIANTS TypesOK RootedUnlessRaced SettledWithinTTL ClimbsByPolicy TierIsEarned RetractionHolds  ServedWasLive EvidenceHasPower
PROPERTIES TaughtIsNotReplaced UnaskedStaysHome AdoptionIsEarned
CHECK_DEADLOCK FALSE
