CONSTANTS
  f = f
  t1 = t1
  Writers = {w1, w2}
  Texts = {none, x}
  NoText = none
  Threads = {th}
  Blocks = {b1, b2}
  MaxWrites = 2
  MaxMoves = 1
  RepoPaths = {1, 2}
  DiskPaths = {f}
  Blobs = {blob1, blob2, low, tiny}
  NoBlob = nofile
  Short = {tiny}
  Low = {low}
  Syncers = {worker}
  EagerCap = 1
  MaxPushes = 1
  MaxFailures = 1
  MaxRows = 3
  LastStamp = 2
  Plugins = {"audit", "agents", "servers"}
  Things = {t1}
  Batch = 1
  InOrder = TRUE
  MaxCrashes = 1
  Homes = {team, personal}
  LastInstant = 3
  MaxEvents = 4
  Facts <- MCFacts
  LastDate = 2
  KeptItems = 2
  Folders = {worker, inline}
  MaxTurns = 3
  Subjects <- MCSubjects
  KnownLimit = 3
  Readers = {worker, inline}
  MaxTexts = 4
  Contents <- MCContents
  Cap = 8
  NameLen = 3
  Overlap = 1
  me = me
  repo = repo
  wa = wa
  wb = wb
  Owners <- MCOwners
  OwnScope = me
  MaxStored = 2
  KeyIds = {k1, k2}
  Operators = {op1}
  Asking = {u1, u2}
  Chosen = {c1}
  MembershipTTL = 2
  MaxFileEdits = 2
  LastMinute = 3
  A = A
  B = B
  C = C
  D = D
  Objects = {A, B, C, D}
  Incompatible <- MCIncompatible
  Unlike <- MCUnlike
  JudgeLimit = 5
  LastDay = 3
  MaxFolds = 4
  d1 = d1
  d2 = d2
  d3 = d3
  d4 = d4
  e1 = e1
  e2 = e2
  e3 = e3
  e4 = e4
  e5 = e5
  org = org
  q0 = q0
  q1 = q1
  q2 = q2
  Library <- MCLibrary
  Cold = {e5}
  ReaderScopes = {me, org}
  Searches = {q0, q1, q2}
  TheQuestion = q0
  PageSize = 2
  PerDocument = 1
  Overfetch = 2
  MaxHops = 2
  AskedAsOf = {1}
SPECIFICATION MCSpec
INVARIANTS TypesOK NoLostEdit AdmittedOnce NothingSkipped AsOfIsWhatWasTold  OneAnchorPerThing PassagesKeepTheText  CallersAreCurrent FactsAgree
PROPERTIES CurationSettles 
CHECK_DEADLOCK FALSE
