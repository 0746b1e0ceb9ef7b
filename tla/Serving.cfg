SPECIFICATION Spec
CONSTANTS
  w1 = w1
  w2 = w2
  w3 = w3
  k1 = k1
  b1 = b1
  b2 = b2
  HomeCall = {w1, w2, w3}
  EarlierRun = {o1, o2}
  IdemKey <- MCIdem
  Body <- MCBody
  HomeKeep = 2
  NoRun = NoRun
  HomeProc = {p1, p2}
  HomeWriter = {h1}
  MaxHome = 2
  MaxBuildFail = 1
  NoHome = NoHome
  TemplateAdmin = {a1, a2}
  DefaultBuilder = {d1, d2}
  MaxEdits = 2
  NoDefault = NoDefault
  Pin = {pin1, pin2}
  NoPin = NoPin
  PinRequest = {q1, q2}
  PinAttempts = 1
  LockTiers = 1
  MaxAttempts = 3
  u1 = u1
  r1 = r1
  r2 = r2
  r3 = r3
  DbClient = {c1, c2}
  DbRequest = {r1, r2, r3}
  DbDepth <- MCDepth
  n1 = n1
  n2 = n2
  DbQuery = {n1, n2}
  DbParallel <- MCParallel
  NoRequest = NoRequest
  Stream = {s1, s2, s3, s4}
  MaxStreams = 2
  Caller = {u1, u2}
  GenVersion = {v1, v2}
  GenSlot = {e1, e2}
  NoGen = NoGen
  LastItem = 2
  Traversal = {t1, t2}
  PageLimit = 1
  WpItems = 3
  WpLimit = 1
  WpClock = 4
  WpWrites = 1
  WpImports <- MCImports
  PerMilli = 2
  NoStamp = NoStamp
  i1 = i1
  i2 = i2
  t1 = t1
  m1 = m1
  m2 = m2
  Ingest = {i1, i2}
  TmdbTitle = {t1}
  Connection = {m1, m2}
  TitleOf <- MCTitleOf
  ConnOf <- MCConnOf
  IngestTries = 3
  NoWriter = NoWriter
  NotFound = NotFound
  x1 = x1
  x2 = x2
  x3 = x3
  x4 = x4
  CiCall = {x1, x2, x3, x4}
  CiWork <- MCWork
  NoCall = NoCall
  NoAsk = NoAsk
INVARIANTS
  TypeOK
  HomeIsOneWrite
  PruningKeepsNewest
  AnswerIsCommitted
  StaleOnlyBySlip
  OwnWriteIsServed
  SnapshotOfVersion
  UnlockFollowsPin
  FailuresCounted
  NoClientLeaks
  SlotsMatchStreams
  JobRunsOnce
  GeneratedIsServed
  HeldByOne
  MissedWasLeased
  PagesMissOnlyByCursor
  IngestIsAtomic
  AnsweredIsStored
PROPERTIES
  StaleIsReplaced
  EveryRequestEnds
  JobsLeave
  CanonicalStays
CHECK_DEADLOCK FALSE
