SPECIFICATION MCSpec
CONSTANTS
  i1 = i1
  i2 = i2
  c1 = c1
  c2 = c2
  Ids = {i1, i2}
  Calls = {c1, c2}
  Requests <- Bookings
  TokenRequests = {q1, q2}
  MaxTokens = 3
  Processes = {p1, p2, p3}
  Names = {a, b}
  MaxStops = 1
  MaxUsers = 3
  Parties = {x}
  PartyStatus = {new, won}
  CrmThreads = {t1, t2, t3}
  MaxHistory = 4
  MaxExtra = 2
  NotYet = NotYet
  Gone = Gone
  PhoneCalls = {"x"}
  CallStates = {"missed", "completed"}
  CallOutcomes = {"none", "failed", "transfer_error"}
  CallThreads = {u1, u2}
  MaxWrites = 2
  Rememberers = {r1, r2}
  MaxMemories = 3
  MaxClock = 2
  LimitThreads = {l1, l2}
  Limit = 2
  Window = 1
  Horizon = 3
  Services = {"calendar"}
  SandboxIds = {e1, e2, e3}
  RemoteNames = {m, n}
  MaxEdits = 1
  MaxOperations = 3
SYMMETRY Symmetry
INVARIANTS
  TypesOK
  WrongOnlyByRaceOrOffsets
  SessionIsOneChain StartsAreSafe
  HistoryIsChain CallDamagedOnlyByOverlap AnalyticsAddUp
  ExcessOnlyByOverlap AnswersMatchProvider NoSecretTravels StatusNamesFailure
PROPERTIES
  DeletedPartyIsClosed PastStands UntouchedExportPutsBack
CHECK_DEADLOCK FALSE
