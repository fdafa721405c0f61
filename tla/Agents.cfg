SPECIFICATION MCSpec
CONSTANTS
  p = p
  i1 = i1
  i2 = i2
  i3 = i3
  Services = {p}
  Ids = {i1, i2, i3}
  Statuses = {"new", "called"}
  New = "new"
  Absent = "absent"
  Conns = {c1, c2}
  Callers = {"dashboard", "n8n", "admin"}
  Hosts = {"near", "far"}
  PollHost = "near"
  Permissions <- MCPermissions
  Asked <- MCAsked
  Limit = 1
  Span = 2
  MaxNow = 2
  MaxRequests = 3
  MaxRestarts = 1
  Clients = {d1, d2}
  Names = {"jessie"}
  Registered = {"jessie"}
  Urgencies = {2, 5}
  MaxItems = 2
  Writers = {w1, w2}
  Entries = {e1, e2, e3}
  AgentTasks = {t1, t2}
  Saves = {s1, s2}
  Quantities = {0, 1, 2}
SYMMETRY Symmetry
INVARIANTS
  TypesOK
  AckedIsKept ViewIsSaved
  LimitIsExact NumbersAreTrue
  MailInOrder TalesAreTrue
  MemoryIsKept ArchiveIsSound
PROPERTIES
  ImplementsBook
CHECK_DEADLOCK FALSE
