SPECIFICATION MCSpec
CONSTANTS
  t1 = t1
  t2 = t2
  w1 = w1
  OneTask = t1
  OneThread = w1
  w2 = w2
  ju = ju
  NoTask = NoTask
  AnyOwner = AnyOwner
  Tasks = {t1, t2}
  Workers = {w1, w2}
  Owners = {ju}
  Priorities = {1}
  MaxAttempts = 2
  MaxClock = 1
  MaxFaults = 0
  StatusRequests = {s1, s2}
  PlainRequests = {r1}
  PoolSize = 2
INVARIANT StallTakesAllConnections
PROPERTY EventuallySettled
PROPERTY DueIsPickedUp
PROPERTY RequestsEnd
CHECK_DEADLOCK FALSE
