SPECIFICATION FairSpec
CONSTANTS
  t1 = t1
  w1 = w1
  ju = ju
  NoTask = NoTask
  AnyOwner = AnyOwner
  Tasks = {t1}
  Workers = {w1}
  Owners = {ju}
  Priorities = {1}
  MaxAttempts = 2
  MaxClock = 0
  MaxFaults = 1
PROPERTY EventuallySettled
CHECK_DEADLOCK FALSE
