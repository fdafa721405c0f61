SPECIFICATION Spec
CONSTANTS
  t1 = t1
  w1 = w1
  w2 = w2
  ju = ju
  NoTask = NoTask
  AnyOwner = AnyOwner
  Tasks = {t1}
  Workers = {w1, w2}
  Owners = {ju}
  Priorities = {1}
  MaxAttempts = 2
  MaxClock = 0
  MaxFaults = 0
PROPERTY SettledIsFinal
CHECK_DEADLOCK FALSE
