SPECIFICATION Spec
CONSTANTS
  t1 = t1
  t2 = t2
  w1 = w1
  ju = ju
  jessie = jessie
  NoTask = NoTask
  AnyOwner = AnyOwner
  Tasks = {t1, t2}
  Workers = {w1}
  Owners = {ju, jessie}
  Priorities = {1, 2}
  MaxAttempts = 2
  MaxClock = 1
  MaxFaults = 1
INVARIANT FirstComeFirstServed
PROPERTY ImplementsLifecycle
CHECK_DEADLOCK FALSE
