SPECIFICATION Spec
CONSTANTS
  t1 = t1
  t2 = t2
  w1 = w1
  w2 = w2
  ju = ju
  NoTask = NoTask
  AnyOwner = AnyOwner
  Tasks = {t1, t2}
  Workers = {w1, w2}
  Owners = {ju}
  Priorities = {1}
  MaxAttempts = 2
  MaxClock = 0
  MaxFaults = 1
INVARIANT TypeOK
INVARIANT RunningIsHeld
INVARIANT NoPrematureFailure
INVARIANT CompletedHasResult
INVARIANT BusyReportIsTrue
SYMMETRY Symmetry
CHECK_DEADLOCK FALSE
