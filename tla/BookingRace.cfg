SPECIFICATION Spec
CONSTANTS
  i1 = i1
  i2 = i2
  c1 = c1
  c2 = c2
  Ids = {i1, i2}
  Calls = {c1, c2}
  Requests <- UTCOnly
INVARIANT NoDoubleBooking
SYMMETRY Symmetry
CHECK_DEADLOCK FALSE
