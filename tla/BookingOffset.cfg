SPECIFICATION Spec
CONSTANTS
  i1 = i1
  i2 = i2
  c1 = c1
  Ids = {i1, i2}
  Calls = {c1}
  Requests <- TwoOffsets
INVARIANT NoRealOverlap
SYMMETRY Symmetry
CHECK_DEADLOCK FALSE
