SPECIFICATION Spec
CONSTANTS
  api = api
  cli = cli
  i1 = i1
  i2 = i2
  new = new
  called = called
  Services = {api, cli}
  Ids = {i1, i2}
  Statuses = {new, called}
  New = new
  Absent = Absent
INVARIANT AckedIsKept
SYMMETRY Symmetry
