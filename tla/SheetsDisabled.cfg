SPECIFICATION Spec
CONSTANTS
  lead = lead
  c1 = c1
  Records = {lead}
  Leads = {lead}
  Calls = {c1}
  Modes = {"disabled"}
  MaxRetries = 2
  MaxRows = 1
  MaxEvents = 1
INVARIANT EventTellsOfSuccess
SYMMETRY Symmetry
CHECK_DEADLOCK FALSE
