SPECIFICATION FairSpec
CONSTANTS
  lead = lead
  intake = intake
  c1 = c1
  c2 = c2
  Records = {lead, intake}
  Leads = {lead}
  Calls = {c1, c2}
  Modes = {"disabled", "mock", "sandbox"}
  MaxRetries = 2
  MaxRows = 1
  MaxEvents = 1
INVARIANT GrantedOnce
INVARIANT SheetMatchesLedger
INVARIANT DuplicateRowIsExcused
INVARIANT AnswerAgreesWithLedger
PROPERTY EveryRequestEnds
CHECK_DEADLOCK FALSE
