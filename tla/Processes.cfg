SPECIFICATION FairParts
CONSTANTS
  None = None
  Runners = {r1, r2}
  Versions = {1, 2}
  Texts = {x, y}
  MaxEdits = 1
  MaxFaults = 1
  MaxResets = 1
CHECK_DEADLOCK FALSE
INVARIANTS
  LedgerAccurate
  AppliedInOrder
PROPERTIES
  DeploysArrive
  JobsGoOn
  CallsReturn
  QuotesKeepUp
  RetriesAreServed
  PageSettles
