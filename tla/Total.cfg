SPECIFICATION Spec
CONSTANTS
  None = None
  Assets = {a, b}
  MaxTrades = 3
PROPERTIES
  TotalAsReceived
CHECK_DEADLOCK FALSE
