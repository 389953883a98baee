SPECIFICATION Spec
CONSTANTS
  None = None
  Users = {u1}
  Assets = {a1}
  Web = {w1, w2}
  Matchers = {}
  Expirers = {}
  Sides = {"buy", "sell"}
  Kinds = {"market"}
  Quantities = {1, 2}
  Targets = {}
  Expiries = {}
  Amounts <- Move3
  Prices = {1, 2}
  Opening <- Balance4
  Endowed <- TwoShares
  Quotes <- AtTwo
  MaxBalance = 6
  MaxCalls = 3
  MaxNow = 1
  MaxCrashes = 1
INVARIANTS
  TypeOK
  AuditChain
  PositionsAddUp
  TradesArePaidFor
  CostBasisHolds
SYMMETRY Interchangeable
CHECK_DEADLOCK FALSE
