SPECIFICATION Spec
CONSTANTS
  None = None
  Users = {u1}
  Assets = {a1}
  Web = {w1, w2}
  Matchers = {}
  Expirers = {}
  Sides = {"sell"}
  Kinds = {"market"}
  Quantities = {1}
  Targets = {}
  Expiries = {}
  Amounts = {}
  Prices = {1, 2}
  Opening <- Balance4
  Endowed <- TwoShares
  Quotes <- AtTwo
  MaxBalance = 20
  MaxCalls = 2
  MaxNow = 0
  MaxCrashes = 0
INVARIANTS
  JudgedOnHoldings
CHECK_DEADLOCK FALSE
