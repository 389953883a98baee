SPECIFICATION Spec
CONSTANTS
  None = None
  Users = {u1}
  Assets = {a1}
  Web = {w1}
  Matchers = {m1, m2}
  Expirers = {}
  Sides = {"buy", "sell"}
  Kinds = {"limit"}
  Quantities = {1}
  Targets = {2}
  Expiries = {}
  Amounts = {}
  Prices = {1, 2}
  Opening <- Balance4
  Endowed <- TwoShares
  Quotes <- AtTwo
  MaxBalance = 20
  MaxCalls = 1
  MaxNow = 0
  MaxCrashes = 0
INVARIANTS
  FilledOnce
