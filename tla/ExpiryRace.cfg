SPECIFICATION Spec
CONSTANTS
  None = None
  Users = {u1}
  Assets = {a1}
  Web = {w1}
  Matchers = {m1}
  Expirers = {e1}
  Sides = {"buy", "sell"}
  Kinds = {"limit"}
  Quantities = {1}
  Targets = {2}
  Expiries = {1}
  Amounts = {}
  Prices = {1, 2}
  Opening <- Balance4
  Endowed <- TwoShares
  Quotes <- AtTwo
  MaxBalance = 20
  MaxCalls = 1
  MaxNow = 1
  MaxCrashes = 0
PROPERTIES
  CancelledIsFinal
