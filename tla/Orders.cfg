SPECIFICATION Spec
CONSTANTS
  None = None
  Users = {u1}
  Assets = {a1}
  Web = {w1}
  Matchers = {m1}
  Expirers = {e1}
  Sides = {"buy", "sell"}
  Kinds = {"market", "limit", "stop_loss"}
  Quantities = {1}
  Targets = {1}
  Expiries = {1}
  Amounts <- Withdraw3
  Prices = {1, 2}
  Opening <- Balance3
  Endowed <- TwoShares
  Quotes <- AtTwo
  MaxBalance = 20
  MaxCalls = 2
  MaxNow = 1
  MaxCrashes = 1
INVARIANTS
  NoLateRefusal
  FilledOnce
PROPERTIES
  IsBrokerage
