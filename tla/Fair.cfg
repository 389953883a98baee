SPECIFICATION FairSpec
CONSTANTS
  None = None
  Users = {u1}
  Assets = {a1}
  Web = {w1}
  Matchers = {m1}
  Expirers = {e1}
  Sides = {"buy", "sell"}
  Kinds = {"market", "limit"}
  Quantities = {1}
  Targets = {2}
  Expiries = {1}
  Amounts = {}
  Prices = {2}
  Opening <- Balance9
  Endowed <- TwoShares
  Quotes <- AtTwo
  MaxBalance = 20
  MaxCalls = 2
  MaxNow = 1
  MaxCrashes = 0
PROPERTIES
  FilledIsFinal
  TransactionsEnd
  DueOrdersSettle
