SPECIFICATION ServicesSpec
CONSTANTS
  None = None
  Keep = Keep
  Browsers = {"b1", "b2"}
  Letters = {"a", "b"}
  Passwords = {p1}
  Opening = 1
  Amount = 3
  InFlight = 2
  MaxSent = 4
  MaxResets = 1
  Users = {"u"}
  Calls = {"c", "d"}
  Amounts <- Payments
  Changes <- Settlements
  Funds = 3
  MaxWrites = 5
  Trades = {1, 2, 3, 4}
  PageSizes = {1, 3}
  MaxLimit = 2
  MaxNow = 2
  Stores = {"w1", "w2"}
  Clients = {"c"}
  Address <- OwnAddress
  Endpoints = {"login"}
  Allowances <- LoginLimits
  Pace <- LoginPace
  MaxRestarts = 1
  Workers = {"worker"}
  Apps = {"parent", "child"}
  Children = {"child"}
  Web = {"g1", "g2"}
  DEBUG = TRUE
  ENABLE_SCHEDULER = TRUE
  Jobs = {"process_limits", "expire_orders"}
  Interval <- Intervals
CHECK_DEADLOCK FALSE
INVARIANTS
  TypesOK
  OneOfEach
  SessionTrue
  DepositCounts
  LogoutEnds
  BalanceExisted
  NoTradeSkipped
  AllowanceHolds
  PacedIsServed
  OneRunAtATime
  
  DriftBounded
  TargetKept
  AverageBetween
  CacheShowsNewest
  SeedShown
