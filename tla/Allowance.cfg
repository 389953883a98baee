SPECIFICATION Spec
CONSTANTS
  Stores = {"w1", "w2"}
  Clients = {"c"}
  Address <- OwnAddress
  Endpoints = {"login"}
  Limits <- LoginLimits
  Pace <- LoginPace
  MaxRestarts = 0
INVARIANTS AllowanceIsNTimes
