SPECIFICATION Spec
CONSTANTS
  None = None
  Keep = Keep
  Browsers = {b1}
  Letters = {"a"}
  Passwords = {p1}
  Opening = 1
  Amount = 3
  InFlight = 2
  MaxSent = 4
  MaxResets = 0
CHECK_DEADLOCK FALSE
INVARIANTS LogoutAtOnce
