SPECIFICATION Spec
CONSTANTS
  c1 = c1
  c2 = c2
  d1 = d1
  d2 = d2
  Conn = {c1, c2}
  Device = {d1, d2}
  Account <- Accounts
  Worker = {w1, w2}
  MaxFaults = 0
  None = None
PROPERTIES
  RevokedStays
CHECK_DEADLOCK FALSE
