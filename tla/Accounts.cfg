SPECIFICATION Spec
CONSTANTS
  Email = {u, v}
  MaxLinks = 2
  Req = {r1, r2}
  Site = {home, new}
  OldSite = {home}
  MaxRequests = 3
  MaxFaults = 2
  None = None
INVARIANTS
  PasswordIsOwn
  
  PrimaryAgrees
PROPERTIES
  DisabledRunsOut
CHECK_DEADLOCK FALSE
