SPECIFICATION OrderedSpec
CONSTANTS
  Device = {d1}
  Request = {1, 2, 3}
  MaxFaults = 2
  None = None
INVARIANTS
  NothingStolen
  CredentialsAgree
  DeletedForGood
PROPERTIES
  RequestsReturn
CHECK_DEADLOCK FALSE
