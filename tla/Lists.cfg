SPECIFICATION ListsSpec
CONSTANTS
  List = {"sites", "users", "devices", "telemetry", "actions", "ingestion", "health", "segments"}
  Tie = {1, 2, 3}
  About = {x, y}
  MaxAt = 2
  MaxLimit = 2
  DefaultPageLimit = 1
  None = None
SYMMETRY Symmetry
INVARIANTS
  ListedOnce
  WalkComplete
CHECK_DEADLOCK FALSE
