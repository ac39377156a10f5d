SPECIFICATION FairSpec
CONSTANTS
  Writer = {w1, w2}
  Body = {b1, b2, b3}
  MaxWeek = 3
  MaxTampers = 2
  NoWriter = NoWriter
  Null = Null
INVARIANTS
  AlarmExact
  RewriteEvident
  DeletionEvident
PROPERTIES
  InsertsReturn
CHECK_DEADLOCK FALSE
