SPECIFICATION FairSpec
CONSTANTS
  Device = {d1}
  Timestamp = {1, 2}
  Energy = {1, 2}
  Payload <- MCPayload
  Ingestor = {mqtt1, mqtt2}
  Request = {cloud1}
  MaxBatch = 2
  MaxArrivals = 2
  MaxFaults = 2
INVARIANTS
  AuditBeforeStore
  ProcessedIsStored
  LastSeenCatchesUp
  ResetFlagSound
  ReplyHonest
  RevocationTakesHold
PROPERTIES
  EverySettles
  ImplementsStore
CHECK_DEADLOCK FALSE
