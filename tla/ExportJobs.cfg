SPECIFICATION FairSpec
CONSTANTS
  Job = {j1, j2, j3}
  Worker = {w1}
  QueueSize = 1
  MaxFaults = 1
  None = None
INVARIANTS
  CompletedHasFile
PROPERTIES
  YoungOutcomeIsFinal
  EveryJobEnds
CHECK_DEADLOCK FALSE
