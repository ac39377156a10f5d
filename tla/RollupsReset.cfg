SPECIFICATION RollupsSpec
CONSTANTS
  Device = {d1}
  Slot = {1, 2, 3}
  Counter = {0, 1, 3}
  MaxDay = 4
  MaxReadings = 3
  RefreshDays = 3
  RetentionDays = 2
INVARIANT ResetsFlagged
CHECK_DEADLOCK FALSE
