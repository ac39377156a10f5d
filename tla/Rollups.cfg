SPECIFICATION RollupsSpec
CONSTANTS
  Device = {d1}
  Slot = {1, 2, 3}
  Counter = {0, 2}
  MaxDay = 4
  MaxReadings = 3
  RefreshDays = 3
  RetentionDays = 2
INVARIANTS
  DayEnergySound
PROPERTIES
  PastStands
  LateReadingsCount
CHECK_DEADLOCK FALSE
