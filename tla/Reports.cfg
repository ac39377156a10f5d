SPECIFICATION ReportsSpec
CONSTANTS
  d1 = d1
  d2 = d2
  d3 = d3
  home = home
  abroad = abroad
  empty = empty
  NG = NG
  GB = GB
  pilot = pilot
  Nil = Nil
  Device = {d1, d2, d3}
  Site = {home, abroad, empty}
  Country = {NG, GB}
  Cohort = {pilot}
  SiteOf <- MCSiteOf
  CountryOf <- MCCountryOf
  CohortOf <- MCCohortOf
  SizeOf <- MCSizeOf
  Located = {home, abroad}
  CreatedOn <- MCCreatedOn
  Irradiance <- MCIrradiance
  Energy = {1, 3}
  Factor = {1, 2}
  WeekDays = 2
  MonthDays = 3
  WindowDays = 2
  MaxDay = 3
  MaxEvents = 3
SYMMETRY Alike
INVARIANTS
  ReportsAgree
  AnomalyJustified
PROPERTIES
  FactorHistoryStable
CHECK_DEADLOCK FALSE
