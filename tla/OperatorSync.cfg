SPECIFICATION Spec
CONSTANTS
  Kinds = {"pvpro", "solarman"}
  p0 = p0
  p1 = p1
  d0 = d0
  d1 = d1
  d2 = d2
  Plant = {p0, p1}
  Device = {d0, d1, d2}
  PlantList <- MCPlantList
  Inverters <- MCInverters
  Broken = {p0}
  Located = {p1}
  Truth <- MCTruth
  HandSite = hand
  MaxFaults = 3
  None = None
INVARIANTS
  TypeOK
  ReadingsFaithful
PROPERTIES
  NoSecondSite
  KeepsDelivering
