SPECIFICATION Spec
CONSTANTS
  DabpPeriod = 4
  EdiPeriod = 3
  MaxDelays = {2, 6}
  MaxTime = 20
INVARIANTS PacedInTime
PROPERTIES DabpNeverEarly EdiTwoPerPeriod
CHECK_DEADLOCK FALSE
