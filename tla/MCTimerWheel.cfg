SPECIFICATION Spec
CONSTANTS
  Ms = 2
  Horizon = 14
  MaxTimers = 2
  Specs <- MCSpecs
  BurstCap = 2
  SlotsPerLevel = 2
  Levels = 3
  MaxCatchup = 4
INVARIANTS
  CursorComesInTime
PROPERTIES
  KeepsPromise
CHECK_DEADLOCK FALSE
