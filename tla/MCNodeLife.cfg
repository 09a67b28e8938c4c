SPECIFICATION Spec
CONSTANTS
  MaxGen = 2
  Batch = 2
  Worlds <- MCWorlds
INVARIANTS
  ClosuresAreTruthful
  TailKept
  NoOrphan
  NothingUncounted
CHECK_DEADLOCK FALSE
PROPERTIES
  EventuallyDelivered
  EndsAreSettled
