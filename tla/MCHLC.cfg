SPECIFICATION Spec
CONSTANTS
    k1 = k1
    k2 = k2
    c1 = c1
    c2 = c2
    c3 = c3
    Clock <- MCClock
    Caller <- MCCaller
    ClockOf <- MCClockOf
    MaxPhysical = 2
    MaxLogical = 1
    MaxDrift = 1
    MaxWire = 1
INVARIANTS
    DriftContained
PROPERTIES
    StrictlyIncreasing
    MergeExceedsRemote
