SPECIFICATION FairSpec
CONSTANTS
    SetBits = 2
    MaxPerProduce = 3
    MaxRequested = 2
    MaxTracked = 2
    WriteBound = 4
    Worlds <- MCWorlds
INVARIANTS
    NothingSkipped
    AckIsHonest
    NothingLost
    DeliveredOnce
PROPERTIES
    Repaired
    Acknowledged
