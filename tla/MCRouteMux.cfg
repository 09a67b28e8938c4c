SPECIFICATION FairSpec
CONSTANTS
    Window = 2
    Threshold = 2
    RouteDepth = 1
    ControlDepth = 1
    DatagramDepth = 1
    ControlBurst = 1
    WireDepth = 1
    Worlds <- MCWorlds
INVARIANTS
    NoOverrun
PROPERTIES
    InOrder
    CreditKept
    DataArrives
CHECK_DEADLOCK FALSE
