SPECIFICATION StraySpec
CONSTANTS
    n1 = n1
    n2 = n2
    n3 = n3
    Node <- Three
    Worlds <- Strays
INVARIANTS
    LeaderCompleteness
CHECK_DEADLOCK FALSE
