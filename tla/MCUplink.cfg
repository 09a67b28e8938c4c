SPECIFICATION FairSpec
CONSTANTS
    Conns <- MCConns
    OutboundDepth = 6
    BeatBound = 1
    Worlds <- MCWorlds
INVARIANTS
    CursorIsHonest
    FactsOnceInOrder
PROPERTIES
    Settles
    AskedIsAnswered
