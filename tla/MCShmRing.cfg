SPECIFICATION FairSpec
CONSTANTS
    c1 = c1
    Consumer <- OneConsumer
    Handle = {1, 2}
    SlotCount = 2
    MaxConsumers = 1
    Policies = {TRUE, FALSE}
    MaxSeq = 3
    MaxEpoch = 2
    Killable = {"producer", c1}
    MaySeek = TRUE
    StaleLoads = TRUE
INVARIANTS
    PinnedIsIntact
    ResidentWindow
    MispinReportsLag
PROPERTIES
    BlockHoldsBack
    BackpressureEnds
    CursorMoves
CHECK_DEADLOCK FALSE
