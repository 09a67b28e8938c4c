SPECIFICATION FairSpec
CONSTANTS
    c1 = c1
    Consumer <- OneConsumer
    Handle = {1}
    SlotCount = 1
    MaxConsumers = 1
    Policies = {FALSE}
    MaxSeq = 2
    MaxEpoch = 2
    Killable = {c1}
    MaySeek = FALSE
    StaleLoads = FALSE
PROPERTIES
    NoWedge
CHECK_DEADLOCK FALSE
