SPECIFICATION HistorySpec
CONSTANTS
    n1 = n1
    n2 = n2
    n3 = n3
    Node <- Three
    Worlds <- Histories
INVARIANTS
    ElectionSafety
    LogMatching
    LeaderCompleteness
    StateMachineSafety
    MatchIsHeld
    MembershipFollowsLog
CHECK_DEADLOCK FALSE
