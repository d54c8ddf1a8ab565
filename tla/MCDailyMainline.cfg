SPECIFICATION FairSpec
CONSTANTS
    Budgets <- MCBudgets
    Limits <- MCLimits
    CandidateLimit = 3
    Earlier <- MCEarlier
    GatewayTimeout = 2
    ContextReserve = 2
    ReserveMax = 1
    MaxWork = 3
INVARIANTS
    CallsLeaveTimeForQueue
    LaterWindowNotSmaller
    StatusTellsWhatRan
    EveryCandidateQueued
    NothingRunsAfterFailure
PROPERTIES
    RunIsRecorded
    RunIsShort
CHECK_DEADLOCK FALSE
