SPECIFICATION FairSpec
CONSTANTS
    Calls = {c1, c2, c3}
    Limits = {1, 2}
    MaxLimit = 2
    Spacing = 2
    Backoff <- OneRetry
INVARIANTS
    TypeOK
    SlotAccounting
    QueueOfWaiters
    NoStrandedWaiter
    BurstBound
PROPERTIES
    EveryCallEnds
    ImplementsSemaphore
