CONSTANTS
    Data = {d1, d2}
    Client = {t1, t2, async}
    Async = async
    NoThread = NoThread
    MinAllocations = 1
    Percents = {75, 150}
    DefaultPercent = 75
    Deficit = 90
    Word = 16
SPECIFICATION Spec
INVARIANTS
    TypeOK
    FlagsBeforeDrops
    DestroyedOnce
    CleanupRunsDestructors
PROPERTIES
    CleanupReturns
    SentEventuallyDestroyed
    GrowthServed
CHECK_DEADLOCK FALSE
