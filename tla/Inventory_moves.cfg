SPECIFICATION MCFairSpec
CONSTANTS
    p1 = p1
    p2 = p2
    r1 = r1
    r2 = r2
    r3 = r3
    Nobody = Nobody
    Product = {p1, p2}
    Request = {r1, r2, r3}
    Seeded = {p1}
    MaxInt <- MCMaxInt
    PoolSize = 2
    SeedStock <- MCSeedStock
    SeedMin <- MCSeedMin
    Calls <- MCCalls
    CloserWired = TRUE
INVARIANTS
    TypeOK
    StockNeverNegative
    LockedRowIsCurrent
    RequestPostedOnce
    AnswersAreTrue
    LedgerReconciles
    OnlyCatalogLeavesUnflagged
    NothingLeaks
PROPERTIES
    RefinesLedger
    MovementRaisesAlert
    OnlyRecoveryResolves
    EveryRequestSettles
