SPECIFICATION BothSpec
CONSTANTS
    r1 = r1
    r2 = r2
    w1 = w1
    w2 = w2
    Run <- TwoRuns
    Runner <- OneRow
    Desk <- OneDesk
    Times <- OneTime
    MaxEpoch = 2
    MaxActions = 0
    LibraryCalls = FALSE
    Retirable <- NoRows
    Kinds = {k1, k2}
    Classes = {k1, k2}
    ClassOf <- OwnClass
    Deletions = {d1}
    PurgeWorker = w
    BatchSize = 1
    MaxFaults = 1
PROPERTIES
    LostHandoffSettles
    CancelledRunEnds
    PromisesAreKept
    RetentionIsHonest
CHECK_DEADLOCK FALSE
