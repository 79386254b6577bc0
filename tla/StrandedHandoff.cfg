SPECIFICATION FairSpec
CONSTANTS
    r1 = r1
    r2 = r2
    w1 = w1
    w2 = w2
    Run <- TwoRuns
    Runner <- OneRow
    Desk <- OneDesk
    Times <- NoTimes
    MaxEpoch = 2
    MaxActions = 0
    LibraryCalls = FALSE
    Retirable <- NoRows
PROPERTIES
    LostHandoffInterrupted
CHECK_DEADLOCK FALSE
