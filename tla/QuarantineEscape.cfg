SPECIFICATION Spec
CONSTANTS
    r1 = r1
    r2 = r2
    w1 = w1
    w2 = w2
    Run <- TwoRuns
    Runner <- TwoRows
    Desk <- OneDesk
    Times <- NoTimes
    MaxEpoch = 1
    MaxActions = 1
    LibraryCalls = TRUE
    Retirable <- FirstRow
INVARIANTS
    QuarantineOutlivesRow
CHECK_DEADLOCK FALSE
