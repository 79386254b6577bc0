SPECIFICATION Spec
CONSTANTS
    r1 = r1
    r2 = r2
    w1 = w1
    w2 = w2
    Run <- OneRun
    Runner <- OneRow
    Desk <- OneDesk
    Times <- NoTimes
    MaxEpoch = 1
    MaxActions = 0
    LibraryCalls = TRUE
    Retirable <- OneRow
INVARIANTS
    RevokedHasNoLease
CHECK_DEADLOCK FALSE
