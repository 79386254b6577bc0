SPECIFICATION ServiceSpec
CONSTANTS
    r1 = r1
    r2 = r2
    w1 = w1
    w2 = w2
    Run <- TwoRuns
    Runner <- OneRow
    Desk <- OneDesk
    Times <- OneTime
    MaxEpoch = 2
    MaxActions = 1
    LibraryCalls = FALSE
    Retirable <- NoRows
SYMMETRY RunSymmetry
INVARIANTS
    TypeOK
    DesktopExclusive
PROPERTIES
    InterruptionIsLocal
CHECK_DEADLOCK FALSE
