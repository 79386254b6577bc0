SPECIFICATION ScenarioSpec
CONSTANTS
    r1 = r1
    r2 = r2
    w1 = w1
    w2 = w2
    Run <- TwoRuns
    Runner <- TwoRows
    Desk <- OneDesk
    Times <- TwoTimes
    MaxEpoch = 2
    MaxActions = 2
    LibraryCalls = TRUE
    Retirable <- FirstRow
SYMMETRY TwoRunSymmetry
INVARIANTS
    DesktopIsFenced
    LeaseAgreement
    StopProof
PROPERTIES
    NoLateOrRepeatedAction
    LifecycleRefined
CHECK_DEADLOCK FALSE
