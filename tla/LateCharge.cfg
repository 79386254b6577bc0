SPECIFICATION LimiterSpec
CONSTANTS
    p1 = p1
    c1 = c1
    c2 = c2
    c3 = c3
    Principals <- OnePrincipal
    Workspace = ws
    Calls <- ThreeCalls
    PrincipalOf <- SamePrincipal
    Burst <- TwoTokens
    Unit = 3
    Rate = 2
    IdleFor = 9
    Late = 1
    MaxClock = 4
    Nothing = nothing
INVARIANTS
    RateHolds
CHECK_DEADLOCK FALSE
