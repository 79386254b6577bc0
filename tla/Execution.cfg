SPECIFICATION Spec
CONSTANTS
    Workers = {w1, w2}
    Callers = {c1, c2}
    MaxSurface = 1
    Navigators = {x1, x2}
    MaxActions = 2
    MaxCalls = 2
    MaxStarts = 2
    d1 = d1
    Run = {r1, r2}
    Runner = {d1, d2}
    Txn = {t1, t2}
    Desktop <- OneDesktop
    Bound = {r1}
    Kinds = {"session", "executionGrant"}
    MaxRestores = 2
    MaxBackups = 2
INVARIANTS
    BaselineIsTrustworthy
    OthersNeverDeadlock
PROPERTIES
    
    NativeInputIsAccounted
    RestoreIsSafe
CHECK_DEADLOCK FALSE
