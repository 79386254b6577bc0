SPECIFICATION Spec
CONSTANTS
    reader = reader
    observer = observer
    Times <- ThreeTimes
    MaxEpoch = 2
    MaxRevision = 8
    Producer <- Producers
    Declared <- Reader
    Required <- Producers
    MaxSequence = 2
    Worker = {a1, a2}
    Id = {b1, b2}
    Payload = {p1, p2}
    Message = {a1, a2}
    Consumer = {b1, b2}
    Publisher = {p1, p2}
    Limit = 2
    Skewed = TRUE
    MaxCopies = 2
    Principals = {p1, p2}
    Workspace = ws
    Calls = {p1, p2}
    PrincipalOf <- OwnPrincipal
    Burst <- Bursts
    Unit = 4
    Rate = 3
    IdleFor = 5
    Late = 1
    MaxClock = 6
    Nothing = nothing
    Requests <- FourRequests
    Canonical = {"s1"}
    NoKey = nokey
    MaxQueued = 2
    Limits <- TwoLimits
    MaxEntitlementRevision = 1
    CandidateRuns = {"c1"}
    People = {u1, u2}
    Author = u1
    Slips = {b1, b2}
    MaxPatch = 2
    MaxMoves = 3
    NoReviewer = noreviewer
SYMMETRY Interchangeable
INVARIANTS
    RowIsAdmissible
    CancelledMeansStopped
    AmbiguityAndVerdict
    ChainAttests
    ProducersContiguous
    AnswersHold
    LockNotStranded
    NoneLost
    AnnouncedIsCommitted
    AcknowledgedOnce
    LimiterHolds
    ReviewIsInformed
PROPERTIES
    AdmissionIsExact
    ForwardOnly
    CancellationFences
    CompleteIsFinal
    ImplementsLog
