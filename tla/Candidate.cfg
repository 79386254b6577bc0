SPECIFICATION Spec
CONSTANTS
    LaunchRoles = {candidate}
    FinalRole = final
    ReaderActions = {x1, x2}
    Owners = {u1}
    Bindings = {g1}
    Previews = {x1, x2}
    Publishers = {q1, q2}
    Deliveries = {e1}
    Denials = {"removed"}
    Watched = g1
    NoOne = noone
    Admins = {q1, q2}
    Schedulers = {w1, w2}
    DueTimes = {x1, x2}
    Locking = {w1}
    MaxGrantRevision = 3
    MaxScheduleRevision = 3
    MaxGrantRestores = 1
SYMMETRY Interchangeable
INVARIANTS
    PublicationIsSafe
PROPERTIES
    SessionIsTrustworthy
    SchedulesAreAuthorized
CHECK_DEADLOCK FALSE
