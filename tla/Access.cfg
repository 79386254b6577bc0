SPECIFICATION Spec
CONSTANTS
    Users = {u1, u2}
    Founder = u1
    Subjects = {g1}
    Offers = {i1}
    Browsers = {b1}
    Roles = {"OWNER", "VIEWER"}
    Nobody = nobody
    MaxRevision = 3
    Slots = {x1, x2}
    Staff = {z1, z2}
    Envs = {e1, e2}
    Builds = {a1}
    Journeys = {j1}
    Seals = {m1}
    Workers = {x1, x2}
    Readers = {o1, o2}
    None = none
    MaxActs = 1
    Repairs = {x1, x2}
    Diagnoses = {d1}
    Operators = {o1, o2}
    TokenLimit = 2
    MaxSurfaceRevision = 0
SYMMETRY Interchangeable
PROPERTIES
    AccessIsGoverned
    SealGoverns
    DeliveryIsConsented
CHECK_DEADLOCK FALSE
