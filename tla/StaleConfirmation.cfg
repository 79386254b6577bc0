SPECIFICATION ScheduleSpec
CONSTANTS
    Admins = {a1}
    Schedulers = {w1}
    DueTimes = {x1}
    Locking = {w1}
    MaxGrantRevision = 3
    MaxScheduleRevision = 2
    MaxGrantRestores = 2
PROPERTIES
    ConfirmedAfterReading
CHECK_DEADLOCK FALSE
