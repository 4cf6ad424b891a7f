SPECIFICATION ServiceSpec
CONSTANTS
    None = None
    Users = {u1, u2}
    Tokens = {t1, t2}
    Intervals = {i1, i2}
INVARIANTS
    ServiceTypeOK
    BoundIsOwner
    PlanIsCurrent
PROPERTIES
    MonitoringContinues
    DeadTaskShows
