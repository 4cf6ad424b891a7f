SPECIFICATION MonitorSpec
CONSTANTS
    None = None
    Accounts = {acctA, acctB}
    Windows <- MCWindows
    HistoryLimit = 1
    DedupeLimit = 3
    Callers = {"scheduler", "login"}
    ManualCallers = {"login"}
    LoginCallers = {"login"}
    TaskIds = {t1, t2}
    MaxChecks = 5
    Switches = {"significant_change"}
    MaxSigns = 2
SYMMETRY MCSymmetry
INVARIANTS
    MonitorTypeOK
    SingleFlight
    AccountIsolation
    RecordedOnce
    CapturedIsCurrent
    OutageConsistent
    RecoveryFollowsOutage
PROPERTIES
    ResetRecorded
    EarlyNeedsSecondRead
