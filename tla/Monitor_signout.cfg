SPECIFICATION MonitorSpec
CONSTANTS
    None = None
    Accounts = {acctA}
    Windows <- MCWindows
    HistoryLimit = 2
    DedupeLimit = 4
    Callers = {"owner", "login"}
    ManualCallers = {"login", "owner"}
    LoginCallers = {"login"}
    TaskIds = {t1}
    MaxChecks = 4
    Switches = {"significant_change"}
    MaxSigns = 4
PROPERTY
    SignOutAnnounced
