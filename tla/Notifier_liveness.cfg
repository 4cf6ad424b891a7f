SPECIFICATION NotifierSpec
CONSTANTS
    None = None
    Accounts = {acctA}
    Windows <- MCOneWindow
    HistoryLimit = 2
    DedupeLimit = 9
    Callers = {"owner", "login"}
    ManualCallers = {"owner", "login"}
    LoginCallers = {"login"}
    TaskIds = {t1}
    Switches = {}
    MaxChecks = 3
    MaxSigns = 1
    MaxUnheard = 1
    MaxCrashes = 1

PROPERTIES
    NoticesLeave
    CheckReturns
CHECK_DEADLOCK FALSE
