SPECIFICATION NotifierSpec
CONSTANTS
    None = None
    Accounts = {acctA, acctB}
    Windows <- MCWindows
    HistoryLimit = 1
    DedupeLimit = 9
    Callers = {"owner", "login"}
    ManualCallers = {"owner", "login"}
    LoginCallers = {"login"}
    TaskIds = {t1}
    Switches = {}
    MaxChecks = 4
    MaxSigns = 1
    MaxUnheard = 1
    MaxCrashes = 1
SYMMETRY MCSymmetry
INVARIANTS
    DuplicatesAreUnheard
PROPERTIES
    ImplementsMailbox
CHECK_DEADLOCK FALSE
