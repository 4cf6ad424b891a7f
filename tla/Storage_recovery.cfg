SPECIFICATION Spec
CONSTANTS
    Missing = Missing
    Corrupt = Corrupt
    Limit <- MCTwoKills
INVARIANT
    BackupRestores
CHECK_DEADLOCK FALSE
