SPECIFICATION Spec
CONSTANTS
    Missing = Missing
    Corrupt = Corrupt
    Limit <- MCLimit
INVARIANTS
    TypeOK
    NeverReset
    SurvivesOneDamage
PROPERTY
    AckedSurvives
CHECK_DEADLOCK FALSE
