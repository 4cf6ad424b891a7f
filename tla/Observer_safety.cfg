SPECIFICATION ObserverSpec
CONSTANTS
    None = None
    Tolerance = 1
    Day = 1
    GrantLimit = 1
    MaxTime = 4
    MaxUsed = 2
    MaxTurns = 2
    Length = 2
    Life = 3
    MaxCredits = 2
    MaxRestored = 2
INVARIANTS
    ObserverTypeOK
PROPERTIES
    NoFalseRelief
    NoInventedGrant
    NoSilentGrant
