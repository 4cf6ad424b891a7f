SPECIFICATION LoginSpec
CONSTANTS
    None = None
    Handlers = {h1, h2}
    MaxLogins = 2
    QueueLimit = 2
INVARIANTS
    LoginTypeOK
    PendingIsWatched
PROPERTIES
    EndedForAReason
    ToldTheTruth
    SwallowedOnlyByStale
    PendingEnds
