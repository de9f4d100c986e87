SPECIFICATION Spec
CONSTANTS
    Peer = {p1}
    Own = {h1, h2}
    Installed = {h1}
    NoStore = NoStore
    DIED_CHECK_MAX_TIMES = 2
    MaxVersion = 2
    MaxEvents = 2
    MaxLives = 1
INVARIANTS
    CacheAgrees
    OwnRecordsReal
PROPERTIES
    RecoveryEnds
CHECK_DEADLOCK FALSE
