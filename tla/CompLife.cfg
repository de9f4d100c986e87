SPECIFICATION Spec
CONSTANTS
    DHType = {camera}
    PrivacyType = {camera}
    NamedType = {camera}
    MaxEvents = 2
    MaxLives = 2
INVARIANTS
    OffMeansReleased
    MonitorsRemoved
PROPERTIES
    InitAndUnInitReturn
    DeathIsRecovered
CHECK_DEADLOCK FALSE
