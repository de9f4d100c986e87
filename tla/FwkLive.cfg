SPECIFICATION FairSpec
CONSTANTS
    Device = {d1}
    DhId = {h1}
    IsoDevice = {}
    Slots = 5
    TaskId <- MCTaskId
    NoTask = NoTask
    NoDh = NoDh
    NoDevice = NoDevice
    MayFail = TRUE
    MaxTaskQueueLength = 5
    MaxEvents = 1
INVARIANTS
    FwkTypeOK
    BoardKeepsTasksAlive
    FatherWaitsForChildren
    OneOnLineTaskRuns
    QueuedOnce
PROPERTIES
    EveryTaskFinishes
CHECK_DEADLOCK FALSE
