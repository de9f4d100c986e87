SPECIFICATION Spec
CONSTANTS
    Device = {d1}
    DhId = {h1}
    IsoDevice = {i1}
    Slots = 4
    TaskId <- MCTaskId
    NoTask = NoTask
    NoDh = NoDh
    NoDevice = NoDevice
    MayFail = FALSE
    MaxTaskQueueLength = 1
    MaxEvents = 2
INVARIANTS
    CacheOfOnlineDevices
    EntryIsCounted
PROPERTIES
    TasksBehave
CHECK_DEADLOCK FALSE
