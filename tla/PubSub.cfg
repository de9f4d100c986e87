SPECIFICATION Spec
CONSTANTS
    Listener = {l1, l2}
    Publisher = {p1}
    Low = Low
    NoOne = NoOne
    DHType = {screen, camera}
    MAX_LISTENER_SIZE = 1
    MaxCalls = 4
    MaxStarts = 2
    MaxComps = 1
INVARIANTS ListenersRestored LatencyFollowsSwitch
CHECK_DEADLOCK FALSE
