SPECIFICATION Spec
CONSTANTS
    DATA_QUEUE_MAX_SIZE = 1
    MAX_CLOCK_UNIT_COUNT = 2
    MaxFrame = 3
    MaxWire = 1
    MaxLives = 4
INVARIANTS WorkersEndFirst ClockIsNewest
PROPERTIES StreamInOrder StopReturns
CHECK_DEADLOCK FALSE
