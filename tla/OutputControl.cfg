SPECIFICATION FairSpec
CONSTANTS
    QUEUE_MAX_SIZE = 1
    MaxFrame = 4
    MaxLives = 2
INVARIANT NoThreadLeft
PROPERTIES OutputsInOrder FramesMoveOn
CHECK_DEADLOCK FALSE
