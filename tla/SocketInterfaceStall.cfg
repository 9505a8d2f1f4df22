SPECIFICATION FairSpec
CONSTANTS
    K = 2
    Size <- LargeSize
    SndBuf = 2
CHECK_DEADLOCK FALSE
PROPERTIES
    EveryRequestAnswered
