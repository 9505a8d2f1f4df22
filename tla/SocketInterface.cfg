SPECIFICATION FairSpec
CONSTANTS
    K = 4
    Size <- MixedSize
    SndBuf = 2
CHECK_DEADLOCK FALSE
INVARIANTS
    WindowExact
PROPERTIES
    ImplementsResponses
    OnceBlockedAnswered
    HangupCloses
