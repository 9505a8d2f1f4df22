SPECIFICATION FairSpec
CONSTANTS
    K = 4
    HdrEnd <- MixedHdrEnd
    End <- MixedEnd
    Fin <- MixedFin
    FinLen = 2
    Chunk = 3
    Size <- MixedSize
    SndBuf = 2
CHECK_DEADLOCK FALSE
INVARIANTS
    Framed
    OutputWatched
    EdgeKept
    PeerClosesFirst
PROPERTIES
    ImplementsResponses
    EveryRequestAnswered
