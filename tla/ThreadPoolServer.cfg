CONSTANTS
    p1 = p1
    p2 = p2
    s1 = s1
    s2 = s2
    NULL = NULL
    Submitters = {p1}
    Joiner = p1
    N = 2
    Sockets = {s1, s2}
    Owner <- ServerOwner
    MaxJobs = 2
    MaxRounds = 2
SPECIFICATION FairSpec
INVARIANT JoinedIsQuiet
PROPERTIES EveryTaskRuns ShutdownEnds
CHECK_DEADLOCK FALSE
