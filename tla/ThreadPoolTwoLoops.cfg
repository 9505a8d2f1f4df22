CONSTANTS
    p1 = p1
    p2 = p2
    s1 = s1
    s2 = s2
    NULL = NULL
    Submitters = {p1, p2}
    Joiner = p2
    N = 2
    Sockets = {s1, s2}
    Owner <- TwoLoopsOwner
    MaxJobs = 2
    MaxRounds = 2
SPECIFICATION Spec
INVARIANTS NoLostWakeup SocketSerial
PROPERTIES SocketInOrder
CHECK_DEADLOCK FALSE
