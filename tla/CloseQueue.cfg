SPECIFICATION FairSpec
CONSTANTS
    Conns = {c1, c2}
    Fds = {3, 4}
    Grace = 2
    Period = 1
    MaxKept = 1
    MaxWait = 2
    None = None
INVARIANTS NoUseAfterDelete ClosesOwnDescriptor
PROPERTY ClosedIsDeleted
