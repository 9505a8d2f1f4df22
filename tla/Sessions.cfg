\* Two sessions over a pool of one connection and one handle beyond it; two
\* threads of one process, or two processes, with blocks of four identifiers, since
\* of one or two none would ever be given.
CONSTANTS
    Clients = {c1, c2}
    PoolSize = 1
    Extra = 1
    Tries = 2
    MaxWork = 1
    Processes = {p1}
    Threads = {t1, t2}
    Low = 4
    EntityType = "table"
    MaxHi = 3
    MaxFailures = 1
    p1 = p1 p2 = p2 t1 = t1
SPECIFICATION SessionsSpec
INVARIANTS OneOwner OwnWork Unique
PROPERTY CallReturns
CHECK_DEADLOCK FALSE
