SPECIFICATION TimedSpec
CONSTANTS
    t1 = t1
    t2 = t2
    t3 = t3
    t4 = t4
    f1 = f1
    w1 = w1
    w2 = w2
    j1 = j1
    j2 = j2
    j3 = j3
    j4 = j4
    NoTask = NoTask
    Workers = {w1, w2}
    Plain = {t1, t2}
    Futures = {f1}
    Priority = TRUE
    MayJoin = TRUE
    Tunit <- WaitTunit
    Type <- WaitType
    Instants = {0}
    LastCall = 0
    Batch = 100
    Jobs = {j1, j2, j3, j4}
    Cron <- JobCron
    StartAt <- JobStarts
    MaxMinutes = 3
    MaxBusy = 1
    MayStop = TRUE
INVARIANTS FutureOutcome OnSchedule StopTouchesLive
PROPERTIES EveryTaskRuns NeverEarly ExactNext
CHECK_DEADLOCK FALSE
