SPECIFICATION FairSpecKept
CONSTANTS
    r1 = r1
    r2 = r2
    t1 = t1
    t2 = t2
    w1 = w1
    w2 = w2
    Runs = {r1, r2}
    Threads = {t1}
    Workers = {w1}
    NoThread = NoThread
    NoWorker = NoWorker
    NoRun = NoRun
    ThreadOf <- QueueThreadOf
    IsResume <- OneResume
    MaxAttempts = 2
    QueueBound = 2
    Endings = {"success", "hitl"}
PROPERTIES
    RunningEnds
    PendingServed
    RollbackEnds
CHECK_DEADLOCK FALSE
