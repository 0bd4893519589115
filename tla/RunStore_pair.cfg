SPECIFICATION Spec
CONSTANTS
    r1 = r1
    r2 = r2
    t1 = t1
    t2 = t2
    w1 = w1
    w2 = w2
    Runs = {r1, r2}
    Threads = {t1}
    Workers = {w1, w2}
    NoThread = NoThread
    NoWorker = NoWorker
    NoRun = NoRun
    ThreadOf <- QueueThreadOf
    IsResume <- NoResume
    MaxAttempts = 1
    QueueBound = 2
    Endings = {"success", "hitl", "timeout"}
SYMMETRY Slots
INVARIANTS
    TypeOK
    OneHolderPerThread
    LeaseMatchesRun
    RollbackBarrier
    OneWriterPerThread
    EndedRunHasEvent
    PositionsDistinct
PROPERTIES
    EndedUnlessStale
    ImplementsQueue
CHECK_DEADLOCK FALSE
