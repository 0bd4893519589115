SPECIFICATION Spec
CONSTANTS
    r1 = r1
    r2 = r2
    t1 = t1
    t2 = t2
    w1 = w1
    w2 = w2
    Runs = {r1}
    Threads = {t1}
    Workers = {w1, w2}
    NoThread = NoThread
    NoWorker = NoWorker
    NoRun = NoRun
    ThreadOf <- QueueThreadOf
    IsResume <- NoResume
    MaxAttempts = 3
    QueueBound = 3
    Endings = {"success", "hitl", "business"}
SYMMETRY Slots
INVARIANTS
    GenerationHeldOnce
CHECK_DEADLOCK FALSE
