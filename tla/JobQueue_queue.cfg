SPECIFICATION Spec
CONSTANTS
    r1 = r1
    r2 = r2
    t1 = t1
    w1 = w1
    w2 = w2
    s1 = s1
    c1 = c1
    Runs = {r1, r2}
    Threads = {t1}
    Runners = {w1, w2}
    Sweepers = {s1}
    Requests = {c1}
    ThreadOf <- QueueThreadOf
    NoRun = NoRun
    NoThread = NoThread
    MaxRetries = 2
    TryBound = 2
    MaxNamed = 1
SYMMETRY Alike
CONSTRAINT Unstrayed
INVARIANTS OneWorkerPerThread CancelHeard
PROPERTIES EndedStays
CHECK_DEADLOCK FALSE
