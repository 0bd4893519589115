SPECIFICATION SpecKept
CONSTANTS
    r1 = r1
    r2 = r2
    t1 = t1
    NoThread = NoThread
    NoRun = NoRun
    Runs = {r1, r2}
    Threads = {t1}
    Followed = t1
    ThreadOf <- OneThread
    Slots = {w1}
    BatchSize = 2
    SeqBound = 5
SYMMETRY SameRuns
INVARIANTS FollowerComplete
PROPERTIES SequenceMonotone
CHECK_DEADLOCK FALSE
