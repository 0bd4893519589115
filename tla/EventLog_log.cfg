SPECIFICATION SpecLog
CONSTANTS
    r1 = r1
    r2 = r2
    t1 = t1
    NoThread = NoThread
    NoRun = NoRun
    Runs = {r1, r2}
    Threads = {t1}
    Followed = t1
    ThreadOf <- OneThread
    Slots = {w1, w2}
    BatchSize = 2
    SeqBound = 5
SYMMETRY SameRuns
INVARIANTS TypeOK SequenceUnique TerminalOnce RunReplayComplete ThreadReplayComplete
CHECK_DEADLOCK FALSE
