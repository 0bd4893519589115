SPECIFICATION Spec
CONSTANTS
    q1 = q1
    q2 = q2
    t1 = t1
    t2 = t2
    i1 = i1
    p1 = p1
    start = start
    Requests = {q1, q2}
    Threads = {t1, t2}
    Keys <- AllKeys
    NoKey = NoKey
    Interrupts = {i1}
    NoInterrupt = NoInterrupt
    MaxRuns = 3
    Asked = t1
    Principals = {p1}
    Starts <- KeyedStarts
    MaxTakenBack = 1
SYMMETRY Alike
INVARIANTS Idempotent RejectAlone RowSound
CHECK_DEADLOCK FALSE
