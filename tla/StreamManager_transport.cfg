SPECIFICATION Spec
CONSTANTS
    worker = worker
    api = api
    w = w
    h = h
    Procs = {worker, api}
    Tasks = {w, h}
    Cancellers = {h}
    ProcOf <- TwoProcesses
    ReaderAt = api
    ListenerAt = worker
    BatchSize = 2
    MaxPuts = 2
    BufferCap = 1
    SeenCap = 1
    MaxId = 2
    MaxBreaks = 1
INVARIANTS NothingMissed ControlHeard
CHECK_DEADLOCK FALSE
