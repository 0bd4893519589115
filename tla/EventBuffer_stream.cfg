SPECIFICATION FairSpec
CONSTANTS
    worker = worker
    api = api
    Publishers = {worker, api}
    Local = {api}
    Worker = worker
    Api = api
    BatchSize = 2
    MaxMade = 2
    MaxEvents = 5
    MaxBreaks = 1
INVARIANTS LogInOrder EndComplete Contiguous LiveComplete
PROPERTIES BufferDrains StreamEnds
CHECK_DEADLOCK FALSE
