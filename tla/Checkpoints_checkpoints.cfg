SPECIFICATION Spec
CONSTANTS
    r1 = r1
    r2 = r2
    t1 = t1
    t2 = t2
    main = main
    sub = sub
    Runs = {r1, r2}
    NoRun = NoRun
    Threads = {t1, t2}
    First = t1
    Namespaces = {main}
    ThreadOf <- OneThread
    MaxId = 3
    MaxWrites = 1
    MaxOps = 2
    MaxGen = 2
SYMMETRY Alike
INVARIANTS HeadReadable AttemptsContiguous
PROPERTIES RollbackOwn
CHECK_DEADLOCK FALSE
