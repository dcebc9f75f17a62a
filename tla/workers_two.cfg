SPECIFICATION Spec
CONSTANTS
    p1 = p1
    p2 = p2
    p3 = p3
    t1 = t1
    t2 = t2
    r1 = r1
    r2 = r2
    Paths <- ThreePaths
    Threads <- TwoThreads
    Resumers <- TwoResumers
    MaxId = 3
    MaxWorkers = 2
    MaxBacklog = 0
    MaxCalls = 1
    Ops <- OpsRestart
CHECK_DEADLOCK FALSE
SYMMETRY Sym
INVARIANT OneWorkerPerFolder NoneStranded
