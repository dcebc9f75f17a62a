SPECIFICATION Spec
CONSTANTS
    p1 = p1
    p2 = p2
    p3 = p3
    t1 = t1
    t2 = t2
    r1 = r1
    r2 = r2
    Paths <- TwoPaths
    Threads <- TwoThreads
    Resumers <- OneResumer
    MaxId = 2
    MaxWorkers = 1
    MaxBacklog = 1
    MaxCalls = 1
    Ops <- OpsAll
CHECK_DEADLOCK FALSE
SYMMETRY Sym
INVARIANT TypeOK QueueOK
PROPERTY PendingKept
