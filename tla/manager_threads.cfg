SPECIFICATION Spec
CONSTANTS
    w1 = w1
    w2 = w2
    r1 = r1
    r2 = r2
    NoThread = NoThread
    Threads = {w1, w2, r1, r2}
    ManagerOf <- TwoProcesses
    Producers = {w1, w2}
    Consumers = {r1, r2}
    Pollers = {r1, r2}
    NumBuffers = 2
    Destinations <- AnyReader
    MaxRetry = 0
    MaxSeq = 2
SYMMETRY Twins
INVARIANT OneThreadPerBuffer NobodyDetached EventIdsDistinct NoCircle
