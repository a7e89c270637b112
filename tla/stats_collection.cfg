SPECIFICATION CollectionSpec
CONSTANTS
    a = a
    c = c
    r = r
    NoThread = NoThread
    Threads = {a, c, r}
    Adders = {a}
    Calculators = {c, r}
    Collector = c
    Resetters = {r}
    Switchers = {r}
    Windowers = {r}
    BinCounts = {1, 2}
    Interval = 1
    StartTime = 1
    MaxTime = 3
    MaxSamples = 2
INVARIANT SampleOnce WindowIsHistory CollectedFresh CollectedInOrder
PROPERTY NoSampleLost SampleCounted StopsOnRequest
CHECK_DEADLOCK FALSE
