SPECIFICATION Spec
CONSTANTS
    NumBuffers = 2
    Managers = {0, 1, 2}
    Writers = {0}
    Readers = {1, 2}
    Destructive = TRUE
    Overwrite = TRUE
    BufferTimeout = FALSE
    Destinations <- AnyReader
    Forcers = {}
    Pollers = {}
    Detachers = {}
    SlowOwners = {}
    Crashers = {}
    MaxRetry = 1
    MaxHeld = 1
    MaxSeq = 3
INVARIANT NoTornRead
CHECK_DEADLOCK FALSE
