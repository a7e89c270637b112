SPECIFICATION FairSpec
CONSTANTS
    NumBuffers = 2
    Managers = {0, 1, 2}
    Writers = {0}
    Readers = {1, 2}
    Destructive = TRUE
    Overwrite = FALSE
    BufferTimeout = TRUE
    Destinations <- AnyReader
    Forcers = {}
    Pollers = {0}
    Detachers = {}
    SlowOwners = {}
    Crashers = {1}
    MaxRetry = 1
    MaxHeld = 1
    MaxSeq = 2
PROPERTY ReaderCrashRecovered
CHECK_DEADLOCK FALSE
