SPECIFICATION Spec
CONSTANTS
    NumBuffers = 2
    Managers = {0, 1}
    Writers = {0}
    Readers = {1}
    Destructive = FALSE
    Overwrite = FALSE
    BufferTimeout = TRUE
    Destinations <- AnyReader
    Forcers = {}
    Pollers = {}
    Detachers = {}
    SlowOwners = {1}
    Crashers = {}
    MaxRetry = 1
    MaxHeld = 1
    MaxSeq = 3
PROPERTY NewerThanSeen
CHECK_DEADLOCK FALSE
