SPECIFICATION Spec
CONSTANTS
    NumBuffers = 1
    Managers = {0, 1, 2}
    Writers = {0, 1}
    Readers = {1, 2}
    Destructive = TRUE
    Overwrite = FALSE
    BufferTimeout = FALSE
    Destinations <- AddressedTo2
    Forcers = {1}
    Pollers = {}
    Detachers = {1}
    SlowOwners = {}
    Crashers = {0}
    MaxRetry = 1
    MaxHeld = 1
    MaxSeq = 3
INVARIANT HolderOwns
PROPERTY PoolSpec NoEventLost DeliveredOnce
CHECK_DEADLOCK FALSE
