SPECIFICATION FairSpec
CONSTANTS
    one = one
    two = two
    Nobody = Nobody
    Readers = {one, two}
    NumBuffers = 3
    Leavers = {one, two}
    Killed = {}
    SlowReaders = {one}
    MaxEvents = 6
    MaxTimeouts = 1
PROPERTY InTurn EventuallyTaken LoneReaderTakes
CHECK_DEADLOCK FALSE
