SPECIFICATION RestartSpec
CONSTANTS
    receiver = receiver
    one = one
    two = two
    NoBuffer = NoBuffer
    Managers = {receiver, one, two}
    Owners = {receiver}
    Senders = {one, two}
    Receivers = {receiver}
    Buffers = {0}
    Signalled = {one}
    Killed = {receiver}
    CountResetters = {receiver}
    Destructed = {receiver}
    Oversized = {1}
    MaxSegments = 2
    MaxIds = 1
    MaxFragments = 2
INVARIANT IdsUniqueUndisturbed NoBufferLost AcknowledgedOnceUndisturbed
PROPERTY FragmentArrives WriteEnds
CHECK_DEADLOCK FALSE
