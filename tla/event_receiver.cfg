SPECIFICATION FairSpec
CONSTANTS
    p = p
    q = q
    NoBuffer = NoBuffer
    Nobody = Nobody
    Writer = Writer
    Receivers = {p, q}
    Buffers <- FewBuffers
    NumEvents <- OneAndTwo
    NumFragments = 1
    Inits = {1, 2}
    Overwritten = {}
INVARIANT InitOnce NothingForgotten FragmentsOfEvent
PROPERTY ReceiversKeepUp
