SPECIFICATION Spec
CONSTANTS
    a = a
    b = b
    c = c
    t = t
    u = u
    Junk = Junk
    Stamp = Stamp
    Magic = Magic
    Slots = {1, 2}
    Versions <- OldAndCurrent
    UserTypes = {t, u}
    Data = {c}
    Words <- FirstWords
    MaxPayload = 2
    MaxOps = 5
    MaxChanges = 2
    CopyOld = FALSE
    CountLimit = 65536
    Lists <- NoneOrBoth
    EmptyFirst = FALSE
    MixedLists = FALSE
    Garbage = {0}
    GrowthSteps <- Steps
INVARIANTS ContentsKept ContainerHolds NothingWild EventKeeps
CHECK_DEADLOCK FALSE
SYMMETRY Symmetry
