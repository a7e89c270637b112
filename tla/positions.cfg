SPECIFICATION Spec
CONSTANTS
    one = one
    two = two
    NoManager = NoManager
    Managers = {one, two}
    Owner = one
    Forcers = {one}
    DestructiveRead = FALSE
    BufferSize = 3
    Sizes = {0, 1, 2, 4}
    MaxReadPos = 6
INVARIANT NothingLeftOver OnlyFinished
PROPERTY PublishedStays
