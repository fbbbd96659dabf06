SPECIFICATION MCSpec
CONSTANTS
    o1 = o1
    o2 = o2
    Object = {o1, o2}
    Ino = {1, 2}
    Contents <- MCContents
    Reviewed <- MCReviewed
    Epoch = 1
    MaxChunks = 3
    Limit = 2
    MaxWrites = 2
    NoFile = NoFile
SYMMETRY Symmetric
INVARIANTS
    OneVersion
    ReviewedIsUsed
    PinnedIsRun
CHECK_DEADLOCK FALSE
