SPECIFICATION FairSpec
CONSTANTS
    x1 = x1  x2 = x2  x3 = x3
    Admins = {x1, x2, x3}
    ChunkSize = 2
    MaxTotal = 5
INVARIANTS
    TypeOK
    RetainedBounded
    LeftoverBounded
PROPERTIES
    LeakFillsUp
