CONSTANTS
    Writers = {w1, w2}
    Readers = {r1}
    Keys = {1, 2, 3, 4}
    Values = {v1, v2}
    Tables = {0, 1}
    TableOf <- SmallTableOf
    HomeOf <- SmallHomeOf
    ReadTableOf <- SmallTableOf
    ReadHomeOf <- SmallReadHomeOf
    Size = 4
    UninitKeys = {0, 3}
    None = None
    Uninit = Uninit
SPECIFICATION FairSpec
INVARIANTS
    TypeOK
    ProbeChains
    ReaderStaysInTable
    HitIsOwnEntry
    FoundWhereAlike
PROPERTIES
    LookupEnds
    ImplementsCodeMap
CHECK_DEADLOCK FALSE
